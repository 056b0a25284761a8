--------------------------- MODULE HashMapsProofs ---------------------------
(***************************************************************************)
(* Proofs about HashMaps, for every set of keys and every hash function.   *)
(*                                                                         *)
(* The inductive invariant (Inv) is Consistent, the types, that no two     *)
(* nodes have one key, and that the keys in the nodes are the history's.   *)
(* Each operation is shown to keep it by what it does to the nodes: a node *)
(* is put in or taken out, and the table or the links follow.              *)
(*                                                                         *)
(* The searches along a chain and the loops of ReallocAndRehash are        *)
(* recursive functions.  That such a function exists is proved from the    *)
(* order in which it is computed (TailRecursionExists, DenseLoopExists,    *)
(* SparseLoopExists), and what it computes from the first or the last      *)
(* place at which it would fail to.                                        *)
(***************************************************************************)
EXTENDS HashMaps, FiniteSetTheorems, SequenceTheorems, WellFoundedInduction, TLAPS

-----------------------------------------------------------------------------
(* Induction.  The loops and recursions of the maps go over finitely many numbers; a
   claim about all of them is proved by the least or the greatest number it fails for. *)

(* A set of numbers that is not empty has a least member ... *)
LEMMA Least ==
    ASSUME NEW T \in SUBSET Nat, T # {}
    PROVE  \E i \in T : \A j \in T : i <= j
<1>1. PICK i \in T : \A j \in T : ~(<<j, i>> \in OpToRel(<, Nat))
  BY NatLessThanWellFounded, WFMin
<1>2. \A j, k \in Nat : j < k => <<j, k>> \in OpToRel(<, Nat)
  BY DEF OpToRel
<1>3. \A j \in T : ~(j < i)
  BY <1>1, <1>2, Zenon
<1>. QED
  BY <1>3

(* ... and a greatest one, if it is bounded. *)
LEMMA Greatest ==
    ASSUME NEW n \in Nat, NEW T \in SUBSET (0 .. n), T # {}
    PROVE  \E i \in T : \A j \in T : j <= i
<1>. DEFINE U == {n - i : i \in T}
<1>1. U \in SUBSET Nat /\ U # {}
  <2>1. \A i \in T : n - i \in Nat
    OBVIOUS
  <2>2. U \in SUBSET Nat
    BY <2>1
  <2>3. PICK i \in T : TRUE
    OBVIOUS
  <2>4. n - i \in U
    OBVIOUS
  <2>. QED
    BY <2>2, <2>4
<1>2. PICK u \in U : \A v \in U : u <= v
  BY <1>1, Least
<1>3. PICK i \in T : u = n - i
  OBVIOUS
<1>4. \A j \in T : n - j \in U
  OBVIOUS
<1>. HIDE DEF U
<1>5. \A j \in T : n - i <= n - j
  BY <1>2, <1>3, <1>4
<1>. QED
  BY <1>5

(* A hash modulo the size of a table. *)
LEMMA HashRange ==
    ASSUME NEW k \in Keys, NEW n \in Nat, n > 0
    PROVE  Hash[k] % n \in 0 .. n - 1
<1>1. Hash[k] \in Nat
  BY HashMapsAssumption
<1>. QED
  BY <1>1

(* What SeqExt!InsertAt and SeqExt!RemoveAt are in both maps. *)
Insertion(s, i, e) == SubSeq(s, 1, i - 1) \o <<e>> \o SubSeq(s, i, Len(s))
Removal(s, i) == SubSeq(s, 1, i - 1) \o SubSeq(s, i + 1, Len(s))

(* A sequence with e inserted before place i ... *)
LEMMA Inserted ==
    ASSUME NEW S, NEW s \in Seq(S), NEW e \in S, NEW i \in 1 .. Len(s) + 1,
           NEW t
    PROVE  t = Insertion(s, i, e) =>
           /\ t \in Seq(S) /\ Len(t) = Len(s) + 1
           /\ \A j \in 1 .. i - 1 : t[j] = s[j]
           /\ t[i] = e
           /\ \A j \in i + 1 .. Len(s) + 1 : t[j] = s[j - 1]
<1>. DEFINE l == SubSeq(s, 1, i - 1)
            r == SubSeq(s, i, Len(s))
            u == l \o <<e>>
<1>0. Len(s) \in Nat /\ \A j \in 1 .. Len(s) : s[j] \in S
  BY LenProperties
<1>1. /\ l \in Seq(S) /\ Len(l) = i - 1
      /\ \A j \in 1 .. i - 1 : l[j] = s[j]
  BY <1>0, SubSeqProperties, Z3
<1>2. /\ r \in Seq(S) /\ Len(r) = Len(s) - i + 1
      /\ \A j \in 1 .. Len(s) - i + 1 : r[j] = s[i + j - 1]
  BY <1>0, SubSeqProperties, Z3
<1>3. <<e>> \in Seq(S) /\ Len(<<e>>) = 1 /\ <<e>>[1] = e
  OBVIOUS
<1>. HIDE DEF l, r
<1>4. /\ u \in Seq(S) /\ Len(u) = i
      /\ \A j \in 1 .. i : u[j] = IF j <= i - 1 THEN l[j] ELSE e
  BY <1>1, <1>3, ConcatProperties
<1>. HIDE DEF u
<1>5. SUFFICES ASSUME t = u \o r
               PROVE  /\ t \in Seq(S) /\ Len(t) = Len(s) + 1
                      /\ \A j \in 1 .. i - 1 : t[j] = s[j]
                      /\ t[i] = e
                      /\ \A j \in i + 1 .. Len(s) + 1 : t[j] = s[j - 1]
  BY Zenon DEF u, l, r, Insertion
<1>6. /\ t \in Seq(S) /\ Len(t) = Len(s) + 1
      /\ \A j \in 1 .. Len(s) + 1 : t[j] = IF j <= i THEN u[j] ELSE r[j - i]
  <2>1. Len(u) + Len(r) = Len(s) + 1
    BY <1>0, <1>2, <1>4
  <2>2. /\ t \in Seq(S) /\ Len(t) = Len(u) + Len(r)
        /\ \A j \in 1 .. Len(u) + Len(r) : t[j] = IF j <= Len(u) THEN u[j] ELSE r[j - Len(u)]
    BY <1>2, <1>4, <1>5, ConcatProperties, Zenon
  <2>. QED
    BY <1>4, <2>1, <2>2, Zenon
<1>7. ASSUME NEW j \in 1 .. Len(s) + 1
      PROVE  t[j] = IF j < i THEN s[j] ELSE IF j = i THEN e ELSE s[j - 1]
  <2>1. CASE j <= i
    BY <1>0, <1>1, <1>4, <1>6, <2>1
  <2>2. CASE j > i
    <3>1. j - i \in 1 .. Len(s) - i + 1 /\ i + (j - i) - 1 = j - 1
      BY <1>0, <2>2
    <3>2. t[j] = r[j - i]
      BY <1>0, <1>6, <2>2
    <3>3. r[j - i] = s[i + (j - i) - 1]
      BY <1>2, <3>1
    <3>. QED
      BY <1>0, <2>2, <3>1, <3>2, <3>3
  <2>. QED
    BY <1>0, <2>1, <2>2
<1>. QED
  BY <1>0, <1>6, <1>7

(* ... and without the element at place i. *)
LEMMA Removed ==
    ASSUME NEW S, NEW s \in Seq(S), NEW i \in 1 .. Len(s),
           NEW t
    PROVE  t = Removal(s, i) =>
           /\ t \in Seq(S) /\ Len(t) = Len(s) - 1
           /\ \A j \in 1 .. i - 1 : t[j] = s[j]
           /\ \A j \in i .. Len(s) - 1 : t[j] = s[j + 1]
<1>. DEFINE l == SubSeq(s, 1, i - 1)
            r == SubSeq(s, i + 1, Len(s))
<1>0. Len(s) \in Nat /\ \A j \in 1 .. Len(s) : s[j] \in S
  BY LenProperties
<1>1. /\ l \in Seq(S) /\ Len(l) = i - 1
      /\ \A j \in 1 .. i - 1 : l[j] = s[j]
  BY <1>0, SubSeqProperties, Z3
<1>2. /\ r \in Seq(S) /\ Len(r) = Len(s) - i
      /\ \A j \in 1 .. Len(s) - i : r[j] = s[i + j]
  BY <1>0, SubSeqProperties, Z3
<1>. HIDE DEF l, r
<1>5. SUFFICES ASSUME t = l \o r
               PROVE  /\ t \in Seq(S) /\ Len(t) = Len(s) - 1
                      /\ \A j \in 1 .. i - 1 : t[j] = s[j]
                      /\ \A j \in i .. Len(s) - 1 : t[j] = s[j + 1]
  BY Zenon DEF l, r, Removal
<1>6. /\ t \in Seq(S) /\ Len(t) = Len(s) - 1
      /\ \A j \in 1 .. Len(s) - 1 : t[j] = IF j <= i - 1 THEN l[j] ELSE r[j - (i - 1)]
  <2>1. Len(l) + Len(r) = Len(s) - 1
    BY <1>0, <1>1, <1>2
  <2>2. /\ t \in Seq(S) /\ Len(t) = Len(l) + Len(r)
        /\ \A j \in 1 .. Len(l) + Len(r) : t[j] = IF j <= Len(l) THEN l[j] ELSE r[j - Len(l)]
    BY <1>1, <1>2, <1>5, ConcatProperties, Zenon
  <2>. QED
    BY <1>1, <2>1, <2>2, Zenon
<1>7. ASSUME NEW j \in 1 .. Len(s) - 1
      PROVE  t[j] = IF j < i THEN s[j] ELSE s[j + 1]
  <2>1. CASE j < i
    BY <1>0, <1>1, <1>6, <2>1
  <2>2. CASE j >= i
    <3>1. j - (i - 1) \in 1 .. Len(s) - i /\ i + (j - (i - 1)) = j + 1
      BY <1>0, <2>2
    <3>2. t[j] = r[j - (i - 1)]
      BY <1>0, <1>6, <2>2
    <3>3. r[j - (i - 1)] = s[i + (j - (i - 1))]
      BY <1>2, <3>1
    <3>. QED
      BY <1>0, <2>2, <3>1, <3>2, <3>3
  <2>. QED
    BY <1>0, <2>1, <2>2
<1>8. /\ \A j \in 1 .. i - 1 : t[j] = s[j]
      /\ \A j \in i .. Len(s) - 1 : t[j] = s[j + 1]
  <2>1. ASSUME NEW j \in 1 .. i - 1 PROVE t[j] = s[j]
    <3>1. j \in 1 .. Len(s) - 1 /\ j < i
      BY <1>0
    <3>. QED
      BY <1>7, <3>1
  <2>2. ASSUME NEW j \in i .. Len(s) - 1 PROVE t[j] = s[j + 1]
    <3>1. j \in 1 .. Len(s) - 1 /\ ~(j < i)
      BY <1>0
    <3>. QED
      BY <1>7, <3>1
  <2>. QED
    BY <2>1, <2>2
<1>. QED
  BY <1>6, <1>8

-----------------------------------------------------------------------------
(* The dense map. *)

(* The keys in the array. *)
DenseKeys(m) == {m.nodes[i] : i \in DOMAIN m.nodes}

DenseType(m) ==
    /\ m.nodes \in Seq(Keys)
    /\ Dense!Size(m) \in Nat
    /\ m.lookup \in [0 .. Dense!Size(m) - 1 -> [index : Nat, num : Nat]]

DenseDistinct(m) == \A i, j \in DOMAIN m.nodes : m.nodes[i] = m.nodes[j] => i = j

DenseInv(m) == DenseType(m) /\ DenseDistinct(m) /\ Dense!Consistent(m)

(* The size of a table that has n buckets. *)
LEMMA DenseSize ==
    ASSUME NEW n \in Nat, NEW m, DOMAIN m.lookup = 0 .. n - 1
    PROVE  Dense!Size(m) = n
<1>1. Cardinality(0 .. n - 1) = n
  BY FS_Interval
<1>2. Dense!Cardinality(0 .. n - 1) = Cardinality(0 .. n - 1)
  BY DEF Dense!Cardinality, Cardinality
<1>3. Dense!Size(m) = Dense!Cardinality(0 .. n - 1)
  BY Zenon DEF Dense!Size
<1>. QED
  BY <1>1, <1>2, <1>3

(* A map with empty buckets. *)
LEMMA DenseCleared ==
    ASSUME NEW n \in Nat
    PROVE  /\ DenseInv(Dense!Cleared(n))
           /\ Dense!Size(Dense!Cleared(n)) = n
           /\ Dense!Cleared(n).nodes = <<>>
           /\ DenseKeys(Dense!Cleared(n)) = {}
<1>. DEFINE m == Dense!Cleared(n)
<1>1. /\ m.nodes = <<>>
      /\ m.lookup = [b \in 0 .. n - 1 |-> [index |-> 0, num |-> 0]]
  BY DEF Dense!Cleared
<1>. HIDE DEF m
<1>2. Dense!Size(m) = n
  BY <1>1, DenseSize
<1>3. DenseType(m)
  BY <1>1, <1>2 DEF DenseType
<1>4. DenseDistinct(m) /\ DenseKeys(m) = {}
  BY <1>1 DEF DenseDistinct, DenseKeys
<1>5. \A b \in DOMAIN m.lookup : Dense!Positions(m, b) = {}
  BY <1>1 DEF Dense!Positions
<1>6. Dense!Consistent(m)
  BY <1>1, <1>2, <1>5 DEF Dense!Consistent
<1>. QED
  BY <1>1, <1>2, <1>3, <1>4, <1>6 DEF DenseInv, m

(* The search in the bucket of k finds k if it is anywhere. *)
LEMMA DenseHits ==
    ASSUME NEW m, DenseInv(m), NEW k \in Keys
    PROVE  /\ m.nodes # <<>> => (Dense!Hits(m, k) # {} <=> k \in DenseKeys(m))
           /\ Dense!Find(m, k) <=> k \in DenseKeys(m)
<1>1. m.nodes = <<>> => DenseKeys(m) = {}
  BY DEF DenseKeys
<1>2. ASSUME m.nodes # <<>>
      PROVE  Dense!Hits(m, k) # {} <=> k \in DenseKeys(m)
  <2>1. Len(m.nodes) \in Nat /\ Len(m.nodes) > 0 /\ DOMAIN m.nodes = 1 .. Len(m.nodes)
    BY <1>2, EmptySeq, LenProperties DEF DenseInv, DenseType
  <2>2. Dense!Size(m) \in Nat /\ Dense!Size(m) > 0
    BY <2>1 DEF DenseInv, DenseType, Dense!Consistent
  <2>3. Dense!CalculateLookupId(m, k) \in DOMAIN m.lookup
    BY <2>2, HashRange DEF DenseInv, DenseType, Dense!CalculateLookupId
  <2>4. ASSUME NEW i \in Dense!Hits(m, k)
        PROVE  i \in DOMAIN m.nodes /\ m.nodes[i] = k
    BY <2>3 DEF DenseInv, Dense!Consistent, Dense!Hits
  <2>5. ASSUME NEW i \in DOMAIN m.nodes, m.nodes[i] = k
        PROVE  i \in Dense!Hits(m, k)
    BY <2>5 DEF DenseInv, Dense!Consistent, Dense!Hits
  <2>. QED
    BY <2>4, <2>5 DEF DenseKeys
<1>. QED
  BY <1>1, <1>2 DEF Dense!Find

(* The types of a map, and the range of the buckets of its keys. *)
LEMMA DenseFacts ==
    ASSUME NEW m, DenseInv(m)
    PROVE  /\ Dense!Size(m) \in Nat /\ DOMAIN m.lookup = 0 .. Dense!Size(m) - 1
           /\ Len(m.nodes) \in Nat /\ DOMAIN m.nodes = 1 .. Len(m.nodes)
           /\ \A i \in DOMAIN m.nodes : m.nodes[i] \in Keys
           /\ \A b \in DOMAIN m.lookup : m.lookup[b].index \in Nat /\ m.lookup[b].num \in Nat
           /\ Dense!Size(m) > 0 =>
                  \A k \in Keys : Dense!CalculateLookupId(m, k) \in DOMAIN m.lookup
<1>1. m.nodes \in Seq(Keys) /\ Dense!Size(m) \in Nat
      /\ m.lookup \in [0 .. Dense!Size(m) - 1 -> [index : Nat, num : Nat]]
  BY DEF DenseInv, DenseType
<1>2. /\ Len(m.nodes) \in Nat /\ DOMAIN m.nodes = 1 .. Len(m.nodes)
      /\ \A i \in DOMAIN m.nodes : m.nodes[i] \in Keys
  BY <1>1, LenProperties
<1>3. Dense!Size(m) > 0 => \A k \in Keys : Dense!CalculateLookupId(m, k) \in DOMAIN m.lookup
  BY <1>1, HashRange DEF Dense!CalculateLookupId
<1>. QED
  BY <1>1, <1>2, <1>3

(* A key for an empty bucket goes to the end of the array. *)
LEMMA DenseAppend ==
    ASSUME NEW m, DenseInv(m), Len(m.nodes) < Dense!Size(m),
           NEW k \in Keys, k \notin DenseKeys(m),
           NEW b, b = Dense!CalculateLookupId(m, k), m.lookup[b].num = 0,
           NEW w, w.nodes = Append(m.nodes, k),
           w.lookup = [m.lookup EXCEPT ![b] = [index |-> Len(m.nodes), num |-> 1]]
    PROVE  /\ DenseInv(w) /\ Dense!Size(w) = Dense!Size(m)
           /\ DenseKeys(w) = DenseKeys(m) \cup {k}
           /\ Len(w.nodes) = Len(m.nodes) + 1
<1>. DEFINE n == Len(m.nodes)
<1>1. /\ Dense!Size(m) \in Nat /\ DOMAIN m.lookup = 0 .. Dense!Size(m) - 1
      /\ n \in Nat /\ DOMAIN m.nodes = 1 .. n
      /\ \A i \in DOMAIN m.nodes : m.nodes[i] \in Keys
      /\ \A c \in DOMAIN m.lookup : m.lookup[c].index \in Nat /\ m.lookup[c].num \in Nat
      /\ b \in DOMAIN m.lookup
  BY DenseFacts
<1>2. m.nodes \in Seq(Keys)
      /\ m.lookup \in [0 .. Dense!Size(m) - 1 -> [index : Nat, num : Nat]]
  BY DEF DenseInv, DenseType
<1>3. /\ w.nodes \in Seq(Keys) /\ Len(w.nodes) = n + 1 /\ DOMAIN w.nodes = 1 .. n + 1
      /\ \A i \in 1 .. n : w.nodes[i] = m.nodes[i]
      /\ w.nodes[n + 1] = k
  BY <1>1, <1>2, AppendProperties, LenProperties
<1>4. /\ w.lookup \in [0 .. Dense!Size(m) - 1 -> [index : Nat, num : Nat]]
      /\ \A c \in DOMAIN m.lookup : c # b => w.lookup[c] = m.lookup[c]
      /\ w.lookup[b].index = n /\ w.lookup[b].num = 1
  BY <1>1, <1>2
<1>5. Dense!Size(w) = Dense!Size(m)
  BY <1>1, <1>4, DenseSize
<1>6. \A x : Dense!CalculateLookupId(w, x) = Dense!CalculateLookupId(m, x)
  BY <1>5 DEF Dense!CalculateLookupId
<1>7. DenseKeys(w) = DenseKeys(m) \cup {k}
  BY <1>1, <1>3 DEF DenseKeys
<1>8. DenseDistinct(w)
  BY <1>1, <1>3 DEF DenseDistinct, DenseKeys, DenseInv
<1>9. \A c \in DOMAIN m.lookup : c # b => Dense!Positions(w, c) = Dense!Positions(m, c)
  BY <1>4 DEF Dense!Positions
<1>10. Dense!Positions(w, b) = {n + 1} /\ Dense!Positions(m, b) = {}
  BY <1>1, <1>4 DEF Dense!Positions
<1>11. ASSUME NEW c \in DOMAIN w.lookup, NEW i \in Dense!Positions(w, c)
       PROVE  i \in DOMAIN w.nodes /\ Dense!CalculateLookupId(w, w.nodes[i]) = c
  <2>1. CASE c = b
    BY <1>1, <1>3, <1>6, <1>10, <2>1
  <2>2. CASE c # b
    <3>1. i \in DOMAIN m.nodes /\ Dense!CalculateLookupId(m, m.nodes[i]) = c
      BY <1>1, <1>4, <1>9, <2>2 DEF DenseInv, Dense!Consistent
    <3>. QED
      BY <1>1, <1>3, <1>6, <3>1
  <2>. QED
    BY <2>1, <2>2
<1>12. ASSUME NEW i \in DOMAIN w.nodes
       PROVE  i \in Dense!Positions(w, Dense!CalculateLookupId(w, w.nodes[i]))
  <2>1. CASE i = n + 1
    BY <1>3, <1>6, <1>10, <2>1
  <2>2. CASE i # n + 1
    <3>1. i \in DOMAIN m.nodes /\ w.nodes[i] = m.nodes[i]
      BY <1>1, <1>3, <2>2
    <3>2. i \in Dense!Positions(m, Dense!CalculateLookupId(m, m.nodes[i]))
      BY <3>1 DEF DenseInv, Dense!Consistent
    <3>3. Dense!CalculateLookupId(m, m.nodes[i]) \in DOMAIN m.lookup
      BY <1>1, <3>1, DenseFacts
    <3>. QED
      BY <1>6, <1>9, <1>10, <3>1, <3>2, <3>3
  <2>. QED
    BY <2>1, <2>2
<1>13. Dense!Consistent(w)
  BY <1>1, <1>3, <1>5, <1>11, <1>12 DEF Dense!Consistent
<1>. QED
  BY <1>3, <1>4, <1>5, <1>7, <1>8, <1>13, <1>1 DEF DenseInv, DenseType

(* A key for a bucket that has nodes goes behind them, and the buckets behind move by one. *)
LEMMA DenseInsert ==
    ASSUME NEW m, NEW k \in Keys, NEW b, NEW end, NEW w
    PROVE  /\ DenseInv(m) /\ Len(m.nodes) < Dense!Size(m) /\ k \notin DenseKeys(m)
           /\ b = Dense!CalculateLookupId(m, k) /\ m.lookup[b].num # 0
           /\ end = m.lookup[b].index + m.lookup[b].num
           /\ w.nodes = Dense!SeqExt!InsertAt(m.nodes, end + 1, k)
           /\ w.lookup = [c \in DOMAIN m.lookup |->
                  [index |-> m.lookup[c].index + IF m.lookup[c].index >= end THEN 1 ELSE 0,
                   num |-> m.lookup[c].num + IF c = b THEN 1 ELSE 0]]
           => /\ DenseInv(w) /\ Dense!Size(w) = Dense!Size(m)
              /\ DenseKeys(w) = DenseKeys(m) \cup {k}
              /\ Len(w.nodes) = Len(m.nodes) + 1
<1>a. SUFFICES
          ASSUME DenseInv(m), Len(m.nodes) < Dense!Size(m), k \notin DenseKeys(m),
                 b = Dense!CalculateLookupId(m, k), m.lookup[b].num # 0,
                 end = m.lookup[b].index + m.lookup[b].num,
                 w.nodes = Dense!SeqExt!InsertAt(m.nodes, end + 1, k),
                 w.lookup = [c \in DOMAIN m.lookup |->
                     [index |-> m.lookup[c].index + IF m.lookup[c].index >= end THEN 1 ELSE 0,
                      num |-> m.lookup[c].num + IF c = b THEN 1 ELSE 0]]
          PROVE  /\ DenseInv(w) /\ Dense!Size(w) = Dense!Size(m)
                 /\ DenseKeys(w) = DenseKeys(m) \cup {k}
                 /\ Len(w.nodes) = Len(m.nodes) + 1
  BY Zenon
<1>b. /\ DenseInv(m) /\ Len(m.nodes) < Dense!Size(m) /\ k \notin DenseKeys(m)
      /\ b = Dense!CalculateLookupId(m, k) /\ m.lookup[b].num # 0
      /\ end = m.lookup[b].index + m.lookup[b].num
  BY <1>a, Zenon
<1>c. w.nodes = Insertion(m.nodes, end + 1, k)
  BY <1>a, Zenon DEF Dense!SeqExt!InsertAt, Insertion
<1>. DEFINE n == Len(m.nodes)
            ix(c) == m.lookup[c].index
            nm(c) == m.lookup[c].num
            ID(x) == Dense!CalculateLookupId(m, x)
<1>1. /\ Dense!Size(m) \in Nat /\ DOMAIN m.lookup = 0 .. Dense!Size(m) - 1
      /\ n \in Nat /\ DOMAIN m.nodes = 1 .. n
      /\ \A i \in DOMAIN m.nodes : m.nodes[i] \in Keys
      /\ \A c \in DOMAIN m.lookup : ix(c) \in Nat /\ nm(c) \in Nat
      /\ b \in DOMAIN m.lookup
  BY <1>b, DenseFacts
<1>2. /\ \A c \in DOMAIN m.lookup : \A i \in ix(c) + 1 .. ix(c) + nm(c) :
             i \in 1 .. n /\ ID(m.nodes[i]) = c
      /\ \A i \in 1 .. n : /\ ID(m.nodes[i]) \in DOMAIN m.lookup
                           /\ i \in ix(ID(m.nodes[i])) + 1 .. ix(ID(m.nodes[i])) + nm(ID(m.nodes[i]))
  <2>1. \A i \in 1 .. n : ID(m.nodes[i]) \in DOMAIN m.lookup
    BY <1>b, <1>1, DenseFacts
  <2>. QED
    BY <1>b, <1>1, <2>1 DEF DenseInv, Dense!Consistent, Dense!Positions
<1>3. end \in 1 .. n /\ ix(b) < end /\ end = ix(b) + nm(b) /\ ID(m.nodes[end]) = b
  <2>1. end \in ix(b) + 1 .. ix(b) + nm(b)
    BY <1>b, <1>1
  <2>. QED
    BY <1>b, <1>1, <1>2, <2>1
<1>4. /\ w.nodes \in Seq(Keys) /\ Len(w.nodes) = n + 1 /\ DOMAIN w.nodes = 1 .. n + 1
      /\ \A i \in 1 .. n + 1 : w.nodes[i] = IF i < end + 1 THEN m.nodes[i]
                                            ELSE IF i = end + 1 THEN k ELSE m.nodes[i - 1]
  <2>0. m.nodes \in Seq(Keys)
    BY <1>b DEF DenseInv, DenseType
  <2>1. m.nodes \in Seq(Keys) /\ end + 1 \in 1 .. n + 1
    <3>. HIDE DEF n, ix, nm, ID
    <3>. QED
      BY <1>1, <1>3, <2>0
  <2>2. PICK e : e = end + 1
    OBVIOUS
  <2>. HIDE DEF n
  <2>3. /\ w.nodes \in Seq(Keys) /\ Len(w.nodes) = Len(m.nodes) + 1
        /\ \A i \in 1 .. e - 1 : w.nodes[i] = m.nodes[i]
        /\ w.nodes[e] = k
        /\ \A i \in e + 1 .. Len(m.nodes) + 1 : w.nodes[i] = m.nodes[i - 1]
    <3>1. PICK s, t : s = m.nodes /\ t = w.nodes
      OBVIOUS
    <3>2. t = Insertion(s, e, k) /\ e \in 1 .. Len(s) + 1 /\ s \in Seq(Keys)
      BY <1>c, <2>1, <2>2, <3>1 DEF n
    <3>3. /\ t \in Seq(Keys) /\ Len(t) = Len(s) + 1
          /\ \A i \in 1 .. e - 1 : t[i] = s[i]
          /\ t[e] = k
          /\ \A i \in e + 1 .. Len(s) + 1 : t[i] = s[i - 1]
      BY <3>2, Inserted
    <3>. QED
      BY <3>1, <3>3
  <2>4. DOMAIN w.nodes = 1 .. n + 1
    BY <2>3, LenProperties DEF n
  <2>5. \A i \in 1 .. n + 1 : \/ i \in 1 .. e - 1
                               \/ i = e
                               \/ i \in e + 1 .. n + 1
    BY <1>1, <1>3, <2>2
  <2>6. w.nodes \in Seq(Keys) /\ Len(w.nodes) = n + 1
    BY <2>3 DEF n
  <2>7. ASSUME NEW i \in 1 .. n + 1
        PROVE  w.nodes[i] = IF i < end + 1 THEN m.nodes[i]
                            ELSE IF i = end + 1 THEN k ELSE m.nodes[i - 1]
    <3>1. CASE i \in 1 .. e - 1
      BY <1>1, <1>3, <2>2, <2>3, <3>1
    <3>2. CASE i = e
      BY <1>1, <1>3, <2>2, <2>3, <3>2
    <3>3. CASE i \in e + 1 .. n + 1
      <4>1. w.nodes[i] = m.nodes[i - 1]
        BY <2>3, <3>3 DEF n
      <4>. QED
        BY <1>1, <1>3, <2>2, <3>3, <4>1
    <3>. QED
      BY <2>5, <3>1, <3>2, <3>3
  <2>. QED
    BY <2>4, <2>6, <2>7
<1>5. /\ w.lookup \in [0 .. Dense!Size(m) - 1 -> [index : Nat, num : Nat]]
      /\ \A c \in DOMAIN m.lookup :
             /\ w.lookup[c].index = ix(c) + IF ix(c) >= end THEN 1 ELSE 0
             /\ w.lookup[c].num = nm(c) + IF c = b THEN 1 ELSE 0
             /\ w.lookup[c].index \in Nat /\ w.lookup[c].num \in Nat
  <2>1. w.lookup = [c \in DOMAIN m.lookup |->
                       [index |-> ix(c) + IF ix(c) >= end THEN 1 ELSE 0,
                        num |-> nm(c) + IF c = b THEN 1 ELSE 0]]
    BY <1>a
  <2>. HIDE DEF ix, nm
  <2>2. \A c \in DOMAIN m.lookup : /\ ix(c) + (IF ix(c) >= end THEN 1 ELSE 0) \in Nat
                                   /\ nm(c) + (IF c = b THEN 1 ELSE 0) \in Nat
    BY <1>1
  <2>. QED
    BY <1>1, <2>1, <2>2
<1>6. Dense!Size(w) = Dense!Size(m)
  BY <1>1, <1>5, DenseSize
<1>7. \A x : Dense!CalculateLookupId(w, x) = ID(x)
  BY <1>6 DEF Dense!CalculateLookupId
<1>. HIDE DEF n, ID, ix, nm
<1>8. ASSUME NEW c \in DOMAIN m.lookup, c # b, ix(c) < end, NEW i \in ix(c) + 1 .. ix(c) + nm(c)
      PROVE  i < end
  <2>1. SUFFICES ASSUME i >= end PROVE FALSE
    BY <1>1, <1>3, <1>8
  <2>2. end \in ix(c) + 1 .. ix(c) + nm(c)
    BY <1>1, <1>3, <1>8, <2>1
  <2>. QED
    BY <1>2, <1>3, <1>8, <2>2
<1>9. DenseKeys(w) = DenseKeys(m) \cup {k}
  <2>1. ASSUME NEW i \in 1 .. n PROVE \E j \in 1 .. n + 1 : w.nodes[j] = m.nodes[i]
    <3>1. CASE i <= end
      BY <1>1, <1>3, <1>4, <3>1
    <3>2. CASE i > end
      <4>1. i + 1 \in 1 .. n + 1 /\ w.nodes[i + 1] = m.nodes[i]
        BY <1>1, <1>3, <1>4, <3>2
      <4>. QED
        BY <4>1
    <3>. QED
      BY <1>1, <1>3, <3>1, <3>2
  <2>2. w.nodes[end + 1] = k /\ end + 1 \in 1 .. n + 1
    BY <1>1, <1>3, <1>4
  <2>3. ASSUME NEW j \in 1 .. n + 1
        PROVE  w.nodes[j] = k \/ \E i \in 1 .. n : w.nodes[j] = m.nodes[i]
    <3>1. CASE j <= end
      BY <1>1, <1>3, <1>4, <3>1
    <3>2. CASE j > end + 1
      <4>1. j - 1 \in 1 .. n /\ w.nodes[j] = m.nodes[j - 1]
        BY <1>1, <1>3, <1>4, <3>2
      <4>. QED
        BY <4>1
    <3>. QED
      BY <1>1, <1>3, <2>2, <3>1, <3>2
  <2>4. DenseKeys(w) = {w.nodes[i] : i \in 1 .. n + 1} /\ DenseKeys(m) = {m.nodes[i] : i \in 1 .. n}
    BY <1>1, <1>4 DEF DenseKeys
  <2>5. ASSUME NEW x \in DenseKeys(w) PROVE x \in DenseKeys(m) \cup {k}
    BY <2>3, <2>4
  <2>6. ASSUME NEW x \in DenseKeys(m) \cup {k} PROVE x \in DenseKeys(w)
    BY <2>1, <2>2, <2>4
  <2>. QED
    BY <2>5, <2>6, Zenon
<1>10. DenseDistinct(w)
  <2>1. \A i, j \in 1 .. n : m.nodes[i] = m.nodes[j] => i = j
    BY <1>b, <1>1 DEF DenseInv, DenseDistinct
  <2>2. \A i \in 1 .. n : m.nodes[i] # k
    BY <1>b, <1>1 DEF DenseKeys
  <2>. DEFINE from(i) == IF i <= end THEN i ELSE i - 1
  <2>3. ASSUME NEW i \in 1 .. n + 1, i # end + 1
        PROVE  from(i) \in 1 .. n /\ w.nodes[i] = m.nodes[from(i)]
    BY <1>1, <1>3, <1>4, <2>3
  <2>4. w.nodes[end + 1] = k
    BY <1>1, <1>3, <1>4
  <2>5. ASSUME NEW i \in 1 .. n + 1, NEW j \in 1 .. n + 1, w.nodes[i] = w.nodes[j]
        PROVE  i = j
    <3>1. CASE i = end + 1 \/ j = end + 1
      BY <2>2, <2>3, <2>4, <2>5, <3>1
    <3>2. CASE i # end + 1 /\ j # end + 1
      <4>1. from(i) = from(j)
        BY <2>1, <2>3, <2>5, <3>2
      <4>. QED
        BY <1>1, <1>3, <3>2, <4>1
    <3>. QED
      BY <3>1, <3>2
  <2>. QED
    BY <1>4, <2>5 DEF DenseDistinct
<1>11. ASSUME NEW c \in DOMAIN m.lookup, NEW i \in Dense!Positions(w, c)
       PROVE  i \in 1 .. n + 1 /\ ID(w.nodes[i]) = c
  <2>1. i \in w.lookup[c].index + 1 .. w.lookup[c].index + w.lookup[c].num /\ i \in Int
    BY <1>5 DEF Dense!Positions
  <2>0. /\ n \in Nat /\ end \in 1 .. n /\ ix(c) \in Nat /\ nm(c) \in Nat
        /\ w.lookup[c].index = ix(c) + IF ix(c) >= end THEN 1 ELSE 0
        /\ w.lookup[c].num = nm(c) + IF c = b THEN 1 ELSE 0
    BY <1>1, <1>3, <1>5
  <2>2. CASE c = b /\ i = end + 1
    <3>1. i \in 1 .. n + 1 /\ ~(i < end + 1)
      BY <2>0, <2>2
    <3>2. w.nodes[i] = k
      BY <1>4, <2>2, <3>1
    <3>. QED
      BY <1>b, <2>2, <3>1, <3>2 DEF ID
  <2>3. CASE c = b /\ i # end + 1
    <3>1. i \in ix(b) + 1 .. ix(b) + nm(b) /\ i <= end
      BY <1>1, <1>3, <1>5, <2>1, <2>3
    <3>2. i \in 1 .. n /\ ID(m.nodes[i]) = b
      BY <1>1, <1>2, <3>1
    <3>. QED
      BY <1>1, <1>3, <1>4, <2>3, <3>1, <3>2
  <2>4. CASE c # b /\ ix(c) >= end
    <3>0. w.lookup[c].index = ix(c) + 1 /\ w.lookup[c].num = nm(c)
      BY <2>0, <2>4
    <3>1. i - 1 \in ix(c) + 1 .. ix(c) + nm(c) /\ i > end + 1
      BY <2>0, <2>1, <2>4, <3>0
    <3>2. i - 1 \in 1 .. n /\ ID(m.nodes[i - 1]) = c
      BY <1>2, <3>1
    <3>3. i \in 1 .. n + 1
      BY <1>1, <2>1, <3>2
    <3>4. w.nodes[i] = m.nodes[i - 1]
      <4>1. ~(i < end + 1) /\ i # end + 1
        BY <2>0, <3>1, <3>3
      <4>. QED
        BY <1>4, <3>3, <4>1
    <3>. QED
      BY <3>2, <3>3, <3>4
  <2>5. CASE c # b /\ ix(c) < end
    <3>0. w.lookup[c].index = ix(c) /\ w.lookup[c].num = nm(c)
      BY <2>0, <2>5
    <3>1. i \in ix(c) + 1 .. ix(c) + nm(c)
      BY <2>1, <3>0
    <3>2. i < end /\ i \in 1 .. n /\ ID(m.nodes[i]) = c
      BY <1>2, <1>8, <2>5, <3>1
    <3>3. w.nodes[i] = m.nodes[i] /\ i \in 1 .. n + 1
      BY <1>1, <1>3, <1>4, <3>2
    <3>. QED
      BY <3>2, <3>3
  <2>. QED
    BY <1>1, <1>3, <2>2, <2>3, <2>4, <2>5
<1>12. ASSUME NEW i \in 1 .. n + 1
       PROVE  i \in Dense!Positions(w, ID(w.nodes[i]))
  <2>1. CASE i = end + 1
    <3>1. w.nodes[i] = k /\ ID(k) = b
      <4>1. ~(i < end + 1)
        BY <1>1, <1>3, <2>1
      <4>. QED
        BY <1>b, <1>4, <2>1, <4>1 DEF ID
    <3>2. w.lookup[b].index = ix(b) /\ w.lookup[b].num = nm(b) + 1
      BY <1>1, <1>3, <1>5
    <3>3. i \in ix(b) + 1 .. ix(b) + (nm(b) + 1)
      BY <1>1, <1>3, <2>1
    <3>. QED
      BY <3>1, <3>2, <3>3 DEF Dense!Positions
  <2>2. CASE i <= end
    <3>. DEFINE c == ID(m.nodes[i])
    <3>1. w.nodes[i] = m.nodes[i] /\ i \in 1 .. n
      BY <1>1, <1>3, <1>4, <2>2
    <3>2. c \in DOMAIN m.lookup /\ i \in ix(c) + 1 .. ix(c) + nm(c)
      BY <1>2, <3>1
    <3>. HIDE DEF c
    <3>3. ix(c) < end /\ w.lookup[c].index = ix(c) /\ w.lookup[c].num \in {nm(c), nm(c) + 1}
      <4>1. ix(c) \in Nat /\ nm(c) \in Nat /\ ix(c) < end
        BY <1>1, <1>3, <2>2, <3>2
      <4>. QED
        BY <1>3, <1>5, <3>2, <4>1
    <3>4. i \in w.lookup[c].index + 1 .. w.lookup[c].index + w.lookup[c].num
      BY <1>1, <3>2, <3>3
    <3>. QED
      BY <3>1, <3>4 DEF c, Dense!Positions
  <2>3. CASE i > end + 1
    <3>. DEFINE c == ID(m.nodes[i - 1])
    <3>1. w.nodes[i] = m.nodes[i - 1] /\ i - 1 \in 1 .. n /\ i - 1 > end
      BY <1>1, <1>3, <1>4, <2>3
    <3>2. c \in DOMAIN m.lookup /\ i - 1 \in ix(c) + 1 .. ix(c) + nm(c)
      BY <1>2, <3>1
    <3>. HIDE DEF c
    <3>3. c # b
      BY <1>1, <1>3, <3>1, <3>2
    <3>4. ix(c) >= end
      <4>1. ix(c) \in Nat /\ end \in Nat /\ ~(i - 1 < end)
        BY <1>1, <1>3, <3>1, <3>2
      <4>2. ~(ix(c) < end)
        BY <1>8, <3>2, <3>3, <4>1
      <4>. QED
        BY <4>1, <4>2
    <3>5. w.lookup[c].index = ix(c) + 1 /\ w.lookup[c].num = nm(c)
      <4>1. /\ nm(c) \in Nat
            /\ w.lookup[c].index = ix(c) + IF ix(c) >= end THEN 1 ELSE 0
            /\ w.lookup[c].num = nm(c) + IF c = b THEN 1 ELSE 0
        BY <1>1, <1>5, <3>2
      <4>. QED
        BY <3>3, <3>4, <4>1
    <3>6. i \in ix(c) + 1 + 1 .. ix(c) + 1 + nm(c)
      BY <1>1, <3>2
    <3>. QED
      BY <3>1, <3>5, <3>6 DEF c, Dense!Positions
  <2>. QED
    BY <1>1, <1>3, <2>1, <2>2, <2>3
<1>13. n + 1 <= Dense!Size(w)
  BY <1>b, <1>1, <1>6 DEF n
<1>14. Dense!Consistent(w)
  <2>1. DOMAIN w.lookup = DOMAIN m.lookup /\ DOMAIN w.nodes = 1 .. n + 1 /\ Len(w.nodes) = n + 1
    BY <1>1, <1>4, <1>5
  <2>. QED
    BY <1>7, <1>11, <1>12, <1>13, <2>1 DEF Dense!Consistent
<1>. QED
  BY <1>1, <1>4, <1>5, <1>6, <1>9, <1>10, <1>14 DEF DenseInv, DenseType, n

(* EmplacePair, while the table is larger than the array. *)
LEMMA DenseEmplace ==
    ASSUME NEW m, NEW k \in Keys, DenseInv(m), Len(m.nodes) < Dense!Size(m)
    PROVE  /\ DenseInv(Dense!EmplacePair(m, k))
           /\ Dense!Size(Dense!EmplacePair(m, k)) = Dense!Size(m)
           /\ DenseKeys(Dense!EmplacePair(m, k)) = DenseKeys(m) \cup {k}
           /\ k \notin DenseKeys(m) => Len(Dense!EmplacePair(m, k).nodes) = Len(m.nodes) + 1
<1>. DEFINE b == Dense!CalculateLookupId(m, k)
            end == m.lookup[b].index + m.lookup[b].num
            w == Dense!EmplacePair(m, k)
<1>1. Len(m.nodes) \in Nat /\ b \in DOMAIN m.lookup /\ m.lookup[b].num \in Nat
  BY DenseFacts
<1>2. Dense!Hits(m, k) # {} <=> k \in DenseKeys(m)
  <2>1. m.nodes = <<>> => DenseKeys(m) = {} /\ Len(m.nodes) = 0
    BY DEF DenseKeys
  <2>2. m.nodes = <<>> => Dense!Hits(m, k) = {}
    BY <1>1, <2>1 DEF Dense!Hits, DenseInv, Dense!Consistent
  <2>. QED
    BY <2>1, <2>2, DenseHits
<1>3. m.lookup[b].num = 0 => k \notin DenseKeys(m)
  <2>1. m.lookup[b].num = 0 => Dense!Positions(m, b) = {}
    BY DenseFacts DEF Dense!Positions
  <2>. QED
    BY <1>2, <2>1 DEF Dense!Hits
<1>4. CASE m.lookup[b].num = 0
  <2>1. w = [nodes |-> Append(m.nodes, k),
             lookup |-> [m.lookup EXCEPT ![b] = [index |-> Len(m.nodes), num |-> 1]]]
    BY <1>4 DEF Dense!EmplacePair
  <2>. HIDE DEF w
  <2>2. /\ w.nodes = Append(m.nodes, k)
        /\ w.lookup = [m.lookup EXCEPT ![b] = [index |-> Len(m.nodes), num |-> 1]]
    BY <2>1
  <2>. HIDE DEF b
  <2>3. k \notin DenseKeys(m)
    BY <1>3, <1>4
  <2>4. /\ DenseInv(w) /\ Dense!Size(w) = Dense!Size(m)
        /\ DenseKeys(w) = DenseKeys(m) \cup {k}
        /\ Len(w.nodes) = Len(m.nodes) + 1
    BY <1>4, <2>2, <2>3, DenseAppend DEF b
  <2>. QED
    BY <2>3, <2>4 DEF w
<1>5. CASE m.lookup[b].num # 0 /\ k \in DenseKeys(m)
  <2>1. w = m
    BY <1>2, <1>5 DEF Dense!EmplacePair
  <2>. QED
    BY <1>1, <1>5, <2>1
<1>6. CASE m.lookup[b].num # 0 /\ k \notin DenseKeys(m)
  <2>1. w = [nodes |-> Dense!SeqExt!InsertAt(m.nodes, end + 1, k),
             lookup |-> [c \in DOMAIN m.lookup |->
                 [index |-> m.lookup[c].index + IF m.lookup[c].index >= end THEN 1 ELSE 0,
                  num |-> m.lookup[c].num + IF c = b THEN 1 ELSE 0]]]
    BY <1>2, <1>6 DEF Dense!EmplacePair
  <2>. HIDE DEF w
  <2>2. /\ w.nodes = Dense!SeqExt!InsertAt(m.nodes, end + 1, k)
        /\ w.lookup = [c \in DOMAIN m.lookup |->
                 [index |-> m.lookup[c].index + IF m.lookup[c].index >= end THEN 1 ELSE 0,
                  num |-> m.lookup[c].num + IF c = b THEN 1 ELSE 0]]
    BY <2>1
  <2>. HIDE DEF b, end
  <2>3. /\ DenseInv(w) /\ Dense!Size(w) = Dense!Size(m)
        /\ DenseKeys(w) = DenseKeys(m) \cup {k}
        /\ Len(w.nodes) = Len(m.nodes) + 1
    BY <1>6, <2>2, DenseInsert DEF b, end
  <2>. QED
    BY <1>6, <2>3 DEF w
<1>. QED
  BY <1>1, <1>4, <1>5, <1>6

(* Remove takes one node out, and the buckets behind it move back by one. *)
LEMMA DenseTakeOut ==
    ASSUME NEW m, NEW k \in Keys, NEW b, NEW p, NEW w
    PROVE  /\ DenseInv(m) /\ p \in DOMAIN m.nodes /\ m.nodes[p] = k
           /\ b = Dense!CalculateLookupId(m, k)
           /\ w.nodes = Dense!SeqExt!RemoveAt(m.nodes, p)
           /\ w.lookup = [c \in DOMAIN m.lookup |->
                  [index |-> m.lookup[c].index - IF m.lookup[c].index > p - 1 THEN 1 ELSE 0,
                   num |-> m.lookup[c].num - IF c = b THEN 1 ELSE 0]]
           => /\ DenseInv(w) /\ Dense!Size(w) = Dense!Size(m)
              /\ DenseKeys(w) = DenseKeys(m) \ {k}
<1>a. SUFFICES
          ASSUME DenseInv(m), p \in DOMAIN m.nodes, m.nodes[p] = k,
                 b = Dense!CalculateLookupId(m, k),
                 w.nodes = Dense!SeqExt!RemoveAt(m.nodes, p),
                 w.lookup = [c \in DOMAIN m.lookup |->
                     [index |-> m.lookup[c].index - IF m.lookup[c].index > p - 1 THEN 1 ELSE 0,
                      num |-> m.lookup[c].num - IF c = b THEN 1 ELSE 0]]
          PROVE  /\ DenseInv(w) /\ Dense!Size(w) = Dense!Size(m)
                 /\ DenseKeys(w) = DenseKeys(m) \ {k}
  BY Zenon
<1>b. DenseInv(m) /\ p \in DOMAIN m.nodes /\ m.nodes[p] = k /\ b = Dense!CalculateLookupId(m, k)
  BY <1>a, Zenon
<1>c. w.nodes = Removal(m.nodes, p)
  BY <1>a, Zenon DEF Dense!SeqExt!RemoveAt, Removal
<1>. DEFINE n == Len(m.nodes)
            ix(c) == m.lookup[c].index
            nm(c) == m.lookup[c].num
            ID(x) == Dense!CalculateLookupId(m, x)
<1>1. /\ Dense!Size(m) \in Nat /\ DOMAIN m.lookup = 0 .. Dense!Size(m) - 1
      /\ n \in Nat /\ DOMAIN m.nodes = 1 .. n /\ n <= Dense!Size(m)
      /\ \A i \in DOMAIN m.nodes : m.nodes[i] \in Keys
      /\ \A c \in DOMAIN m.lookup : ix(c) \in Nat /\ nm(c) \in Nat
  BY <1>b, DenseFacts DEF DenseInv, Dense!Consistent
<1>2. /\ \A c \in DOMAIN m.lookup : \A i \in ix(c) + 1 .. ix(c) + nm(c) :
             i \in 1 .. n /\ ID(m.nodes[i]) = c
      /\ \A i \in 1 .. n : /\ ID(m.nodes[i]) \in DOMAIN m.lookup
                           /\ i \in ix(ID(m.nodes[i])) + 1 .. ix(ID(m.nodes[i])) + nm(ID(m.nodes[i]))
  <2>1. \A i \in 1 .. n : ID(m.nodes[i]) \in DOMAIN m.lookup
    BY <1>b, <1>1, DenseFacts
  <2>. QED
    BY <1>b, <1>1, <2>1 DEF DenseInv, Dense!Consistent, Dense!Positions
<1>3. /\ p \in 1 .. n /\ ID(m.nodes[p]) = b /\ b \in DOMAIN m.lookup
      /\ p \in ix(b) + 1 .. ix(b) + nm(b)
  BY <1>b, <1>1, <1>2
<1>. HIDE DEF n, ix, nm, ID
<1>4. /\ w.nodes \in Seq(Keys) /\ Len(w.nodes) = n - 1 /\ DOMAIN w.nodes = 1 .. n - 1
      /\ \A i \in 1 .. p - 1 : w.nodes[i] = m.nodes[i]
      /\ \A i \in p .. n - 1 : w.nodes[i] = m.nodes[i + 1]
  <2>1. PICK s, t : s = m.nodes /\ t = w.nodes
    OBVIOUS
  <2>2. t = Removal(s, p) /\ p \in 1 .. Len(s) /\ s \in Seq(Keys)
    BY <1>b, <1>c, <1>3, <2>1 DEF n, DenseInv, DenseType
  <2>3. /\ t \in Seq(Keys) /\ Len(t) = Len(s) - 1
        /\ \A i \in 1 .. p - 1 : t[i] = s[i]
        /\ \A i \in p .. Len(s) - 1 : t[i] = s[i + 1]
    BY <2>2, Removed
  <2>. QED
    BY <2>1, <2>3, LenProperties DEF n
<1>5. /\ w.lookup \in [0 .. Dense!Size(m) - 1 -> [index : Nat, num : Nat]]
      /\ \A c \in DOMAIN m.lookup :
             /\ w.lookup[c].index = ix(c) - IF ix(c) > p - 1 THEN 1 ELSE 0
             /\ w.lookup[c].num = nm(c) - IF c = b THEN 1 ELSE 0
             /\ w.lookup[c].index \in Nat /\ w.lookup[c].num \in Nat
  <2>1. w.lookup = [c \in DOMAIN m.lookup |->
                       [index |-> ix(c) - IF ix(c) > p - 1 THEN 1 ELSE 0,
                        num |-> nm(c) - IF c = b THEN 1 ELSE 0]]
    BY <1>a DEF ix, nm
  <2>2. \A c \in DOMAIN m.lookup : /\ ix(c) - (IF ix(c) > p - 1 THEN 1 ELSE 0) \in Nat
                                   /\ nm(c) - (IF c = b THEN 1 ELSE 0) \in Nat
    BY <1>1, <1>3
  <2>. QED
    BY <1>1, <2>1, <2>2
<1>6. Dense!Size(w) = Dense!Size(m)
  BY <1>1, <1>5, DenseSize
<1>7. \A x : Dense!CalculateLookupId(w, x) = ID(x)
  BY <1>6 DEF Dense!CalculateLookupId, ID
<1>8. ASSUME NEW c \in DOMAIN m.lookup, c # b, ix(c) < p, NEW i \in ix(c) + 1 .. ix(c) + nm(c)
      PROVE  i < p
  <2>1. SUFFICES ASSUME i >= p PROVE FALSE
    BY <1>1, <1>3, <1>8
  <2>2. p \in ix(c) + 1 .. ix(c) + nm(c)
    BY <1>1, <1>3, <1>8, <2>1
  <2>. QED
    BY <1>2, <1>3, <1>8, <2>2
<1>. DEFINE from(i) == IF i < p THEN i ELSE i + 1
<1>9. ASSUME NEW i \in 1 .. n - 1
      PROVE  from(i) \in 1 .. n /\ from(i) # p /\ w.nodes[i] = m.nodes[from(i)]
  <2>1. CASE i < p
    <3>1. i \in 1 .. p - 1 /\ i \in 1 .. n /\ from(i) = i
      BY <1>1, <1>3, <2>1
    <3>. QED
      BY <1>4, <2>1, <3>1
  <2>2. CASE i >= p
    <3>1. i \in p .. n - 1 /\ i + 1 \in 1 .. n /\ i + 1 # p /\ from(i) = i + 1
      BY <1>1, <1>3, <2>2
    <3>. QED
      BY <1>4, <3>1
  <2>. QED
    BY <1>3, <2>1, <2>2
<1>10. ASSUME NEW j \in 1 .. n, j # p
       PROVE  \E i \in 1 .. n - 1 : w.nodes[i] = m.nodes[j]
  <2>1. CASE j < p
    BY <1>1, <1>3, <1>4, <2>1
  <2>2. CASE j > p
    <3>1. j - 1 \in 1 .. n - 1 /\ from(j - 1) = j
      BY <1>1, <1>3, <2>2
    <3>. QED
      BY <1>9, <3>1
  <2>. QED
    BY <1>1, <1>3, <1>10, <2>1, <2>2
<1>. HIDE DEF from
<1>11. \A i, j \in 1 .. n : m.nodes[i] = m.nodes[j] => i = j
  BY <1>b, <1>1 DEF DenseInv, DenseDistinct
<1>12. DenseKeys(w) = DenseKeys(m) \ {k}
  <2>1. DenseKeys(w) = {w.nodes[i] : i \in 1 .. n - 1} /\ DenseKeys(m) = {m.nodes[i] : i \in 1 .. n}
    BY <1>1, <1>4 DEF DenseKeys
  <2>2. ASSUME NEW x \in DenseKeys(w) PROVE x \in DenseKeys(m) \ {k}
    BY <1>b, <1>3, <1>9, <1>11, <2>1
  <2>3. ASSUME NEW x \in DenseKeys(m) \ {k} PROVE x \in DenseKeys(w)
    <3>1. PICK j \in 1 .. n : x = m.nodes[j]
      BY <2>1
    <3>2. PICK i \in 1 .. n - 1 : w.nodes[i] = m.nodes[j]
      BY <1>b, <1>10, <3>1
    <3>. QED
      BY <2>1, <3>1, <3>2
  <2>. QED
    BY <2>2, <2>3, Zenon
<1>13. DenseDistinct(w)
  <2>1. ASSUME NEW i \in 1 .. n - 1, NEW j \in 1 .. n - 1, w.nodes[i] = w.nodes[j] PROVE i = j
    <3>1. from(i) = from(j)
      BY <1>9, <1>11, <2>1
    <3>. QED
      BY <1>1, <1>3, <3>1 DEF from
  <2>. QED
    BY <1>4, <2>1 DEF DenseDistinct
<1>14. ASSUME NEW c \in DOMAIN m.lookup, NEW i \in Dense!Positions(w, c)
       PROVE  i \in 1 .. n - 1 /\ ID(w.nodes[i]) = c
  <2>1. i \in w.lookup[c].index + 1 .. w.lookup[c].index + w.lookup[c].num /\ i \in Int
    BY <1>5 DEF Dense!Positions
  <2>2. ix(c) \in Nat /\ nm(c) \in Nat
    BY <1>1
  <2>3. from(i) \in ix(c) + 1 .. ix(c) + nm(c)
    <3>1. CASE c = b
      <4>1. w.lookup[c].index = ix(c) /\ w.lookup[c].num = nm(c) - 1
        BY <1>1, <1>3, <1>5, <3>1
      <4>. QED
        BY <1>3, <2>1, <2>2, <3>1, <4>1 DEF from
    <3>2. CASE c # b /\ ix(c) < p
      <4>1. w.lookup[c].index = ix(c) /\ w.lookup[c].num = nm(c)
        BY <1>3, <1>5, <2>2, <3>2
      <4>2. i < p
        BY <1>8, <2>1, <3>2, <4>1
      <4>. QED
        BY <1>3, <2>1, <2>2, <4>1, <4>2 DEF from
    <3>3. CASE c # b /\ ix(c) >= p
      <4>1. w.lookup[c].index = ix(c) - 1 /\ w.lookup[c].num = nm(c)
        BY <1>3, <1>5, <2>2, <3>3
      <4>. QED
        BY <1>3, <2>1, <2>2, <3>3, <4>1 DEF from
    <3>. QED
      BY <1>3, <2>2, <3>1, <3>2, <3>3
  <2>4. from(i) \in 1 .. n /\ ID(m.nodes[from(i)]) = c
    BY <1>2, <2>3
  <2>5. i \in 1 .. n - 1
    BY <1>1, <1>3, <2>1, <2>4 DEF from
  <2>. QED
    BY <1>9, <2>4, <2>5
<1>15. ASSUME NEW i \in 1 .. n - 1
       PROVE  i \in Dense!Positions(w, ID(w.nodes[i]))
  <2>. DEFINE c == ID(m.nodes[from(i)])
  <2>1. c \in DOMAIN m.lookup /\ from(i) \in ix(c) + 1 .. ix(c) + nm(c) /\ c = ID(w.nodes[i])
    BY <1>2, <1>9
  <2>. HIDE DEF c
  <2>2. ix(c) \in Nat /\ nm(c) \in Nat /\ i \in Int
    BY <1>1, <2>1
  <2>3. i \in w.lookup[c].index + 1 .. w.lookup[c].index + w.lookup[c].num
    <3>1. CASE c = b
      <4>1. w.lookup[c].index = ix(c) /\ w.lookup[c].num = nm(c) - 1
        BY <1>1, <1>3, <1>5, <3>1
      <4>. QED
        BY <1>3, <2>1, <2>2, <3>1, <4>1 DEF from
    <3>2. CASE c # b /\ ix(c) < p
      <4>1. w.lookup[c].index = ix(c) /\ w.lookup[c].num = nm(c)
        BY <1>3, <1>5, <2>1, <2>2, <3>2
      <4>2. from(i) < p
        BY <1>8, <2>1, <3>2
      <4>. QED
        BY <1>3, <2>1, <2>2, <4>1, <4>2 DEF from
    <3>3. CASE c # b /\ ix(c) >= p
      <4>1. w.lookup[c].index = ix(c) - 1 /\ w.lookup[c].num = nm(c)
        BY <1>3, <1>5, <2>1, <2>2, <3>3
      <4>. QED
        BY <1>3, <2>1, <2>2, <3>3, <4>1 DEF from
    <3>. QED
      BY <1>3, <2>2, <3>1, <3>2, <3>3
  <2>. QED
    BY <2>1, <2>3 DEF Dense!Positions
<1>16. Dense!Consistent(w)
  <2>1. DOMAIN w.lookup = DOMAIN m.lookup /\ DOMAIN w.nodes = 1 .. n - 1 /\ Len(w.nodes) = n - 1
    BY <1>1, <1>4, <1>5
  <2>2. n - 1 <= Dense!Size(w)
    BY <1>1, <1>6
  <2>. QED
    BY <1>7, <1>14, <1>15, <2>1, <2>2 DEF Dense!Consistent
<1>. QED
  BY <1>1, <1>4, <1>5, <1>6, <1>12, <1>13, <1>16 DEF DenseInv, DenseType

(* The loop of ReallocAndRehash: f[i] is the new map after the first i nodes. *)
DenseLoop(f, m, size, n) ==
    f = [i \in 0 .. n |-> IF i = 0 THEN Dense!Cleared(size * Dense!capacity_multiplier)
                                   ELSE Dense!EmplacePair(f[i - 1], m.nodes[i])]

(* There is such a function, *)
LEMMA DenseLoopExists ==
    ASSUME NEW m, NEW size, NEW n \in Nat
    PROVE  \E f : DenseLoop(f, m, size, n)
<1>. DEFINE T == {i \in Nat : ~\E f : DenseLoop(f, m, size, i)}
            first == Dense!Cleared(size * Dense!capacity_multiplier)
            next(old, i) == Dense!EmplacePair(old, m.nodes[i])
<1>1. SUFFICES ASSUME T # {} PROVE FALSE
  OBVIOUS
<1>2. T \in SUBSET Nat
  OBVIOUS
<1>3. PICK i \in T : \A j \in T : i <= j
  BY <1>1, <1>2, Least
<1>4. ASSUME NEW j \in Nat, NEW f
      PROVE  DenseLoop(f, m, size, j) <=>
                 f = [h \in 0 .. j |-> IF h = 0 THEN first ELSE next(f[h - 1], h)]
  BY DEF DenseLoop
<1>. HIDE DEF first, next
<1>5. i # 0
  <2>1. SUFFICES ASSUME i = 0 PROVE FALSE
    OBVIOUS
  <2>. DEFINE f == [h \in 0 .. 0 |-> first]
  <2>2. f = [h \in 0 .. 0 |-> IF h = 0 THEN first ELSE next(f[h - 1], h)]
    OBVIOUS
  <2>. QED
    BY <1>3, <1>4, <2>1, <2>2
<1>6. i \in Nat /\ i - 1 \in Nat /\ i - 1 \notin T
  BY <1>2, <1>3, <1>5
<1>7. PICK f : DenseLoop(f, m, size, i - 1)
  BY <1>6
<1>8. f = [h \in 0 .. i - 1 |-> IF h = 0 THEN first ELSE next(f[h - 1], h)]
  BY <1>4, <1>6, <1>7
<1>. DEFINE g == [h \in 0 .. i |-> IF h = i THEN next(f[i - 1], i) ELSE f[h]]
<1>9. \A h \in 0 .. i : g[h] = IF h = 0 THEN first ELSE next(g[h - 1], h)
  <2>1. ASSUME NEW h \in 0 .. i PROVE g[h] = IF h = 0 THEN first ELSE next(g[h - 1], h)
    <3>1. CASE h = i
      <4>1. g[h] = next(f[i - 1], i) /\ g[h - 1] = f[i - 1]
        BY <1>5, <1>6, <3>1
      <4>. QED
        BY <1>5, <3>1, <4>1
    <3>2. CASE h # i
      <4>1. h \in 0 .. i - 1 /\ g[h] = f[h] /\ (h # 0 => g[h - 1] = f[h - 1])
        BY <1>6, <3>2
      <4>. QED
        BY <1>8, <4>1
    <3>. QED
      BY <3>1, <3>2
  <2>. QED
    BY <2>1
<1>10. g = [h \in 0 .. i |-> IF h = 0 THEN first ELSE next(g[h - 1], h)]
  BY <1>9
<1>11. DenseLoop(g, m, size, i)
  BY <1>4, <1>6, <1>10
<1>. QED
  BY <1>3, <1>11

(* and it has copied the map at the end. *)
LEMMA DenseRehash ==
    ASSUME NEW m, DenseInv(m)
    PROVE  /\ DenseInv(Dense!ReallocAndRehash(m, Len(m.nodes) + 1))
           /\ DenseKeys(Dense!ReallocAndRehash(m, Len(m.nodes) + 1)) = DenseKeys(m)
           /\ Len(Dense!ReallocAndRehash(m, Len(m.nodes) + 1).nodes) = Len(m.nodes)
           /\ Len(m.nodes) < Dense!Size(Dense!ReallocAndRehash(m, Len(m.nodes) + 1))
<1>. DEFINE n == Len(m.nodes)
            w == Dense!ReallocAndRehash(m, n + 1)
<1>1. /\ Dense!Size(m) \in Nat /\ n \in Nat /\ DOMAIN m.nodes = 1 .. n
      /\ \A i \in 1 .. n : m.nodes[i] \in Keys
  BY DenseFacts
<1>2. CASE n + 1 <= Dense!Size(m)
  <2>1. w = m
    BY <1>1, <1>2 DEF Dense!ReallocAndRehash, Dense!max_density_level
  <2>. QED
    BY <1>1, <1>2, <2>1
<1>3. CASE ~(n + 1 <= Dense!Size(m))
  <2>1. PICK f : DenseLoop(f, m, n + 1, n) /\ w = f[n]
    <3>. DEFINE f == CHOOSE f : DenseLoop(f, m, n + 1, n)
    <3>1. w = f[n]
      BY <1>1, <1>3 DEF Dense!ReallocAndRehash, Dense!max_density_level, DenseLoop
    <3>2. \E x : DenseLoop(x, m, n + 1, n)
      BY <1>1, DenseLoopExists
    <3>3. DenseLoop(f, m, n + 1, n)
      BY <3>2
    <3>. HIDE DEF f, w
    <3>. QED
      BY <3>1, <3>3
  <2>. DEFINE Good(i) == /\ DenseInv(f[i])
                         /\ Dense!Size(f[i]) = (n + 1) * 6
                         /\ DenseKeys(f[i]) = {m.nodes[j] : j \in 1 .. i}
                         /\ Len(f[i].nodes) = i
              T == {i \in 0 .. n : ~Good(i)}
  <2>2. /\ f[0] = Dense!Cleared((n + 1) * 6)
        /\ \A i \in 1 .. n : f[i] = Dense!EmplacePair(f[i - 1], m.nodes[i])
    BY <1>1, <2>1 DEF DenseLoop, Dense!capacity_multiplier
  <2>. HIDE DEF w
  <2>3. Good(0)
    <3>1. {m.nodes[j] : j \in 1 .. 0} = {} /\ (n + 1) * 6 \in Nat /\ Len(<<>>) = 0
      BY <1>1
    <3>. QED
      BY <2>2, <3>1, DenseCleared
  <2>4. ASSUME NEW i \in 1 .. n, Good(i - 1)
        PROVE  Good(i)
    <3>1. Dense!Size(f[i - 1]) = (n + 1) * 6 /\ Len(f[i - 1].nodes) = i - 1
          /\ DenseInv(f[i - 1]) /\ DenseKeys(f[i - 1]) = {m.nodes[j] : j \in 1 .. i - 1}
      BY <2>4
    <3>2. Len(f[i - 1].nodes) < Dense!Size(f[i - 1]) /\ m.nodes[i] \in Keys
      BY <1>1, <3>1
    <3>3. m.nodes[i] \notin DenseKeys(f[i - 1])
      <4>1. \A j \in 1 .. i - 1 : m.nodes[j] # m.nodes[i]
        BY <1>1 DEF DenseInv, DenseDistinct
      <4>. QED
        BY <3>1, <4>1
    <3>4. {m.nodes[j] : j \in 1 .. i} = {m.nodes[j] : j \in 1 .. i - 1} \cup {m.nodes[i]}
      <4>1. 1 .. i = (1 .. i - 1) \cup {i}
        BY <1>1
      <4>. QED
        BY <4>1, Zenon
    <3>5. /\ DenseInv(f[i]) /\ Dense!Size(f[i]) = Dense!Size(f[i - 1])
          /\ DenseKeys(f[i]) = DenseKeys(f[i - 1]) \cup {m.nodes[i]}
          /\ Len(f[i].nodes) = Len(f[i - 1].nodes) + 1
      <4>1. PICK u, k : u = f[i - 1] /\ k = m.nodes[i]
        OBVIOUS
      <4>2. k \in Keys /\ DenseInv(u) /\ Len(u.nodes) < Dense!Size(u) /\ k \notin DenseKeys(u)
        BY <3>1, <3>2, <3>3, <4>1
      <4>3. PICK v : v = Dense!EmplacePair(u, k)
        OBVIOUS
      <4>4. /\ DenseInv(v) /\ Dense!Size(v) = Dense!Size(u)
            /\ DenseKeys(v) = DenseKeys(u) \cup {k}
            /\ Len(v.nodes) = Len(u.nodes) + 1
        BY <4>2, <4>3, DenseEmplace, Zenon
      <4>5. f[i] = v
        BY <2>2, <4>1, <4>3
      <4>. QED
        BY <4>1, <4>4, <4>5
    <3>. QED
      BY <1>1, <3>1, <3>4, <3>5
  <2>. HIDE DEF Good
  <2>5. T = {}
    <3>1. SUFFICES ASSUME T # {} PROVE FALSE
      OBVIOUS
    <3>2. PICK i \in T : \A j \in T : i <= j
      <4>1. T \in SUBSET Nat
        BY <1>1
      <4>. QED
        BY <3>1, <4>1, Least
    <3>3. i \in 0 .. n /\ ~Good(i)
      OBVIOUS
    <3>4. i - 1 \in 0 .. n /\ i - 1 \notin T /\ i \in 1 .. n
      BY <1>1, <2>3, <3>2, <3>3
    <3>. QED
      BY <2>4, <3>3, <3>4
  <2>6. Good(n)
    BY <1>1, <2>5
  <2>7. DenseKeys(m) = {m.nodes[j] : j \in 1 .. n}
    BY <1>1 DEF DenseKeys
  <2>. QED
    BY <1>1, <2>1, <2>6, <2>7 DEF Good, w
<1>. QED
  BY <1>2, <1>3

(* Insert adds the key, *)
LEMMA DenseInsertion ==
    ASSUME NEW m, NEW k \in Keys, DenseInv(m)
    PROVE  DenseInv(Dense!Insert(m, k)) /\ DenseKeys(Dense!Insert(m, k)) = DenseKeys(m) \cup {k}
<1>. DEFINE r == Dense!ReallocAndRehash(m, Len(m.nodes) + 1)
<1>1. DenseInv(r) /\ DenseKeys(r) = DenseKeys(m) /\ Len(r.nodes) < Dense!Size(r)
  BY DenseRehash
<1>2. Dense!Insert(m, k) = Dense!EmplacePair(r, k)
  BY DEF Dense!Insert
<1>. HIDE DEF r
<1>. QED
  BY <1>1, <1>2, DenseEmplace, Zenon

(* and Remove takes it away. *)
LEMMA DenseRemoval ==
    ASSUME NEW m, NEW k \in Keys, DenseInv(m)
    PROVE  DenseInv(Dense!Remove(m, k)) /\ DenseKeys(Dense!Remove(m, k)) = DenseKeys(m) \ {k}
<1>. DEFINE b == Dense!CalculateLookupId(m, k)
            p == CHOOSE i \in Dense!Hits(m, k) : \A j \in Dense!Hits(m, k) : i <= j
            w == Dense!Remove(m, k)
<1>1. CASE k \notin DenseKeys(m)
  <2>1. w = m
    BY <1>1, DenseHits DEF Dense!Remove
  <2>. QED
    BY <1>1, <2>1
<1>2. CASE k \in DenseKeys(m)
  <2>1. Dense!Find(m, k) /\ m.nodes # <<>> /\ Dense!Hits(m, k) # {}
    BY <1>2, DenseHits DEF Dense!Find
  <2>2. Len(m.nodes) \in Nat /\ Len(m.nodes) > 0 /\ DOMAIN m.nodes = 1 .. Len(m.nodes)
    BY <2>1, DenseFacts, EmptySeq DEF DenseInv, DenseType
  <2>3. b \in DOMAIN m.lookup
    BY <2>2, DenseFacts DEF DenseInv, Dense!Consistent
  <2>4. \A i \in Dense!Hits(m, k) : i \in DOMAIN m.nodes /\ m.nodes[i] = k
    BY <2>3 DEF Dense!Hits, DenseInv, Dense!Consistent
  <2>5. Dense!Hits(m, k) \in SUBSET Nat
    BY <2>2, <2>4
  <2>6. \E i \in Dense!Hits(m, k) : \A j \in Dense!Hits(m, k) : i <= j
    BY <2>1, <2>5, Least
  <2>7. p \in Dense!Hits(m, k)
    BY <2>6
  <2>8. p \in DOMAIN m.nodes /\ m.nodes[p] = k
    BY <2>4, <2>7
  <2>9. w = [nodes |-> Dense!SeqExt!RemoveAt(m.nodes, p),
             lookup |-> [c \in DOMAIN m.lookup |->
                 [index |-> m.lookup[c].index - IF m.lookup[c].index > p - 1 THEN 1 ELSE 0,
                  num |-> m.lookup[c].num - IF c = b THEN 1 ELSE 0]]]
    BY <2>1 DEF Dense!Remove
  <2>. HIDE DEF w, b, p
  <2>10. /\ w.nodes = Dense!SeqExt!RemoveAt(m.nodes, p)
         /\ w.lookup = [c \in DOMAIN m.lookup |->
                 [index |-> m.lookup[c].index - IF m.lookup[c].index > p - 1 THEN 1 ELSE 0,
                  num |-> m.lookup[c].num - IF c = b THEN 1 ELSE 0]]
    BY <2>9
  <2>11. DenseInv(w) /\ DenseKeys(w) = DenseKeys(m) \ {k}
    BY <2>8, <2>10, DenseTakeOut DEF b
  <2>. QED
    BY <2>11 DEF w
<1>. QED
  BY <1>1, <1>2

-----------------------------------------------------------------------------
(* The sparse map. *)

SparseNode == [key : Keys \cup {0}, next : Nat]

(* The keys in the nodes. *)
SparseKeys(m) == {m.nodes[p].key : p \in Sparse!Visited(m)}

(* The links and the buckets: Sparse!Consistent in terms of keys and links, without num. *)
SparseShape(m) ==
    /\ m.capacity \in Nat /\ m.nodes \in Seq(SparseNode) /\ m.capacity <= Len(m.nodes)
    /\ \A p \in 1 .. Len(m.nodes) : m.nodes[p].key = 0 => m.nodes[p].next = 0
    /\ \A p \in 1 .. Len(m.nodes) : m.nodes[p].next # 0 =>
           /\ m.nodes[p].next \in m.capacity + 1 .. Len(m.nodes) /\ m.nodes[p].next > p
           /\ Sparse!First(m, m.nodes[m.nodes[p].next].key) = Sparse!First(m, m.nodes[p].key)
    /\ \A i \in m.capacity + 1 .. Len(m.nodes) :
           /\ m.nodes[i].key # 0
           /\ \E p \in 1 .. Len(m.nodes) : \A q \in 1 .. Len(m.nodes) : m.nodes[q].next = i <=> q = p
    /\ \A p \in 1 .. m.capacity : m.nodes[p].key # 0 => Sparse!First(m, m.nodes[p].key) = p
    /\ \A p, q \in 1 .. Len(m.nodes) : m.nodes[p].key # 0 /\ m.nodes[p].key = m.nodes[q].key => p = q

(* num counts the keys, of which no two nodes have the same. *)
SparseInv(m) ==
    /\ SparseShape(m)
    /\ IsFiniteSet(SparseKeys(m)) /\ m.num = Cardinality(SparseKeys(m))
    /\ m.num <= m.capacity

(* The types of a map. *)
LEMMA SparseFacts ==
    ASSUME NEW m, SparseShape(m)
    PROVE  /\ m.capacity \in Nat /\ Len(m.nodes) \in Nat /\ m.capacity <= Len(m.nodes)
           /\ DOMAIN m.nodes = 1 .. Len(m.nodes)
           /\ \A p \in 1 .. Len(m.nodes) :
                  /\ m.nodes[p] = [key |-> m.nodes[p].key, next |-> m.nodes[p].next]
                  /\ m.nodes[p].key \in Keys \cup {0} /\ m.nodes[p].next \in Nat
                  /\ m.nodes[p].key # 0 => m.nodes[p].key \in Keys
                  /\ m.nodes[p].key # 0 <=> m.nodes[p] # Sparse!NoNode
           /\ Sparse!Visited(m) = {p \in 1 .. Len(m.nodes) : m.nodes[p].key # 0}
           /\ \A k \in Keys : k # 0
<1>1. m.capacity \in Nat /\ m.nodes \in Seq(SparseNode) /\ m.capacity <= Len(m.nodes)
  BY DEF SparseShape
<1>2. /\ Len(m.nodes) \in Nat /\ DOMAIN m.nodes = 1 .. Len(m.nodes)
      /\ \A p \in 1 .. Len(m.nodes) : m.nodes[p] \in SparseNode
  BY <1>1, LenProperties
<1>3. \A p \in 1 .. Len(m.nodes) :
          /\ m.nodes[p] = [key |-> m.nodes[p].key, next |-> m.nodes[p].next]
          /\ m.nodes[p].key \in Keys \cup {0} /\ m.nodes[p].next \in Nat
          /\ m.nodes[p].key # 0 => m.nodes[p].key \in Keys
  BY <1>2 DEF SparseNode
<1>4. \A p \in 1 .. Len(m.nodes) : m.nodes[p].key # 0 <=> m.nodes[p] # Sparse!NoNode
  <2>1. \A p \in 1 .. Len(m.nodes) : m.nodes[p].key = 0 => m.nodes[p].next = 0
    BY DEF SparseShape
  <2>. QED
    BY <1>3, <2>1 DEF Sparse!NoNode, Sparse!Node, Sparse!End
<1>5. Sparse!Visited(m) = {p \in 1 .. Len(m.nodes) : m.nodes[p].key # 0}
  BY <1>2, <1>4 DEF Sparse!Visited
<1>6. \A k \in Keys : k # 0
  BY HashMapsAssumption
<1>. QED
  BY <1>1, <1>2, <1>3, <1>4, <1>5, <1>6

(* The keys by place. *)
LEMMA SparseKeysAt ==
    ASSUME NEW m, SparseShape(m)
    PROVE  /\ SparseKeys(m) \subseteq Keys
           /\ \A k \in Keys : k \in SparseKeys(m) <=> \E p \in 1 .. Len(m.nodes) : m.nodes[p].key = k
<1>1. SparseKeys(m) = {m.nodes[p].key : p \in {q \in 1 .. Len(m.nodes) : m.nodes[q].key # 0}}
  BY SparseFacts DEF SparseKeys
<1>2. /\ \A p \in 1 .. Len(m.nodes) : m.nodes[p].key # 0 => m.nodes[p].key \in Keys
      /\ \A k \in Keys : k # 0
  BY SparseFacts
<1>. QED
  BY <1>1, <1>2

(* The number of the keys is the number of the nodes. *)
LEMMA SparseCount ==
    ASSUME NEW m, SparseShape(m)
    PROVE  /\ IsFiniteSet(SparseKeys(m))
           /\ Sparse!Cardinality(Sparse!Visited(m)) = Cardinality(SparseKeys(m))
<1>. DEFINE V == Sparse!Visited(m)
            f == [p \in V |-> m.nodes[p].key]
<1>1. V = {p \in 1 .. Len(m.nodes) : m.nodes[p].key # 0} /\ Len(m.nodes) \in Nat
  BY SparseFacts
<1>2. IsFiniteSet(V)
  <2>1. IsFiniteSet(1 .. Len(m.nodes))
    BY <1>1, FS_Interval
  <2>. QED
    BY <1>1, <2>1, FS_Subset
<1>3. \A p, q \in V : m.nodes[p].key = m.nodes[q].key => p = q
  BY <1>1 DEF SparseShape
<1>4. SparseKeys(m) = {m.nodes[p].key : p \in V}
  BY DEF SparseKeys
<1>. HIDE DEF V
<1>5. f \in Bijection(V, SparseKeys(m))
  BY <1>3, <1>4 DEF Bijection, Injection, Surjection, IsInjective
<1>6. IsFiniteSet(SparseKeys(m)) /\ Cardinality(V) = Cardinality(SparseKeys(m))
  BY <1>2, <1>5, FS_Bijection DEF ExistsBijection
<1>7. Sparse!Cardinality(V) = Cardinality(V)
  BY DEF Sparse!Cardinality, Cardinality
<1>. QED
  BY <1>6, <1>7 DEF V

(* SparseInv is what Sparse!Consistent says, and more. *)
LEMMA SparseConsistent ==
    ASSUME NEW m, SparseInv(m)
    PROVE  Sparse!Consistent(m)
<1>. DEFINE L == Len(m.nodes)
<1>1. /\ SparseShape(m) /\ m.num = Cardinality(SparseKeys(m)) /\ m.num <= m.capacity
  BY DEF SparseInv
<1>2. /\ m.capacity \in Nat /\ L \in Nat /\ m.capacity <= L
      /\ DOMAIN m.nodes = 1 .. L
      /\ Sparse!Visited(m) = {p \in 1 .. L : m.nodes[p].key # 0}
      /\ \A p \in 1 .. L : m.nodes[p].next \in Nat
  BY <1>1, SparseFacts
<1>3. ASSUME NEW p \in 1 .. L, m.nodes[p].next # 0
      PROVE  /\ m.nodes[p].next \in Sparse!Visited(m)
             /\ m.nodes[p].next > m.capacity /\ m.nodes[p].next > p
             /\ p \in Sparse!Visited(m)
             /\ Sparse!First(m, m.nodes[m.nodes[p].next].key) = Sparse!First(m, m.nodes[p].key)
  <2>1. /\ m.nodes[p].next \in m.capacity + 1 .. L /\ m.nodes[p].next > p
        /\ Sparse!First(m, m.nodes[m.nodes[p].next].key) = Sparse!First(m, m.nodes[p].key)
        /\ m.nodes[p].key # 0
    BY <1>1, <1>3 DEF SparseShape
  <2>2. \A i \in m.capacity + 1 .. L : m.nodes[i].key # 0 /\ i \in 1 .. L /\ i > m.capacity
    BY <1>1, <1>2 DEF SparseShape
  <2>. QED
    BY <1>2, <2>1, <2>2
<1>4. \A i \in m.capacity + 1 .. L : \E p \in 1 .. L : \A q \in 1 .. L : m.nodes[q].next = i <=> q = p
  BY <1>1 DEF SparseShape
<1>5. \A p \in 1 .. m.capacity : p \in Sparse!Visited(m) => Sparse!First(m, m.nodes[p].key) = p
  BY <1>1, <1>2 DEF SparseShape
<1>6. m.num = Sparse!Cardinality(Sparse!Visited(m))
  BY <1>1, SparseCount
<1>. QED
  <2>1. DOMAIN m.nodes = 1 .. Len(m.nodes) /\ Sparse!End = 0
    BY <1>2 DEF Sparse!End
  <2>2. ASSUME NEW p \in DOMAIN m.nodes
        PROVE  m.nodes[p].next # Sparse!End =>
               /\ m.nodes[p].next \in Sparse!Visited(m)
               /\ m.nodes[p].next > m.capacity /\ m.nodes[p].next > p
               /\ p \in Sparse!Visited(m)
               /\ Sparse!First(m, m.nodes[m.nodes[p].next].key) = Sparse!First(m, m.nodes[p].key)
    BY <1>3, <2>1
  <2>3. m.num <= m.capacity
    BY <1>1
  <2>4. \A i \in m.capacity + 1 .. Len(m.nodes) :
            \E p \in DOMAIN m.nodes : \A q \in DOMAIN m.nodes : m.nodes[q].next = i <=> q = p
    BY <1>4, <2>1
  <2>. HIDE DEF L
  <2>. QED
    BY <1>5, <1>6, <2>2, <2>3, <2>4, Zenon DEF Sparse!Consistent

(* A map with an empty table. *)
LEMMA SparseCleared ==
    ASSUME NEW n \in Nat
    PROVE  /\ SparseInv(Sparse!Cleared(n)) /\ SparseKeys(Sparse!Cleared(n)) = {}
           /\ Sparse!Cleared(n).capacity = n /\ Sparse!Cleared(n).num = 0
<1>. DEFINE m == Sparse!Cleared(n)
<1>1. /\ m.capacity = n /\ m.num = 0
      /\ m.nodes = [p \in 1 .. n |-> [key |-> 0, next |-> 0]]
  BY DEF Sparse!Cleared, Sparse!NoNode, Sparse!Node, Sparse!End
<1>. HIDE DEF m
<1>2. /\ m.nodes \in Seq(SparseNode) /\ Len(m.nodes) = n
      /\ \A p \in 1 .. n : m.nodes[p].key = 0 /\ m.nodes[p].next = 0
  BY <1>1 DEF SparseNode
<1>3. SparseShape(m)
  BY <1>1, <1>2 DEF SparseShape
<1>4. SparseKeys(m) = {}
  BY <1>2, <1>3, SparseFacts DEF SparseKeys
<1>5. SparseInv(m)
  BY <1>1, <1>3, <1>4, FS_EmptySet DEF SparseInv
<1>. QED
  BY <1>1, <1>4, <1>5 DEF m

(* A key is in a chain that begins in the table, at the place for the key. *)
LEMMA SparseHead ==
    ASSUME NEW m, SparseShape(m), NEW p \in 1 .. Len(m.nodes), m.nodes[p].key # 0
    PROVE  LET b == Sparse!First(m, m.nodes[p].key)
           IN  b \in 1 .. m.capacity /\ m.nodes[b].key # 0 /\ b <= p
<1>. DEFINE L == Len(m.nodes)
            C == m.capacity
            b(q) == Sparse!First(m, m.nodes[q].key)
            Good(q) == b(q) \in 1 .. C /\ m.nodes[b(q)].key # 0 /\ b(q) <= q
            T == {q \in 1 .. L : m.nodes[q].key # 0 /\ ~Good(q)}
<1>1. C \in Nat /\ L \in Nat /\ C <= L
  BY SparseFacts
<1>2. ASSUME NEW q \in 1 .. C, m.nodes[q].key # 0
      PROVE  b(q) = q
  BY <1>2 DEF SparseShape
<1>3. ASSUME NEW q \in C + 1 .. L
      PROVE  \E r \in 1 .. L : m.nodes[r].key # 0 /\ r < q /\ b(r) = b(q)
  <2>1. PICK r \in 1 .. L : m.nodes[r].next = q
    BY <1>1 DEF SparseShape
  <2>2. q # 0
    BY <1>1
  <2>3. q > r /\ b(q) = b(r) /\ m.nodes[r].key # 0
    BY <2>1, <2>2 DEF SparseShape
  <2>. QED
    BY <1>1, <2>3
<1>. HIDE DEF b, L, C
<1>4. T = {}
  <2>1. SUFFICES ASSUME T # {} PROVE FALSE
    OBVIOUS
  <2>2. PICK q \in T : \A r \in T : q <= r
    <3>1. T \in SUBSET Nat
      BY <1>1
    <3>. QED
      BY <2>1, <3>1, Least
  <2>3. q \in 1 .. L /\ m.nodes[q].key # 0 /\ ~Good(q)
    OBVIOUS
  <2>4. q \in C + 1 .. L
    BY <1>1, <1>2, <2>3
  <2>5. PICK r \in 1 .. L : m.nodes[r].key # 0 /\ r < q /\ b(r) = b(q)
    BY <1>3, <2>4
  <2>6. r \notin T
    BY <1>1, <2>2, <2>3, <2>5
  <2>7. Good(r)
    BY <2>5, <2>6
  <2>. QED
    BY <1>1, <2>3, <2>5, <2>7
<1>. QED
  BY <1>4 DEF L, C, b

(* The nodes of a bucket are one chain: of two of them, the chain from the first one reaches
   the second. *)
LEMMA SparseChain ==
    ASSUME NEW m, SparseShape(m), NEW p \in 1 .. Len(m.nodes), NEW q \in 1 .. Len(m.nodes),
           m.nodes[p].key # 0, m.nodes[q].key # 0, p < q,
           Sparse!First(m, m.nodes[p].key) = Sparse!First(m, m.nodes[q].key)
    PROVE  m.nodes[p].next # 0 /\ m.nodes[p].next <= q
<1>. DEFINE L == Len(m.nodes)
            C == m.capacity
            b(r) == Sparse!First(m, m.nodes[r].key)
            N(r) == m.nodes[r].next
            Before(r, s) == /\ m.nodes[r].key # 0 /\ m.nodes[s].key # 0
                            /\ r < s /\ b(r) = b(s)
            T == {s \in 1 .. L : \E r \in 1 .. L : Before(r, s) /\ ~(N(r) # 0 /\ N(r) <= s)}
<1>1. /\ C \in Nat /\ L \in Nat /\ C <= L
      /\ \A r \in 1 .. L : N(r) \in Nat
  BY SparseFacts
<1>2. \A r \in 1 .. C : m.nodes[r].key # 0 => b(r) = r
  BY DEF SparseShape
<1>3. ASSUME NEW s \in C + 1 .. L
      PROVE  \E r \in 1 .. L : Before(r, s) /\ N(r) = s
  <2>1. PICK r \in 1 .. L : m.nodes[r].next = s
    BY <1>1 DEF SparseShape
  <2>2. s # 0 /\ m.nodes[s].key # 0
    BY <1>1 DEF SparseShape
  <2>3. s > r /\ b(s) = b(r) /\ m.nodes[r].key # 0
    BY <2>1, <2>2 DEF SparseShape
  <2>. QED
    BY <1>1, <2>1, <2>2, <2>3
<1>4. \A r, s \in 1 .. L : Before(r, s) => s \in C + 1 .. L
  <2>1. ASSUME NEW r \in 1 .. L, NEW s \in 1 .. L, Before(r, s), s <= C
        PROVE  FALSE
    <3>1. r \in 1 .. C /\ s \in 1 .. C
      BY <1>1, <2>1
    <3>. QED
      BY <1>2, <2>1, <3>1
  <2>. QED
    BY <1>1, <2>1
<1>. HIDE DEF b, L, C, N
<1>5. T = {}
  <2>1. SUFFICES ASSUME T # {} PROVE FALSE
    OBVIOUS
  <2>2. PICK s \in T : \A r \in T : s <= r
    <3>1. T \in SUBSET Nat
      BY <1>1
    <3>. QED
      BY <2>1, <3>1, Least
  <2>3. s \in 1 .. L
    OBVIOUS
  <2>4. PICK r \in 1 .. L : Before(r, s) /\ ~(N(r) # 0 /\ N(r) <= s)
    OBVIOUS
  <2>5. PICK t \in 1 .. L : Before(t, s) /\ N(t) = s
    BY <1>3, <1>4, <2>3, <2>4
  <2>6. ASSUME NEW x \in 1 .. L, NEW y \in 1 .. L, Before(x, y), y < s
        PROVE  N(x) # 0 /\ N(x) <= y
    <3>1. y \notin T
      BY <1>1, <2>2, <2>3, <2>6
    <3>. QED
      BY <2>6, <3>1
  <2>7. t # r
    BY <1>1, <2>3, <2>4, <2>5
  <2>8. CASE t > r
    <3>1. Before(r, t) /\ t < s
      BY <2>4, <2>5, <2>8
    <3>2. N(r) # 0 /\ N(r) <= t
      BY <2>6, <3>1
    <3>. QED
      BY <1>1, <2>3, <2>4, <3>1, <3>2
  <2>9. CASE t < r
    <3>1. Before(t, r) /\ r < s
      BY <2>4, <2>5, <2>9
    <3>2. N(t) # 0 /\ N(t) <= r
      BY <2>6, <3>1
    <3>. QED
      BY <1>1, <2>3, <2>5, <3>1, <3>2
  <2>. QED
    BY <1>1, <2>7, <2>8, <2>9
<1>6. Before(p, q) /\ q \notin T
  BY <1>5 DEF b
<1>. QED
  BY <1>6 DEF L, N

(* The recursions along a chain: f[q] is a[q] where the recursion stops, in S, and f of a later
   place elsewhere. *)
Chase(f, L, S, a, nx) == f = [q \in 1 .. L |-> IF q \in S THEN a[q] ELSE f[nx[q]]]
Onward(L, S, nx) == \A q \in 1 .. L : q \notin S => nx[q] \in 1 .. L /\ nx[q] > q

(* There is such a function ... *)
LEMMA TailRecursionExists ==
    ASSUME NEW L \in Nat, NEW S, NEW a, NEW nx, Onward(L, S, nx)
    PROVE  \E f : Chase(f, L, S, a, nx)
<1>. DEFINE Solves(f, j) == f = [q \in j .. L |-> IF q \in S THEN a[q] ELSE f[nx[q]]]
            T == {j \in 1 .. L + 1 : ~\E f : Solves(f, j)}
<1>1. SUFFICES ASSUME T # {} PROVE FALSE
  BY DEF Chase
<1>2. PICK j \in T : \A i \in T : i <= j
  <2>1. T \in SUBSET (0 .. L + 1) /\ L + 1 \in Nat
    OBVIOUS
  <2>. QED
    BY <1>1, <2>1, Greatest
<1>3. j \in 1 .. L + 1 /\ ~\E f : Solves(f, j)
  OBVIOUS
<1>4. j # L + 1
  <2>1. SUFFICES ASSUME j = L + 1 PROVE FALSE
    OBVIOUS
  <2>. DEFINE f == [q \in j .. L |-> 0]
  <2>2. j .. L = {}
    BY <2>1
  <2>3. Solves(f, j)
    BY <2>2
  <2>. QED
    BY <1>3, <2>3
<1>5. j \in 1 .. L /\ j + 1 \in 1 .. L + 1 /\ j + 1 \notin T
  BY <1>2, <1>3, <1>4
<1>6. PICK f : Solves(f, j + 1)
  BY <1>5
<1>. DEFINE v == IF j \in S THEN a[j] ELSE f[nx[j]]
            g == [q \in j .. L |-> IF q = j THEN v ELSE f[q]]
<1>7. ASSUME NEW q \in j .. L
      PROVE  g[q] = IF q \in S THEN a[q] ELSE g[nx[q]]
  <2>1. q \notin S => nx[q] \in j .. L /\ nx[q] # j /\ g[nx[q]] = f[nx[q]]
    BY <1>5 DEF Onward
  <2>2. CASE q = j
    BY <1>5, <2>1, <2>2
  <2>3. CASE q # j
    <3>1. q \in j + 1 .. L /\ g[q] = f[q]
      BY <1>5, <2>3
    <3>2. f[q] = IF q \in S THEN a[q] ELSE f[nx[q]]
      BY <1>6, <3>1
    <3>. QED
      BY <2>1, <3>1, <3>2
  <2>. QED
    BY <2>2, <2>3
<1>8. Solves(g, j)
  <2>1. g = [q \in j .. L |-> g[q]]
    OBVIOUS
  <2>. HIDE DEF g
  <2>. QED
    BY <1>7, <2>1
<1>. QED
  BY <1>3, <1>8

(* ... and from a place of a set that the recursion does not leave, it ends in that set. *)
LEMMA TailRecursionEnds ==
    ASSUME NEW L \in Nat, NEW S, NEW a, NEW nx, NEW f, NEW I \in SUBSET (1 .. L),
           Onward(L, S, nx), Chase(f, L, S, a, nx),
           \A q \in I : q \notin S => nx[q] \in I,
           NEW p \in I
    PROVE  \E q \in I : q \in S /\ f[p] = a[q]
<1>. DEFINE Ends(r) == \E q \in I : q \in S /\ f[r] = a[q]
            T == {r \in I : ~Ends(r)}
<1>1. SUFFICES ASSUME T # {} PROVE FALSE
  OBVIOUS
<1>2. PICK r \in T : \A i \in T : i <= r
  <2>. HIDE DEF Ends
  <2>1. \A i \in I : i \in 0 .. L
    OBVIOUS
  <2>2. T \in SUBSET (0 .. L)
    BY <2>1
  <2>. HIDE DEF T
  <2>. QED
    BY <1>1, <2>2, Greatest
<1>3. r \in I /\ r \in 1 .. L /\ ~Ends(r)
  OBVIOUS
<1>4. r \notin S
  BY <1>3 DEF Chase
<1>5. nx[r] \in I /\ nx[r] > r /\ nx[r] \in 1 .. L /\ f[r] = f[nx[r]]
  BY <1>3, <1>4 DEF Chase, Onward
<1>6. nx[r] \notin T
  BY <1>2, <1>3, <1>5
<1>. QED
  BY <1>3, <1>5, <1>6

(* The places of the bucket that begins at place b. *)
SparseBucket(m, b) ==
    {p \in 1 .. Len(m.nodes) : m.nodes[p].key # 0 /\ Sparse!First(m, m.nodes[p].key) = b}

(* A link stays in the bucket. *)
LEMMA SparseLink ==
    ASSUME NEW m, SparseShape(m), NEW p \in 1 .. Len(m.nodes), m.nodes[p].next # 0
    PROVE  LET i == m.nodes[p].next
           IN  /\ i \in 1 .. Len(m.nodes) /\ i > p /\ i > m.capacity
               /\ m.nodes[i].key # 0 /\ m.nodes[p].key # 0
               /\ Sparse!First(m, m.nodes[i].key) = Sparse!First(m, m.nodes[p].key)
<1>. DEFINE i == m.nodes[p].next
<1>1. /\ i \in m.capacity + 1 .. Len(m.nodes) /\ i > p
      /\ Sparse!First(m, m.nodes[i].key) = Sparse!First(m, m.nodes[p].key)
      /\ m.nodes[p].key # 0
  BY DEF SparseShape
<1>2. m.capacity \in Nat /\ Len(m.nodes) \in Nat
  BY SparseFacts
<1>. HIDE DEF i
<1>3. m.nodes[i].key # 0 /\ i \in 1 .. Len(m.nodes) /\ i > m.capacity
  BY <1>1, <1>2 DEF SparseShape
<1>. QED
  BY <1>1, <1>3 DEF i

(* The search along a chain finds the key if it is anywhere. *)
LEMMA SparseFind ==
    ASSUME NEW m, SparseShape(m), NEW k \in Keys, m.nodes[Sparse!First(m, k)].key # 0,
           Sparse!First(m, k) \in 1 .. m.capacity
    PROVE  Sparse!FindCollisionNode(m, Sparse!First(m, k), k) <=> k \in SparseKeys(m)
<1>. DEFINE L == Len(m.nodes)
            K(q) == m.nodes[q].key
            N(q) == m.nodes[q].next
            S == {q \in 1 .. L : K(q) = k \/ N(q) = 0}
            a == [q \in 1 .. L |-> K(q) = k]
            nx == [q \in 1 .. L |-> N(q)]
            b == Sparse!First(m, k)
            B == SparseBucket(m, b)
            Search(f) == f = [q \in DOMAIN m.nodes |->
                                 \/ m.nodes[q].key = k
                                 \/ m.nodes[q].next # Sparse!End /\ f[m.nodes[q].next]]
            found == CHOOSE f : Search(f)
<1>1. /\ L \in Nat /\ m.capacity \in Nat /\ m.capacity <= L /\ DOMAIN m.nodes = 1 .. L
      /\ \A q \in 1 .. L : N(q) \in Nat
      /\ k # 0
  BY SparseFacts
<1>2. Sparse!FindCollisionNode(m, b, k) = found[b]
  BY DEF Sparse!FindCollisionNode
<1>3. ASSUME NEW q \in 1 .. L, q \notin S
      PROVE  /\ nx[q] \in 1 .. L /\ nx[q] > q
             /\ q \in B => nx[q] \in B
  <2>1. N(q) # 0 /\ nx[q] = N(q)
    BY <1>3
  <2>. QED
    BY <2>1, SparseLink DEF SparseBucket
<1>a. Onward(L, S, nx)
  BY <1>3 DEF Onward
<1>4. ASSUME NEW f PROVE Chase(f, L, S, a, nx) => Search(f)
  <2>1. SUFFICES ASSUME Chase(f, L, S, a, nx) PROVE Search(f)
    OBVIOUS
  <2>2. ASSUME NEW q \in 1 .. L
        PROVE  f[q] = (m.nodes[q].key = k \/ (m.nodes[q].next # Sparse!End /\ f[m.nodes[q].next]))
    <3>1. f[q] = IF q \in S THEN K(q) = k ELSE f[N(q)]
      BY <2>1 DEF Chase
    <3>2. CASE q \in S
      BY <3>1, <3>2 DEF Sparse!End
    <3>3. CASE q \notin S
      <4>1. N(q) # 0 /\ N(q) \in 1 .. L /\ K(q) # k
        BY <1>3, <3>3
      <4>2. f[N(q)] \in BOOLEAN
        <5>1. PICK r \in 1 .. L : r \in S /\ f[N(q)] = a[r]
          <6>1. PICK I, x : I = 1 .. L /\ x = N(q)
            OBVIOUS
          <6>2. \A r \in I : r \notin S => nx[r] \in I
            BY <1>a, <6>1 DEF Onward
          <6>. HIDE DEF S, a, nx, L
          <6>3. I \in SUBSET (1 .. L) /\ x \in I
            BY <4>1, <6>1
          <6>4. \E r \in I : r \in S /\ f[x] = a[r]
            BY <1>1, <1>a, <2>1, <6>2, <6>3, TailRecursionEnds
          <6>. QED
            BY <6>1, <6>4
        <5>. QED
          BY <5>1
      <4>. QED
        BY <3>1, <3>3, <4>1, <4>2 DEF Sparse!End
    <3>. QED
      BY <3>2, <3>3
  <2>3. DOMAIN f = 1 .. L /\ f = [q \in DOMAIN f |-> f[q]]
    BY <2>1 DEF Chase
  <2>. QED
    BY <1>1, <2>2, <2>3
<1>5. ASSUME NEW f PROVE Search(f) => Chase(f, L, S, a, nx)
  <2>1. SUFFICES ASSUME Search(f) PROVE Chase(f, L, S, a, nx)
    OBVIOUS
  <2>2. ASSUME NEW q \in 1 .. L
        PROVE  f[q] = IF q \in S THEN a[q] ELSE f[nx[q]]
    <3>1. f[q] = (K(q) = k \/ (N(q) # 0 /\ f[N(q)]))
      BY <1>1, <2>1 DEF Sparse!End
    <3>2. q \notin S => nx[q] \in 1 .. L /\ nx[q] = N(q) /\ f[nx[q]] \in BOOLEAN
      BY <1>1, <1>3, <2>1
    <3>. QED
      BY <3>1, <3>2
  <2>3. DOMAIN f = 1 .. L /\ f = [q \in DOMAIN f |-> f[q]]
    BY <1>1, <2>1
  <2>. HIDE DEF Search, S, a, nx
  <2>. QED
    BY <2>2, <2>3 DEF Chase
<1>6. Search(found)
  <2>1. \E f : Chase(f, L, S, a, nx)
    <3>. HIDE DEF S, a, nx, L
    <3>. QED
      BY <1>1, <1>a, TailRecursionExists
  <2>2. \E f : Search(f)
    BY <1>4, <2>1
  <2>. QED
    BY <2>2
<1>7. Chase(found, L, S, a, nx)
  BY <1>5, <1>6
<1>8. b \in B /\ B \in SUBSET (1 .. L)
  <2>1. K(b) # 0 /\ b \in 1 .. m.capacity /\ b \in 1 .. L
    BY <1>1
  <2>2. Sparse!First(m, K(b)) = b
    BY <2>1 DEF SparseShape
  <2>. QED
    BY <2>1, <2>2 DEF SparseBucket
<1>b. \A q \in B : q \notin S => nx[q] \in B
  BY <1>3, <1>8
<1>. HIDE DEF found, Search
<1>9. ASSUME found[b] PROVE k \in SparseKeys(m)
  <2>1. PICK q \in B : q \in S /\ found[b] = a[q]
    <3>. HIDE DEF S, a, nx, B, b, L
    <3>. QED
      BY <1>1, <1>a, <1>7, <1>8, <1>b, TailRecursionEnds
  <2>2. q \in 1 .. L /\ K(q) = k
    BY <1>8, <1>9, <2>1
  <2>. QED
    BY <2>2, SparseKeysAt
<1>10. ASSUME k \in SparseKeys(m) PROVE found[b]
  <2>1. PICK r \in 1 .. L : K(r) = k
    BY <1>10, SparseKeysAt
  <2>. DEFINE I == {q \in B : q <= r}
  <2>2. b <= r
    BY <1>1, <2>1, SparseHead
  <2>3. r \in B
    BY <1>1, <2>1 DEF SparseBucket
  <2>4. ASSUME NEW q \in I, q # r
        PROVE  N(q) # 0 /\ N(q) <= r
    <3>1. /\ q \in 1 .. L /\ K(q) # 0 /\ K(r) # 0 /\ q < r
          /\ Sparse!First(m, K(q)) = Sparse!First(m, K(r))
      BY <1>1, <2>1, <2>4 DEF SparseBucket
    <3>. QED
      BY <3>1, SparseChain
  <2>5. \A q \in I : q \notin S => nx[q] \in I
    <3>1. ASSUME NEW q \in I, q \notin S PROVE nx[q] \in I
      <4>1. q # r /\ nx[q] = N(q) /\ q \in 1 .. L
        BY <1>8, <2>1, <3>1
      <4>. QED
        BY <1>3, <2>4, <3>1, <4>1
    <3>. QED
      BY <3>1
  <2>6. b \in I /\ I \in SUBSET (1 .. L)
    BY <1>8, <2>2
  <2>7. PICK q \in I : q \in S /\ found[b] = a[q]
    <3>. HIDE DEF S, a, nx, I, b, L
    <3>1. PICK J, c, f, M : J = I /\ c = b /\ f = found /\ M = L
      OBVIOUS
    <3>2. /\ M \in Nat /\ J \in SUBSET (1 .. M) /\ c \in J /\ Onward(M, S, nx)
          /\ Chase(f, M, S, a, nx) /\ \A q \in J : q \notin S => nx[q] \in J
      BY <1>1, <1>a, <1>7, <2>5, <2>6, <3>1
    <3>3. \E q \in J : q \in S /\ f[c] = a[q]
      BY <3>2, TailRecursionEnds
    <3>. QED
      BY <3>1, <3>3
  <2>8. K(q) = k
    BY <2>1, <2>4, <2>7
  <2>. QED
    BY <2>6, <2>7, <2>8
<1>. QED
  BY <1>2, <1>9, <1>10

(* The last node of a chain. *)
LEMMA SparseLast ==
    ASSUME NEW m, SparseShape(m), NEW p \in 1 .. Len(m.nodes), m.nodes[p].key # 0
    PROVE  LET z == Sparse!Last(m, p)
           IN  /\ z \in 1 .. Len(m.nodes) /\ m.nodes[z].key # 0 /\ m.nodes[z].next = 0
               /\ Sparse!First(m, m.nodes[z].key) = Sparse!First(m, m.nodes[p].key)
<1>. DEFINE L == Len(m.nodes)
            N(q) == m.nodes[q].next
            S == {q \in 1 .. L : N(q) = 0}
            a == [q \in 1 .. L |-> q]
            nx == [q \in 1 .. L |-> N(q)]
            B == SparseBucket(m, Sparse!First(m, m.nodes[p].key))
            Search(f) == f = [q \in DOMAIN m.nodes |->
                                 IF m.nodes[q].next = Sparse!End THEN q ELSE f[m.nodes[q].next]]
            last == CHOOSE f : Search(f)
<1>1. L \in Nat /\ DOMAIN m.nodes = 1 .. L
  BY SparseFacts
<1>2. Sparse!Last(m, p) = last[p]
  BY DEF Sparse!Last
<1>3. ASSUME NEW q \in 1 .. L, q \notin S
      PROVE  /\ nx[q] \in 1 .. L /\ nx[q] > q
             /\ q \in B => nx[q] \in B
  <2>1. N(q) # 0 /\ nx[q] = N(q)
    BY <1>3
  <2>. QED
    BY <2>1, SparseLink DEF SparseBucket
<1>a. Onward(L, S, nx)
  BY <1>3 DEF Onward
<1>4. ASSUME NEW f PROVE Chase(f, L, S, a, nx) <=> Search(f)
  BY <1>1 DEF Sparse!End, Chase
<1>5. Chase(last, L, S, a, nx)
  <2>1. \E f : Chase(f, L, S, a, nx)
    <3>. HIDE DEF S, a, nx, L
    <3>. QED
      BY <1>1, <1>a, TailRecursionExists
  <2>2. \E f : Search(f)
    BY <1>4, <2>1
  <2>3. Search(last)
    BY <2>2
  <2>. QED
    BY <1>4, <2>3
<1>6. p \in B /\ B \in SUBSET (1 .. L)
  BY DEF SparseBucket
<1>b. \A q \in B : q \notin S => nx[q] \in B
  BY <1>3, <1>6
<1>. HIDE DEF last, Search
<1>7. PICK q \in B : q \in S /\ last[p] = a[q]
  <2>. HIDE DEF S, a, nx, B, L
  <2>1. PICK J, f, M : J = B /\ f = last /\ M = L
    OBVIOUS
  <2>2. /\ M \in Nat /\ J \in SUBSET (1 .. M) /\ p \in J /\ Onward(M, S, nx)
        /\ Chase(f, M, S, a, nx) /\ \A q \in J : q \notin S => nx[q] \in J
    BY <1>1, <1>a, <1>b, <1>5, <1>6, <2>1
  <2>3. \E q \in J : q \in S /\ f[p] = a[q]
    BY <2>2, TailRecursionEnds
  <2>. QED
    BY <2>1, <2>3
<1>8. last[p] = q
  BY <1>6, <1>7
<1>. QED
  BY <1>2, <1>7, <1>8 DEF SparseBucket

(* The place for a key depends only on the size of the table. *)
LEMMA SparseFirst ==
    ASSUME NEW m, NEW w, w.capacity = m.capacity
    PROVE  \A x : Sparse!First(w, x) = Sparse!First(m, x)
BY DEF Sparse!First, Sparse!CalculateLookupId

(* It is in the table. *)
LEMMA SparseFirstRange ==
    ASSUME NEW m, m.capacity \in Nat, m.capacity > 0, NEW k \in Keys
    PROVE  Sparse!First(m, k) \in 1 .. m.capacity
<1>1. Hash[k] % m.capacity \in 0 .. m.capacity - 1
  BY HashRange
<1>. QED
  BY <1>1 DEF Sparse!First, Sparse!CalculateLookupId

(* A key for an empty place of the table. *)
LEMMA SparseSetHead ==
    ASSUME NEW m, NEW w, NEW k \in Keys, NEW p
    PROVE  /\ SparseShape(m) /\ p = Sparse!First(m, k) /\ p \in 1 .. m.capacity
           /\ m.nodes[p].key = 0 /\ w.capacity = m.capacity
           /\ w.nodes = [m.nodes EXCEPT ![p] = Sparse!Node(k)]
           => SparseShape(w) /\ SparseKeys(w) = SparseKeys(m) \cup {k} /\ k \notin SparseKeys(m)
<1>a. SUFFICES
          ASSUME SparseShape(m), p = Sparse!First(m, k), p \in 1 .. m.capacity,
                 m.nodes[p].key = 0, w.capacity = m.capacity,
                 w.nodes = [m.nodes EXCEPT ![p] = Sparse!Node(k)]
          PROVE  SparseShape(w) /\ SparseKeys(w) = SparseKeys(m) \cup {k} /\ k \notin SparseKeys(m)
  BY Zenon
<1>b. SparseShape(m) /\ p = Sparse!First(m, k) /\ p \in 1 .. m.capacity
      /\ m.nodes[p].key = 0 /\ w.capacity = m.capacity
  BY <1>a
<1>. DEFINE L == Len(m.nodes)
            C == m.capacity
            K(q) == m.nodes[q].key
            N(q) == m.nodes[q].next
<1>1. /\ C \in Nat /\ L \in Nat /\ C <= L /\ DOMAIN m.nodes = 1 .. L
      /\ \A q \in 1 .. L : K(q) \in Keys \cup {0} /\ N(q) \in Nat
      /\ k # 0
  BY <1>b, SparseFacts
<1>2. /\ \A q \in 1 .. L : K(q) = 0 => N(q) = 0
      /\ \A q \in 1 .. L : N(q) # 0 => /\ N(q) \in C + 1 .. L /\ N(q) > q
                                       /\ Sparse!First(m, K(N(q))) = Sparse!First(m, K(q))
      /\ \A i \in C + 1 .. L : K(i) # 0 /\ \E r \in 1 .. L : \A q \in 1 .. L : N(q) = i <=> q = r
      /\ \A q \in 1 .. C : K(q) # 0 => Sparse!First(m, K(q)) = q
      /\ \A q, r \in 1 .. L : K(q) # 0 /\ K(q) = K(r) => q = r
  BY <1>b DEF SparseShape
<1>3. p \in 1 .. L /\ p <= C /\ N(p) = 0 /\ K(p) = 0
  BY <1>b, <1>1, <1>2
<1>4. \A q \in 1 .. L : K(q) # k
  BY <1>b, <1>1, SparseHead
<1>5. m.nodes \in Seq(SparseNode)
  BY <1>b DEF SparseShape
<1>6. /\ w.nodes \in Seq(SparseNode) /\ Len(w.nodes) = L
      /\ \A q \in 1 .. L : q # p => w.nodes[q] = m.nodes[q]
      /\ w.nodes[p].key = k /\ w.nodes[p].next = 0
  <2>1. Sparse!Node(k) = [key |-> k, next |-> 0] /\ [key |-> k, next |-> 0] \in SparseNode
    BY DEF Sparse!Node, Sparse!End, SparseNode
  <2>2. w.nodes = [m.nodes EXCEPT ![p] = [key |-> k, next |-> 0]]
    BY <1>a, <2>1
  <2>3. w.nodes \in Seq(SparseNode) /\ Len(w.nodes) = L
    BY <1>3, <1>5, <2>1, <2>2, ExceptSeq
  <2>. QED
    BY <1>1, <1>3, <2>2, <2>3
<1>7. \A x : Sparse!First(w, x) = Sparse!First(m, x)
  BY <1>b, SparseFirst
<1>. HIDE DEF L, C, K, N
<1>8. \A q \in 1 .. L : /\ q # p => w.nodes[q].key = K(q)
                        /\ w.nodes[q].next = N(q)
  BY <1>3, <1>6 DEF K, N
<1>9. SparseShape(w)
  <2>1. w.capacity = C /\ C \in Nat /\ w.nodes \in Seq(SparseNode) /\ C <= L /\ Len(w.nodes) = L
    BY <1>b, <1>1, <1>6 DEF C
  <2>2. \A q \in 1 .. L : w.nodes[q].key = 0 => w.nodes[q].next = 0
    BY <1>1, <1>2, <1>6, <1>8
  <2>3. ASSUME NEW q \in 1 .. L, w.nodes[q].next # 0
        PROVE  /\ w.nodes[q].next \in C + 1 .. L /\ w.nodes[q].next > q
               /\ Sparse!First(w, w.nodes[w.nodes[q].next].key) = Sparse!First(w, w.nodes[q].key)
    <3>1. N(q) # 0 /\ q # p /\ w.nodes[q].next = N(q)
      BY <1>3, <1>8, <2>3
    <3>2. N(q) \in C + 1 .. L /\ N(q) > q /\ Sparse!First(m, K(N(q))) = Sparse!First(m, K(q))
      BY <1>2, <3>1
    <3>3. N(q) \in 1 .. L /\ N(q) # p
      BY <1>1, <1>3, <3>2
    <3>. QED
      BY <1>7, <1>8, <3>1, <3>2, <3>3
  <2>4. ASSUME NEW i \in C + 1 .. L
        PROVE  /\ w.nodes[i].key # 0
               /\ \E r \in 1 .. L : \A q \in 1 .. L : w.nodes[q].next = i <=> q = r
    <3>1. i \in 1 .. L /\ i # p
      BY <1>1, <1>3
    <3>. QED
      BY <1>2, <1>8, <3>1
  <2>5. \A q \in 1 .. C : w.nodes[q].key # 0 => Sparse!First(w, w.nodes[q].key) = q
    BY <1>b, <1>1, <1>2, <1>6, <1>7, <1>8
  <2>6. \A q, r \in 1 .. L : w.nodes[q].key # 0 /\ w.nodes[q].key = w.nodes[r].key => q = r
    BY <1>2, <1>4, <1>6, <1>8
  <2>. QED
    BY <2>1, <2>2, <2>3, <2>4, <2>5, <2>6 DEF SparseShape
<1>10. ASSUME NEW x \in Keys
       PROVE  x \in SparseKeys(w) <=> x \in SparseKeys(m) \/ x = k
  <2>1. x \in SparseKeys(w) <=> \E q \in 1 .. L : w.nodes[q].key = x
    BY <1>6, <1>9, SparseKeysAt
  <2>2. x \in SparseKeys(m) <=> \E q \in 1 .. L : K(q) = x
    BY <1>b, SparseKeysAt DEF K, L
  <2>3. x # 0
    BY <1>b, SparseFacts
  <2>. QED
    BY <1>3, <1>6, <1>8, <2>1, <2>2, <2>3
<1>11. k \notin SparseKeys(m)
  BY <1>b, <1>4, SparseKeysAt DEF K, L
<1>. QED
  BY <1>b, <1>9, <1>10, <1>11, SparseKeysAt

(* A key for the chain whose last node is at z. *)
LEMMA SparseSetLast ==
    ASSUME NEW m, NEW w, NEW k \in Keys, NEW z
    PROVE  /\ SparseShape(m) /\ k \notin SparseKeys(m)
           /\ z \in 1 .. Len(m.nodes) /\ m.nodes[z].key # 0 /\ m.nodes[z].next = 0
           /\ Sparse!First(m, m.nodes[z].key) = Sparse!First(m, k)
           /\ w.capacity = m.capacity
           /\ w.nodes = [q \in 1 .. Len(m.nodes) + 1 |->
                            IF q = Len(m.nodes) + 1 THEN Sparse!Node(k)
                            ELSE [m.nodes EXCEPT ![z].next = Len(m.nodes) + 1][q]]
           => SparseShape(w) /\ SparseKeys(w) = SparseKeys(m) \cup {k}
<1>a. SUFFICES
          ASSUME SparseShape(m), k \notin SparseKeys(m),
                 z \in 1 .. Len(m.nodes), m.nodes[z].key # 0, m.nodes[z].next = 0,
                 Sparse!First(m, m.nodes[z].key) = Sparse!First(m, k),
                 w.capacity = m.capacity,
                 w.nodes = [q \in 1 .. Len(m.nodes) + 1 |->
                               IF q = Len(m.nodes) + 1 THEN Sparse!Node(k)
                               ELSE [m.nodes EXCEPT ![z].next = Len(m.nodes) + 1][q]]
          PROVE  SparseShape(w) /\ SparseKeys(w) = SparseKeys(m) \cup {k}
  BY Zenon
<1>b. /\ SparseShape(m) /\ k \notin SparseKeys(m)
      /\ z \in 1 .. Len(m.nodes) /\ m.nodes[z].key # 0 /\ m.nodes[z].next = 0
      /\ Sparse!First(m, m.nodes[z].key) = Sparse!First(m, k)
      /\ w.capacity = m.capacity
  BY <1>a
<1>. DEFINE L == Len(m.nodes)
            C == m.capacity
            K(q) == m.nodes[q].key
            N(q) == m.nodes[q].next
<1>1. /\ C \in Nat /\ L \in Nat /\ C <= L /\ DOMAIN m.nodes = 1 .. L
      /\ \A q \in 1 .. L : K(q) \in Keys \cup {0} /\ N(q) \in Nat
      /\ \A q \in 1 .. L : m.nodes[q] = [key |-> K(q), next |-> N(q)]
      /\ k # 0
  BY <1>b, SparseFacts
<1>2. /\ \A q \in 1 .. L : K(q) = 0 => N(q) = 0
      /\ \A q \in 1 .. L : N(q) # 0 => /\ N(q) \in C + 1 .. L /\ N(q) > q
                                       /\ Sparse!First(m, K(N(q))) = Sparse!First(m, K(q))
      /\ \A i \in C + 1 .. L : K(i) # 0 /\ \E r \in 1 .. L : \A q \in 1 .. L : N(q) = i <=> q = r
      /\ \A q \in 1 .. C : K(q) # 0 => Sparse!First(m, K(q)) = q
      /\ \A q, r \in 1 .. L : K(q) # 0 /\ K(q) = K(r) => q = r
  BY <1>b DEF SparseShape
<1>3. z \in 1 .. L /\ K(z) # 0 /\ N(z) = 0 /\ Sparse!First(m, K(z)) = Sparse!First(m, k)
  BY <1>b
<1>4. \A q \in 1 .. L : K(q) # k
  BY <1>b, SparseKeysAt
<1>5. w.nodes = [q \in 1 .. L + 1 |-> [key |-> IF q = L + 1 THEN k ELSE K(q),
                                       next |-> IF q = L + 1 THEN 0 ELSE IF q = z THEN L + 1 ELSE N(q)]]
  <2>1. ASSUME NEW q \in 1 .. L
        PROVE  [m.nodes EXCEPT ![z].next = L + 1][q] =
                   [key |-> K(q), next |-> IF q = z THEN L + 1 ELSE N(q)]
    <3>1. PICK s, n : s = m.nodes /\ n = L + 1
      OBVIOUS
    <3>2. /\ z \in DOMAIN s /\ q \in DOMAIN s /\ s[q] = [key |-> K(q), next |-> N(q)]
          /\ s[z] = [key |-> K(z), next |-> N(z)]
      BY <1>1, <1>3, <3>1
    <3>. HIDE DEF K, N
    <3>3. [s EXCEPT ![z].next = n][q] = [key |-> K(q), next |-> IF q = z THEN n ELSE N(q)]
      <4>1. CASE q = z
        <5>1. [s EXCEPT ![z].next = n][z] = [s[z] EXCEPT !.next = n]
          BY <3>2
        <5>. QED
          BY <3>2, <4>1, <5>1
      <4>2. CASE q # z
        BY <3>2, <4>2
      <4>. QED
        BY <4>1, <4>2
    <3>. QED
      BY <3>1, <3>3
  <2>2. Sparse!Node(k) = [key |-> k, next |-> 0]
    BY DEF Sparse!Node, Sparse!End
  <2>3. w.nodes = [q \in 1 .. L + 1 |-> IF q = L + 1 THEN Sparse!Node(k)
                                        ELSE [m.nodes EXCEPT ![z].next = L + 1][q]]
    BY <1>a
  <2>4. \A q \in 1 .. L + 1 : q # L + 1 => q \in 1 .. L
    BY <1>1
  <2>. HIDE DEF L, K, N
  <2>. QED
    BY <2>1, <2>2, <2>3, <2>4
<1>6. \A x : Sparse!First(w, x) = Sparse!First(m, x)
  BY <1>b, SparseFirst
<1>. HIDE DEF L, C, K, N
<1>7. /\ \A q \in 1 .. L : w.nodes[q].key = K(q) /\ (q # z => w.nodes[q].next = N(q))
      /\ w.nodes[z].next = L + 1
      /\ w.nodes[L + 1].key = k /\ w.nodes[L + 1].next = 0
  BY <1>1, <1>3, <1>5
<1>8. w.nodes \in Seq(SparseNode) /\ Len(w.nodes) = L + 1
  BY <1>1, <1>5 DEF SparseNode
<1>9. \A q \in 1 .. L + 1 : q = L + 1 \/ q \in 1 .. L
  BY <1>1
<1>10. SparseShape(w)
  <2>1. w.capacity = C /\ C \in Nat /\ w.nodes \in Seq(SparseNode) /\ C <= L + 1
    BY <1>b, <1>1, <1>8 DEF C
  <2>2. \A q \in 1 .. L + 1 : w.nodes[q].key = 0 => w.nodes[q].next = 0
    BY <1>2, <1>3, <1>7, <1>9
  <2>3. ASSUME NEW q \in 1 .. L + 1, w.nodes[q].next # 0
        PROVE  /\ w.nodes[q].next \in C + 1 .. L + 1 /\ w.nodes[q].next > q
               /\ Sparse!First(w, w.nodes[w.nodes[q].next].key) = Sparse!First(w, w.nodes[q].key)
    <3>1. q \in 1 .. L
      BY <1>7, <1>9, <2>3
    <3>2. CASE q = z
      <4>1. L + 1 \in C + 1 .. L + 1 /\ L + 1 > q
        BY <1>1, <3>1
      <4>. QED
        BY <1>3, <1>6, <1>7, <3>2, <4>1
    <3>3. CASE q # z
      <4>1. N(q) # 0 /\ w.nodes[q].next = N(q) /\ w.nodes[q].key = K(q)
        BY <1>7, <2>3, <3>1, <3>3
      <4>2. N(q) \in C + 1 .. L /\ N(q) > q /\ Sparse!First(m, K(N(q))) = Sparse!First(m, K(q))
        BY <1>2, <3>1, <4>1
      <4>3. N(q) \in 1 .. L /\ N(q) \in C + 1 .. L + 1
        BY <1>1, <4>2
      <4>. QED
        BY <1>6, <1>7, <4>1, <4>2, <4>3
    <3>. QED
      BY <3>2, <3>3
  <2>4. ASSUME NEW i \in C + 1 .. L + 1
        PROVE  /\ w.nodes[i].key # 0
               /\ \E r \in 1 .. L + 1 : \A q \in 1 .. L + 1 : w.nodes[q].next = i <=> q = r
    <3>1. CASE i = L + 1
      <4>1. ASSUME NEW q \in 1 .. L + 1 PROVE w.nodes[q].next = L + 1 <=> q = z
        <5>1. CASE q = L + 1
          BY <1>1, <1>3, <1>7, <5>1
        <5>2. CASE q \in 1 .. L
          <6>1. N(q) # L + 1
            BY <1>1, <1>2, <5>2
          <6>. QED
            BY <1>7, <5>2, <6>1
        <5>. QED
          BY <1>9, <5>1, <5>2
      <4>2. z \in 1 .. L + 1
        BY <1>1, <1>3
      <4>. QED
        BY <1>1, <1>7, <3>1, <4>1, <4>2
    <3>2. CASE i # L + 1
      <4>1. i \in C + 1 .. L /\ i \in 1 .. L /\ i # 0
        BY <1>1, <3>2
      <4>2. PICK r \in 1 .. L : \A q \in 1 .. L : N(q) = i <=> q = r
        BY <1>2, <4>1
      <4>3. r # z
        BY <1>3, <4>1, <4>2
      <4>4. ASSUME NEW q \in 1 .. L + 1 PROVE w.nodes[q].next = i <=> q = r
        <5>1. CASE q = L + 1
          BY <1>1, <1>7, <4>1, <5>1
        <5>2. CASE q \in 1 .. L
          BY <1>7, <3>2, <4>2, <4>3, <5>2
        <5>. QED
          BY <1>9, <5>1, <5>2
      <4>5. r \in 1 .. L + 1
        BY <1>1
      <4>. QED
        BY <1>2, <1>7, <4>1, <4>4, <4>5
    <3>. QED
      BY <3>1, <3>2
  <2>5. \A q \in 1 .. C : w.nodes[q].key # 0 => Sparse!First(w, w.nodes[q].key) = q
    <3>1. \A q \in 1 .. C : q \in 1 .. L
      BY <1>1
    <3>. QED
      BY <1>2, <1>6, <1>7, <3>1
  <2>6. \A q, r \in 1 .. L + 1 : w.nodes[q].key # 0 /\ w.nodes[q].key = w.nodes[r].key => q = r
    BY <1>2, <1>4, <1>7, <1>9
  <2>. QED
    <3>1. PICK M : M = L + 1
      OBVIOUS
    <3>2. Len(w.nodes) = M /\ C <= M
      BY <1>8, <2>1, <3>1
    <3>3. ASSUME NEW q \in 1 .. M, w.nodes[q].next # 0
          PROVE  /\ w.nodes[q].next \in C + 1 .. M /\ w.nodes[q].next > q
                 /\ Sparse!First(w, w.nodes[w.nodes[q].next].key) = Sparse!First(w, w.nodes[q].key)
      BY <2>3, <3>1, <3>3
    <3>4. \A i \in C + 1 .. M :
              /\ w.nodes[i].key # 0
              /\ \E r \in 1 .. M : \A q \in 1 .. M : w.nodes[q].next = i <=> q = r
      BY <2>4, <3>1
    <3>5. \A q, r \in 1 .. M : w.nodes[q].key # 0 /\ w.nodes[q].key = w.nodes[r].key => q = r
      BY <2>6, <3>1
    <3>6. \A q \in 1 .. M : w.nodes[q].key = 0 => w.nodes[q].next = 0
      BY <2>2, <3>1
    <3>. QED
      BY <2>1, <2>5, <3>2, <3>3, <3>4, <3>5, <3>6 DEF SparseShape
<1>11. ASSUME NEW x \in Keys
       PROVE  x \in SparseKeys(w) <=> x \in SparseKeys(m) \/ x = k
  <2>1. x \in SparseKeys(w) <=> \E q \in 1 .. L + 1 : w.nodes[q].key = x
    BY <1>8, <1>10, SparseKeysAt
  <2>2. x \in SparseKeys(m) <=> \E q \in 1 .. L : K(q) = x
    BY <1>b, SparseKeysAt DEF K, L
  <2>3. L + 1 \in 1 .. L + 1 /\ \A q \in 1 .. L : q \in 1 .. L + 1
    BY <1>1
  <2>. QED
    BY <1>7, <1>9, <2>1, <2>2, <2>3
<1>. QED
  BY <1>b, <1>10, <1>11, SparseKeysAt

(* One key more, and num has followed. *)
LEMMA SparseGrown ==
    ASSUME NEW m, NEW w, SparseInv(m), SparseShape(w), NEW k, k \notin SparseKeys(m),
           SparseKeys(w) = SparseKeys(m) \cup {k},
           w.num = m.num + 1, w.capacity = m.capacity, m.num < m.capacity
    PROVE  SparseInv(w)
<1>1. IsFiniteSet(SparseKeys(m)) /\ m.num = Cardinality(SparseKeys(m))
  BY DEF SparseInv
<1>2. IsFiniteSet(SparseKeys(w)) /\ Cardinality(SparseKeys(w)) = Cardinality(SparseKeys(m)) + 1
  BY <1>1, FS_AddElement
<1>3. m.num \in Nat /\ m.capacity \in Nat
  BY <1>1, FS_CardinalityType, SparseFacts DEF SparseInv
<1>. QED
  BY <1>1, <1>2, <1>3 DEF SparseInv

(* One key less. *)
LEMMA SparseShrunk ==
    ASSUME NEW m, NEW w, SparseInv(m), SparseShape(w), NEW k, k \in SparseKeys(m),
           SparseKeys(w) = SparseKeys(m) \ {k},
           w.num = m.num - 1, w.capacity = m.capacity
    PROVE  SparseInv(w)
<1>1. IsFiniteSet(SparseKeys(m)) /\ m.num = Cardinality(SparseKeys(m)) /\ m.num <= m.capacity
  BY DEF SparseInv
<1>2. IsFiniteSet(SparseKeys(w)) /\ Cardinality(SparseKeys(w)) = Cardinality(SparseKeys(m)) - 1
  BY <1>1, FS_RemoveElement
<1>3. m.num \in Nat /\ m.capacity \in Nat
  BY <1>1, FS_CardinalityType, SparseFacts DEF SparseInv
<1>. QED
  BY <1>1, <1>2, <1>3 DEF SparseInv

(* EmplacePair, while there are fewer keys than places in the table. *)
LEMMA SparseEmplace ==
    ASSUME NEW m, NEW k \in Keys, SparseInv(m), m.num < m.capacity
    PROVE  /\ SparseInv(Sparse!EmplacePair(m, k))
           /\ SparseKeys(Sparse!EmplacePair(m, k)) = SparseKeys(m) \cup {k}
           /\ Sparse!EmplacePair(m, k).capacity = m.capacity
<1>. DEFINE p == Sparse!First(m, k)
            w == Sparse!EmplacePair(m, k)
            L == Len(m.nodes)
            new == L + 1
<1>1. /\ SparseShape(m) /\ m.capacity \in Nat /\ m.num \in Nat /\ L \in Nat /\ m.capacity <= L
      /\ \A q \in 1 .. L : m.nodes[q].key # 0 <=> m.nodes[q] # Sparse!NoNode
  BY SparseFacts, FS_CardinalityType DEF SparseInv
<1>2. p \in 1 .. m.capacity /\ p \in 1 .. L
  BY <1>1, SparseFirstRange
<1>3. CASE m.nodes[p] = Sparse!NoNode
  <2>1. w = [capacity |-> m.capacity, nodes |-> [m.nodes EXCEPT ![p] = Sparse!Node(k)],
             num |-> m.num + 1]
    BY <1>3 DEF Sparse!EmplacePair, Sparse!WithNodes
  <2>. HIDE DEF w
  <2>2. /\ w.capacity = m.capacity /\ w.num = m.num + 1
        /\ w.nodes = [m.nodes EXCEPT ![p] = Sparse!Node(k)]
    BY <2>1
  <2>3. m.nodes[p].key = 0
    BY <1>1, <1>2, <1>3
  <2>. HIDE DEF p
  <2>4. SparseShape(w) /\ SparseKeys(w) = SparseKeys(m) \cup {k} /\ k \notin SparseKeys(m)
    BY <1>1, <1>2, <2>2, <2>3, SparseSetHead DEF p
  <2>5. SparseInv(w)
    BY <2>2, <2>4, SparseGrown
  <2>. QED
    BY <2>2, <2>4, <2>5 DEF w
<1>4. CASE m.nodes[p] # Sparse!NoNode
  <2>1. m.nodes[p].key # 0
    BY <1>1, <1>2, <1>4
  <2>2. Sparse!FindCollisionNode(m, p, k) <=> k \in SparseKeys(m)
    BY <1>1, <1>2, <2>1, SparseFind
  <2>3. w = Sparse!AddCollisionNode(m, p, k)
    BY <1>4 DEF Sparse!EmplacePair
  <2>4. CASE k \in SparseKeys(m)
    <3>1. w = m
      BY <2>2, <2>3, <2>4 DEF Sparse!AddCollisionNode
    <3>. QED
      BY <2>4, <3>1
  <2>5. CASE k \notin SparseKeys(m)
    <3>. DEFINE z == Sparse!Last(m, p)
    <3>1. w = [capacity |-> m.capacity,
               nodes |-> [q \in 1 .. new |-> IF q = new THEN Sparse!Node(k)
                                             ELSE [m.nodes EXCEPT ![z].next = new][q]],
               num |-> m.num + 1]
      BY <2>2, <2>3, <2>5 DEF Sparse!AddCollisionNode, Sparse!WithNodes
    <3>. HIDE DEF w, z
    <3>2. /\ w.capacity = m.capacity /\ w.num = m.num + 1
          /\ w.nodes = [q \in 1 .. new |-> IF q = new THEN Sparse!Node(k)
                                           ELSE [m.nodes EXCEPT ![z].next = new][q]]
      BY <3>1
    <3>3. Sparse!First(m, m.nodes[p].key) = p
      BY <1>1, <1>2, <2>1 DEF SparseShape
    <3>4. /\ z \in 1 .. L /\ m.nodes[z].key # 0 /\ m.nodes[z].next = 0
          /\ Sparse!First(m, m.nodes[z].key) = Sparse!First(m, k)
      BY <1>1, <1>2, <2>1, <3>3, SparseLast DEF z
    <3>5. SparseShape(w) /\ SparseKeys(w) = SparseKeys(m) \cup {k}
      BY <1>1, <2>5, <3>2, <3>4, SparseSetLast
    <3>6. SparseInv(w)
      BY <2>5, <3>2, <3>5, SparseGrown
    <3>. QED
      BY <3>2, <3>5, <3>6 DEF w
  <2>. QED
    BY <2>4, <2>5
<1>. QED
  BY <1>3, <1>4

(* The loop of ReallocAndRehash: f[p] is the new map after the old nodes up to place p. *)
SparseLoop(f, m, size, n) ==
    f = [p \in 0 .. n |->
            IF p = 0 THEN Sparse!Cleared(size * Sparse!capacity_multiplier)
            ELSE IF p \in Sparse!Visited(m) THEN Sparse!EmplacePair(f[p - 1], m.nodes[p].key)
            ELSE f[p - 1]]

(* There is such a function. *)
LEMMA SparseLoopExists ==
    ASSUME NEW m, NEW size, NEW n \in Nat, 0 \notin Sparse!Visited(m)
    PROVE  \E f : SparseLoop(f, m, size, n)
<1>. DEFINE T == {i \in Nat : ~\E f : SparseLoop(f, m, size, i)}
            first == Sparse!Cleared(size * Sparse!capacity_multiplier)
            next(old, i) == IF i \in Sparse!Visited(m) THEN Sparse!EmplacePair(old, m.nodes[i].key)
                            ELSE old
<1>1. SUFFICES ASSUME T # {} PROVE FALSE
  OBVIOUS
<1>2. T \in SUBSET Nat
  OBVIOUS
<1>3. PICK i \in T : \A j \in T : i <= j
  BY <1>1, <1>2, Least
<1>4. ASSUME NEW j \in Nat, NEW f
      PROVE  SparseLoop(f, m, size, j) <=>
                 f = [h \in 0 .. j |-> IF h = 0 THEN first ELSE next(f[h - 1], h)]
  <2>1. ASSUME NEW h \in 0 .. j
        PROVE  (IF h = 0 THEN first
                ELSE IF h \in Sparse!Visited(m) THEN Sparse!EmplacePair(f[h - 1], m.nodes[h].key)
                ELSE f[h - 1]) = IF h = 0 THEN first ELSE next(f[h - 1], h)
    <3>. HIDE DEF first
    <3>. QED
      OBVIOUS
  <2>. HIDE DEF next
  <2>. QED
    BY <2>1, Zenon DEF SparseLoop
<1>. HIDE DEF first, next
<1>5. i # 0
  <2>1. SUFFICES ASSUME i = 0 PROVE FALSE
    OBVIOUS
  <2>. DEFINE f == [h \in 0 .. 0 |-> first]
  <2>2. f = [h \in 0 .. 0 |-> IF h = 0 THEN first ELSE next(f[h - 1], h)]
    OBVIOUS
  <2>. QED
    BY <1>3, <1>4, <2>1, <2>2
<1>6. i \in Nat /\ i - 1 \in Nat /\ i - 1 \notin T
  BY <1>2, <1>3, <1>5
<1>7. PICK f : SparseLoop(f, m, size, i - 1)
  BY <1>6
<1>8. f = [h \in 0 .. i - 1 |-> IF h = 0 THEN first ELSE next(f[h - 1], h)]
  BY <1>4, <1>6, <1>7
<1>. DEFINE g == [h \in 0 .. i |-> IF h = i THEN next(f[i - 1], i) ELSE f[h]]
<1>9. ASSUME NEW h \in 0 .. i
      PROVE  g[h] = IF h = 0 THEN first ELSE next(g[h - 1], h)
  <2>1. CASE h = i
    <3>1. g[h] = next(f[i - 1], i) /\ g[h - 1] = f[i - 1]
      BY <1>5, <1>6, <2>1
    <3>. QED
      BY <1>5, <2>1, <3>1
  <2>2. CASE h # i
    <3>1. h \in 0 .. i - 1 /\ g[h] = f[h] /\ (h # 0 => g[h - 1] = f[h - 1])
      BY <1>6, <2>2
    <3>. QED
      BY <1>8, <3>1
  <2>. QED
    BY <2>1, <2>2
<1>10. g = [h \in 0 .. i |-> IF h = 0 THEN first ELSE next(g[h - 1], h)]
  BY <1>9
<1>11. SparseLoop(g, m, size, i)
  BY <1>4, <1>6, <1>10
<1>. QED
  BY <1>3, <1>11

(* The rehash keeps the keys and makes room for one more. *)
LEMMA SparseRehash ==
    ASSUME NEW m, SparseInv(m)
    PROVE  /\ SparseInv(Sparse!ReallocAndRehash(m, m.num + 1))
           /\ SparseKeys(Sparse!ReallocAndRehash(m, m.num + 1)) = SparseKeys(m)
           /\ Sparse!ReallocAndRehash(m, m.num + 1).num <
                  Sparse!ReallocAndRehash(m, m.num + 1).capacity
<1>. DEFINE n == Len(m.nodes)
            c == (m.num + 1) * 4
            w == Sparse!ReallocAndRehash(m, m.num + 1)
            K(i) == m.nodes[i].key
<1>1. /\ SparseShape(m) /\ m.capacity \in Nat /\ m.num \in Nat /\ n \in Nat
      /\ DOMAIN m.nodes = 1 .. n
      /\ Sparse!Visited(m) = {i \in 1 .. n : K(i) # 0}
      /\ \A i \in 1 .. n : K(i) # 0 => K(i) \in Keys
      /\ IsFiniteSet(SparseKeys(m)) /\ m.num = Cardinality(SparseKeys(m))
  BY SparseFacts, FS_CardinalityType DEF SparseInv
<1>2. CASE (m.num + 1) * 2 <= m.capacity
  <2>1. w = m
    BY <1>2 DEF Sparse!ReallocAndRehash, Sparse!max_density_level
  <2>. QED
    BY <1>1, <1>2, <2>1
<1>3. CASE ~((m.num + 1) * 2 <= m.capacity)
  <2>1. PICK f : SparseLoop(f, m, m.num + 1, n) /\ w = f[n]
    <3>. DEFINE f == CHOOSE f : SparseLoop(f, m, m.num + 1, n)
    <3>1. w = f[n]
      BY <1>3 DEF Sparse!ReallocAndRehash, Sparse!max_density_level, SparseLoop
    <3>2. \E x : SparseLoop(x, m, m.num + 1, n)
      <4>1. 0 \notin Sparse!Visited(m) /\ n \in Nat
        BY <1>1
      <4>. HIDE DEF n
      <4>. QED
        BY <4>1, SparseLoopExists, Zenon
    <3>3. SparseLoop(f, m, m.num + 1, n)
      BY <3>2
    <3>. HIDE DEF f, w
    <3>. QED
      BY <3>1, <3>3
  <2>. DEFINE Copied(i) == {K(j) : j \in {h \in 1 .. i : K(h) # 0}}
              Good(i) == /\ SparseInv(f[i]) /\ f[i].capacity = c
                         /\ SparseKeys(f[i]) = Copied(i)
              T == {i \in 0 .. n : ~Good(i)}
  <2>2. /\ f[0] = Sparse!Cleared(c)
        /\ \A i \in 1 .. n : K(i) # 0 => f[i] = Sparse!EmplacePair(f[i - 1], K(i))
        /\ \A i \in 1 .. n : K(i) = 0 => f[i] = f[i - 1]
    <3>1. \A i \in 0 .. n :
              f[i] = IF i = 0 THEN Sparse!Cleared((m.num + 1) * Sparse!capacity_multiplier)
                       ELSE IF i \in Sparse!Visited(m) THEN Sparse!EmplacePair(f[i - 1], K(i))
                       ELSE f[i - 1]
      BY <2>1 DEF SparseLoop
    <3>2. \A i \in 1 .. n : i \in 0 .. n /\ i # 0 /\ (i \in Sparse!Visited(m) <=> K(i) # 0)
      BY <1>1
    <3>3. 0 \in 0 .. n /\ 0 \notin Sparse!Visited(m) /\ (m.num + 1) * Sparse!capacity_multiplier = c
      BY <1>1 DEF Sparse!capacity_multiplier
    <3>. HIDE DEF w, n, K, c
    <3>4. f[0] = Sparse!Cleared(c)
      <4>1. f[0] = IF 0 = 0 THEN Sparse!Cleared(c)
                     ELSE IF 0 \in Sparse!Visited(m) THEN Sparse!EmplacePair(f[0 - 1], K(0))
                     ELSE f[0 - 1]
        BY <3>1, <3>3
      <4>. QED
        BY <3>3, <4>1
    <3>5. ASSUME NEW i \in 1 .. n
          PROVE  /\ K(i) # 0 => f[i] = Sparse!EmplacePair(f[i - 1], K(i))
                 /\ K(i) = 0 => f[i] = f[i - 1]
      <4>1. f[i] = IF i = 0 THEN Sparse!Cleared((m.num + 1) * Sparse!capacity_multiplier)
                     ELSE IF i \in Sparse!Visited(m) THEN Sparse!EmplacePair(f[i - 1], K(i))
                     ELSE f[i - 1]
        BY <3>1, <3>2
      <4>. QED
        BY <3>2, <4>1
    <3>. QED
      BY <3>4, <3>5
  <2>. HIDE DEF w
  <2>3. Good(0)
    <3>1. Copied(0) = {} /\ c \in Nat
      BY <1>1
    <3>. QED
      BY <2>2, <3>1, SparseCleared
  <2>4. ASSUME NEW i \in 1 .. n, Good(i - 1)
        PROVE  Good(i)
    <3>1. i - 1 \in Nat /\ 1 .. i = (1 .. i - 1) \cup {i}
      BY <1>1
    <3>2. CASE K(i) = 0
      <4>1. Copied(i) = Copied(i - 1)
        BY <3>1, <3>2
      <4>. QED
        BY <2>2, <2>4, <3>2, <4>1
    <3>3. CASE K(i) # 0
      <4>1. Copied(i) = Copied(i - 1) \cup {K(i)}
        BY <3>1, <3>3
      <4>2. PICK u, k, v : u = f[i - 1] /\ k = K(i) /\ v = Sparse!EmplacePair(u, k)
        OBVIOUS
      <4>3. k \in Keys /\ SparseInv(u) /\ u.capacity = c /\ SparseKeys(u) = Copied(i - 1)
        BY <1>1, <2>4, <3>3, <4>2
      <4>4. Copied(i - 1) \subseteq SparseKeys(m)
        BY <1>1 DEF SparseKeys
      <4>5. u.num <= m.num /\ u.num \in Nat
        <5>1. u.num = Cardinality(SparseKeys(u))
          BY <4>3 DEF SparseInv
        <5>2. IsFiniteSet(SparseKeys(u)) /\ Cardinality(SparseKeys(u)) <= Cardinality(SparseKeys(m))
          <6>. HIDE DEF Copied
          <6>. QED
            BY <1>1, <4>3, <4>4, FS_Subset
        <5>. QED
          BY <1>1, <5>1, <5>2, FS_CardinalityType
      <4>6. u.num < u.capacity
        BY <1>1, <4>3, <4>5
      <4>7. /\ SparseInv(v) /\ SparseKeys(v) = SparseKeys(u) \cup {k}
            /\ v.capacity = u.capacity
        BY <4>2, <4>3, <4>6, SparseEmplace, Zenon
      <4>8. f[i] = v
        BY <2>2, <3>3, <4>2
      <4>. HIDE DEF Copied
      <4>. QED
        BY <4>1, <4>2, <4>3, <4>7, <4>8
    <3>. QED
      BY <3>2, <3>3
  <2>. HIDE DEF Good
  <2>5. T = {}
    <3>1. SUFFICES ASSUME T # {} PROVE FALSE
      OBVIOUS
    <3>2. PICK i \in T : \A j \in T : i <= j
      <4>1. T \in SUBSET Nat
        BY <1>1
      <4>. QED
        BY <3>1, <4>1, Least
    <3>3. i \in 0 .. n /\ ~Good(i)
      OBVIOUS
    <3>4. i - 1 \in 0 .. n /\ i - 1 \notin T /\ i \in 1 .. n
      BY <1>1, <2>3, <3>2, <3>3
    <3>. QED
      BY <2>4, <3>3, <3>4
  <2>6. Good(n)
    BY <1>1, <2>5
  <2>7. SparseKeys(m) = Copied(n)
    BY <1>1 DEF SparseKeys
  <2>8. SparseInv(w) /\ SparseKeys(w) = SparseKeys(m) /\ w.capacity = c
    BY <2>1, <2>6, <2>7 DEF Good
  <2>9. w.num < w.capacity
    BY <1>1, <2>8 DEF SparseInv
  <2>. QED
    BY <2>8, <2>9 DEF w
<1>. QED
  BY <1>2, <1>3

(* Insert adds the key. *)
LEMMA SparseInsertion ==
    ASSUME NEW m, NEW k \in Keys, SparseInv(m)
    PROVE  SparseInv(Sparse!Insert(m, k)) /\ SparseKeys(Sparse!Insert(m, k)) = SparseKeys(m) \cup {k}
<1>. DEFINE r == Sparse!ReallocAndRehash(m, m.num + 1)
<1>1. SparseInv(r) /\ SparseKeys(r) = SparseKeys(m) /\ r.num < r.capacity
  BY SparseRehash
<1>2. Sparse!Insert(m, k) = Sparse!EmplacePair(r, k)
  BY DEF Sparse!Insert
<1>. HIDE DEF r
<1>. QED
  BY <1>1, <1>2, SparseEmplace, Zenon

(* The nodes s of m from which nothing but the node at c is to go: the others do not link to it
   and are the map that is left. *)
SparseCut(m, s, c) ==
    /\ m.capacity \in Nat /\ s \in Seq(SparseNode) /\ c \in m.capacity + 1 .. Len(s)
    /\ \A p \in 1 .. Len(s) : p # c /\ s[p].key = 0 => s[p].next = 0
    /\ \A p \in 1 .. Len(s) : p # c /\ s[p].next # 0 =>
           /\ s[p].next \in m.capacity + 1 .. Len(s) /\ s[p].next > p /\ s[p].next # c
           /\ Sparse!First(m, s[s[p].next].key) = Sparse!First(m, s[p].key)
    /\ \A i \in m.capacity + 1 .. Len(s) : i # c =>
           /\ s[i].key # 0
           /\ \E p \in 1 .. Len(s) : /\ p # c
                                     /\ \A q \in 1 .. Len(s) : q # c => (s[q].next = i <=> q = p)
    /\ \A p \in 1 .. m.capacity : s[p].key # 0 => Sparse!First(m, s[p].key) = p
    /\ \A p, q \in 1 .. Len(s) : p # c /\ q # c /\ s[p].key # 0 /\ s[p].key = s[q].key => p = q

(* Drop removes that node and moves the links to the later ones. *)
LEMMA SparseDropNodes ==
    ASSUME NEW m, NEW s, NEW c, NEW w, s \in Seq(SparseNode), c \in 1 .. Len(s),
           w = Sparse!Drop(m, s, c)
    PROVE  /\ w.capacity = m.capacity /\ w.num = m.num - 1
           /\ w.nodes = [j \in 1 .. Len(s) - 1 |->
                  LET x == s[IF j < c THEN j ELSE j + 1]
                  IN  [key |-> x.key, next |-> IF x.next > c THEN x.next - 1 ELSE x.next]]
<1>. DEFINE t == Sparse!SeqExt!RemoveAt(s, c)
<1>1. Sparse!Drop(m, s, c) = [capacity |-> m.capacity,
                              nodes |-> Sparse!ShiftCollisionNodeLinks(m, t, c), num |-> m.num - 1]
  BY DEF Sparse!Drop, Sparse!WithNodes
<1>2. t = Removal(s, c)
  BY Zenon DEF Sparse!SeqExt!RemoveAt, Removal
<1>3. Sparse!ShiftCollisionNodeLinks(m, t, c) =
          [p \in DOMAIN t |-> [t[p] EXCEPT !.next = IF @ > c THEN @ - 1 ELSE @]]
  BY Zenon DEF Sparse!ShiftCollisionNodeLinks
<1>. HIDE DEF t
<1>4. Len(s) \in Nat /\ \A j \in 1 .. Len(s) : s[j] \in SparseNode
  BY LenProperties
<1>5. /\ t \in Seq(SparseNode) /\ Len(t) = Len(s) - 1
      /\ \A j \in 1 .. c - 1 : t[j] = s[j]
      /\ \A j \in c .. Len(s) - 1 : t[j] = s[j + 1]
  <2>1. \A v : v = Removal(s, c) =>
            /\ v \in Seq(SparseNode) /\ Len(v) = Len(s) - 1
            /\ \A j \in 1 .. c - 1 : v[j] = s[j]
            /\ \A j \in c .. Len(s) - 1 : v[j] = s[j + 1]
    BY Removed
  <2>. QED
    BY <1>2, <2>1
<1>6. DOMAIN t = 1 .. Len(s) - 1
  BY <1>5, LenProperties
<1>7. \A j \in 1 .. Len(s) - 1 : t[j] = s[IF j < c THEN j ELSE j + 1]
  BY <1>4, <1>5
<1>8. \A j \in 1 .. Len(s) - 1 : t[j] \in SparseNode
  BY <1>5, <1>6, LenProperties
<1>9. ASSUME NEW j \in 1 .. Len(s) - 1
      PROVE  [t[j] EXCEPT !.next = IF @ > c THEN @ - 1 ELSE @] =
             [key |-> t[j].key, next |-> IF t[j].next > c THEN t[j].next - 1 ELSE t[j].next]
  <2>1. PICK x : x = t[j]
    OBVIOUS
  <2>2. PICK v : v = IF x.next > c THEN x.next - 1 ELSE x.next
    OBVIOUS
  <2>3. x = [key |-> x.key, next |-> x.next]
    BY <1>8, <2>1 DEF SparseNode
  <2>4. [x EXCEPT !.next = v] = [key |-> x.key, next |-> v]
    BY <2>3
  <2>5. [x EXCEPT !.next = IF @ > c THEN @ - 1 ELSE @] = [x EXCEPT !.next = v]
    BY <2>2, Zenon
  <2>. QED
    BY <2>1, <2>2, <2>4, <2>5, Zenon
<1>10. w.capacity = m.capacity /\ w.num = m.num - 1
       /\ w.nodes = Sparse!ShiftCollisionNodeLinks(m, t, c)
  BY <1>1
<1>11. w.nodes = [j \in 1 .. Len(s) - 1 |->
           [key |-> t[j].key, next |-> IF t[j].next > c THEN t[j].next - 1 ELSE t[j].next]]
  BY <1>3, <1>6, <1>9, <1>10
<1>. QED
  BY <1>7, <1>10, <1>11

(* So Drop gives a map with the keys of the other nodes. *)
LEMMA SparseDrop ==
    ASSUME NEW m, NEW s, NEW c, NEW w
    PROVE  SparseCut(m, s, c) /\ w = Sparse!Drop(m, s, c) =>
           /\ SparseShape(w) /\ w.capacity = m.capacity /\ w.num = m.num - 1
           /\ \A k \in Keys : k \in SparseKeys(w) <=> \E p \in 1 .. Len(s) : p # c /\ s[p].key = k
<1>a. SUFFICES ASSUME SparseCut(m, s, c), w = Sparse!Drop(m, s, c)
               PROVE  /\ SparseShape(w) /\ w.capacity = m.capacity /\ w.num = m.num - 1
                      /\ \A k \in Keys : k \in SparseKeys(w) <=>
                             \E p \in 1 .. Len(s) : p # c /\ s[p].key = k
  OBVIOUS
<1>. DEFINE L == Len(s)
            C == m.capacity
            K(p) == s[p].key
            N(p) == s[p].next
            u(j) == IF j < c THEN j ELSE j + 1
            d(x) == IF x > c THEN x - 1 ELSE x
<1>1. /\ C \in Nat /\ L \in Nat /\ c \in C + 1 .. L /\ s \in Seq(SparseNode) /\ c \in 1 .. L
      /\ \A p \in 1 .. L : s[p] \in SparseNode
  BY <1>a, LenProperties DEF SparseCut
<1>2. \A p \in 1 .. L : K(p) \in Keys \cup {0} /\ N(p) \in Nat
  BY <1>1 DEF SparseNode
<1>3. /\ \A p \in 1 .. L : p # c /\ K(p) = 0 => N(p) = 0
      /\ \A p \in 1 .. L : p # c /\ N(p) # 0 =>
             /\ N(p) \in C + 1 .. L /\ N(p) > p /\ N(p) # c
             /\ Sparse!First(m, K(N(p))) = Sparse!First(m, K(p))
      /\ \A i \in C + 1 .. L : i # c =>
             /\ K(i) # 0
             /\ \E p \in 1 .. L : p # c /\ \A q \in 1 .. L : q # c => (N(q) = i <=> q = p)
      /\ \A p \in 1 .. C : K(p) # 0 => Sparse!First(m, K(p)) = p
      /\ \A p, q \in 1 .. L : p # c /\ q # c /\ K(p) # 0 /\ K(p) = K(q) => p = q
  BY <1>a DEF SparseCut
<1>4. /\ w.capacity = C /\ w.num = m.num - 1
      /\ w.nodes = [j \in 1 .. L - 1 |-> [key |-> K(u(j)), next |-> d(N(u(j)))]]
  BY <1>a, <1>1, SparseDropNodes
<1>. HIDE DEF L, C, K, N
<1>5. \A j \in 1 .. L - 1 : u(j) \in 1 .. L /\ u(j) # c /\ d(u(j)) = j
  BY <1>1
<1>6. \A x \in 1 .. L : x # c => d(x) \in 1 .. L - 1 /\ u(d(x)) = x
  BY <1>1
<1>7. d(0) = 0 /\ \A x, y \in 1 .. L : x # c /\ y # c /\ x < y => d(x) < d(y)
  BY <1>1
<1>8. /\ \A x \in C + 1 .. L : x # c => d(x) \in C + 1 .. L - 1
      /\ \A i \in C + 1 .. L - 1 : u(i) \in C + 1 .. L /\ u(i) # c /\ i \in 1 .. L - 1
      /\ \A p \in 1 .. C : u(p) = p /\ p \in 1 .. L - 1
      /\ \A i \in C + 1 .. L : i \in 1 .. L
      /\ C <= L - 1 /\ L - 1 \in Nat
  BY <1>1
<1>9. \A x \in Nat : x <= L /\ x # c => d(x) \in Nat
  BY <1>1
<1>10. \A j \in 1 .. L - 1 : N(u(j)) \in Nat /\ N(u(j)) <= L /\ N(u(j)) # c
                             /\ (N(u(j)) # 0 => N(u(j)) \in 1 .. L)
  BY <1>1, <1>2, <1>3, <1>5, <1>8
<1>. HIDE DEF u, d
<1>11. \A j \in 1 .. L - 1 : w.nodes[j].key = K(u(j)) /\ w.nodes[j].next = d(N(u(j)))
  BY <1>4
<1>12. w.nodes \in Seq(SparseNode) /\ Len(w.nodes) = L - 1
  <2>1. \A j \in 1 .. L - 1 : [key |-> K(u(j)), next |-> d(N(u(j)))] \in SparseNode
    BY <1>2, <1>5, <1>9, <1>10 DEF SparseNode
  <2>. QED
    BY <1>4, <1>8, <2>1
<1>13. \A x : Sparse!First(w, x) = Sparse!First(m, x)
  BY <1>4, SparseFirst DEF C
<1>14. SparseShape(w)
  <2>1. PICK M : M = L - 1
    OBVIOUS
  <2>2. w.capacity = C /\ C \in Nat /\ C <= M /\ Len(w.nodes) = M /\ w.nodes \in Seq(SparseNode)
    BY <1>1, <1>4, <1>8, <1>12, <2>1
  <2>3. \A j \in 1 .. M : w.nodes[j].key = 0 => w.nodes[j].next = 0
    BY <1>3, <1>5, <1>7, <1>11, <2>1
  <2>4. ASSUME NEW j \in 1 .. M, w.nodes[j].next # 0
        PROVE  /\ w.nodes[j].next \in C + 1 .. M /\ w.nodes[j].next > j
               /\ Sparse!First(w, w.nodes[w.nodes[j].next].key) = Sparse!First(w, w.nodes[j].key)
    <3>. DEFINE x == N(u(j))
    <3>1. j \in 1 .. L - 1 /\ w.nodes[j].next = d(x) /\ w.nodes[j].key = K(u(j))
      BY <1>11, <2>1
    <3>2. x # 0 /\ u(j) \in 1 .. L /\ u(j) # c /\ d(u(j)) = j
      BY <1>5, <1>7, <2>4, <3>1
    <3>3. x \in C + 1 .. L /\ x > u(j) /\ x # c /\ x \in 1 .. L
          /\ Sparse!First(m, K(x)) = Sparse!First(m, K(u(j)))
      BY <1>3, <1>8, <3>2
    <3>. HIDE DEF x
    <3>4. d(x) \in C + 1 .. L - 1 /\ d(x) \in 1 .. L - 1 /\ u(d(x)) = x
      BY <1>6, <1>8, <3>3
    <3>5. d(u(j)) < d(x)
      BY <1>1, <1>7, <3>2, <3>3
    <3>6. d(x) > j
      BY <1>1, <3>1, <3>2, <3>4, <3>5
    <3>7. w.nodes[d(x)].key = K(x)
      BY <1>11, <3>4
    <3>. QED
      BY <1>13, <2>1, <3>1, <3>3, <3>4, <3>6, <3>7
  <2>5. ASSUME NEW i \in C + 1 .. M
        PROVE  /\ w.nodes[i].key # 0
               /\ \E p \in 1 .. M : \A q \in 1 .. M : w.nodes[q].next = i <=> q = p
    <3>1. u(i) \in C + 1 .. L /\ u(i) # c /\ i \in 1 .. L - 1 /\ u(i) \in 1 .. L /\ d(u(i)) = i
      BY <1>5, <1>8, <2>1
    <3>2. PICK p \in 1 .. L : p # c /\ \A q \in 1 .. L : q # c => (N(q) = u(i) <=> q = p)
      BY <1>3, <3>1
    <3>3. d(p) \in 1 .. L - 1 /\ u(d(p)) = p
      BY <1>6, <3>2
    <3>4. ASSUME NEW q \in 1 .. L - 1 PROVE d(N(u(q))) = i <=> q = d(p)
      <4>1. d(N(u(q))) = i <=> N(u(q)) = u(i)
        <5>1. ASSUME d(N(u(q))) = i PROVE N(u(q)) = u(i)
          <6>1. N(u(q)) # 0
            BY <1>1, <1>7, <3>1, <5>1
          <6>2. N(u(q)) \in 1 .. L /\ N(u(q)) # c
            BY <1>10, <6>1
          <6>. QED
            BY <1>6, <5>1, <6>2
        <5>. QED
          BY <3>1, <5>1
      <4>2. N(u(q)) = u(i) <=> u(q) = p
        BY <1>5, <3>2
      <4>3. u(q) = p <=> q = d(p)
        BY <1>5, <3>3
      <4>. QED
        BY <4>1, <4>2, <4>3
    <3>5. w.nodes[i].key # 0
      BY <1>3, <1>11, <3>1
    <3>. QED
      BY <1>11, <2>1, <3>3, <3>4, <3>5
  <2>6. \A p \in 1 .. C : w.nodes[p].key # 0 => Sparse!First(w, w.nodes[p].key) = p
    BY <1>3, <1>8, <1>11, <1>13
  <2>7. ASSUME NEW p \in 1 .. M, NEW q \in 1 .. M, w.nodes[p].key # 0, w.nodes[p].key = w.nodes[q].key
        PROVE  p = q
    <3>1. p \in 1 .. L - 1 /\ q \in 1 .. L - 1
      BY <2>1
    <3>2. u(p) = u(q)
      BY <1>3, <1>5, <1>11, <2>7, <3>1
    <3>. QED
      BY <1>5, <3>1, <3>2
  <2>. QED
    BY <2>2, <2>3, <2>4, <2>5, <2>6, <2>7 DEF SparseShape
<1>15. ASSUME NEW k \in Keys
       PROVE  k \in SparseKeys(w) <=> \E p \in 1 .. L : p # c /\ K(p) = k
  <2>1. k \in SparseKeys(w) <=> \E j \in 1 .. L - 1 : w.nodes[j].key = k
    BY <1>12, <1>14, SparseKeysAt
  <2>2. ASSUME NEW j \in 1 .. L - 1, w.nodes[j].key = k
        PROVE  \E p \in 1 .. L : p # c /\ K(p) = k
    BY <1>5, <1>11, <2>2
  <2>3. ASSUME NEW p \in 1 .. L, p # c, K(p) = k
        PROVE  \E j \in 1 .. L - 1 : w.nodes[j].key = k
    BY <1>6, <1>11, <2>3
  <2>. QED
    BY <2>1, <2>2, <2>3
<1>. QED
  BY <1>4, <1>14, <1>15 DEF C, L, K

(* The result of a removal of the key of one node, as both ways of removing it give it. *)
LEMMA SparseDropped ==
    ASSUME NEW m, NEW s, NEW c, NEW k, SparseInv(m), k \in SparseKeys(m), SparseCut(m, s, c),
           \A x \in Keys : (\E p \in 1 .. Len(s) : p # c /\ s[p].key = x) <=> x \in SparseKeys(m) \ {k}
    PROVE  /\ SparseInv(Sparse!Drop(m, s, c))
           /\ SparseKeys(Sparse!Drop(m, s, c)) = SparseKeys(m) \ {k}
<1>1. PICK w : w = Sparse!Drop(m, s, c)
  OBVIOUS
<1>2. /\ SparseShape(w) /\ w.capacity = m.capacity /\ w.num = m.num - 1
      /\ \A x \in Keys : x \in SparseKeys(w) <=> \E p \in 1 .. Len(s) : p # c /\ s[p].key = x
  BY <1>1, SparseDrop
<1>3. SparseKeys(w) \subseteq Keys /\ SparseKeys(m) \subseteq Keys
  BY <1>2, SparseKeysAt DEF SparseInv
<1>4. SparseKeys(w) = SparseKeys(m) \ {k}
  BY <1>2, <1>3
<1>5. SparseInv(w)
  BY <1>2, <1>4, SparseShrunk
<1>. QED
  BY <1>1, <1>4, <1>5

(* What the node at p has in its chain. *)
LEMMA SparseAround ==
    ASSUME NEW m, SparseShape(m), NEW p \in 1 .. Len(m.nodes), m.nodes[p].next # 0
    PROVE  /\ \A q \in 1 .. Len(m.nodes) : m.nodes[q].next = m.nodes[p].next => q = p
           /\ \A x \in Keys : x \in SparseKeys(m) <=> \E q \in 1 .. Len(m.nodes) : m.nodes[q].key = x
           /\ \A q \in 1 .. Len(m.nodes) : m.nodes[q].key # 0 => m.nodes[q].key \in SparseKeys(m)
<1>1. m.nodes[p].next \in m.capacity + 1 .. Len(m.nodes)
  BY DEF SparseShape
<1>2. \A q \in 1 .. Len(m.nodes) : m.nodes[q].next = m.nodes[p].next => q = p
  BY <1>1 DEF SparseShape
<1>3. \A x \in Keys : x \in SparseKeys(m) <=> \E q \in 1 .. Len(m.nodes) : m.nodes[q].key = x
  BY SparseKeysAt
<1>4. \A q \in 1 .. Len(m.nodes) : m.nodes[q].key # 0 => m.nodes[q].key \in SparseKeys(m)
  BY <1>3, SparseFacts
<1>. QED
  BY <1>2, <1>3, <1>4

(* The child moves into the place of the node. *)
LEMMA SparseMoveChild ==
    ASSUME NEW m, SparseInv(m), NEW p \in 1 .. Len(m.nodes), m.nodes[p].next # 0
    PROVE  /\ SparseInv(Sparse!MoveChild(m, p))
           /\ SparseKeys(Sparse!MoveChild(m, p)) = SparseKeys(m) \ {m.nodes[p].key}
           /\ m.nodes[p].key \in SparseKeys(m)
<1>. DEFINE L == Len(m.nodes)
            C == m.capacity
            K(q) == m.nodes[q].key
            N(q) == m.nodes[q].next
            c == N(p)
            s == [m.nodes EXCEPT ![p] = m.nodes[c]]
            F(x) == Sparse!First(m, x)
<1>1. SparseShape(m)
  BY DEF SparseInv
<1>2. /\ C \in Nat /\ L \in Nat /\ C <= L /\ DOMAIN m.nodes = 1 .. L
      /\ \A q \in 1 .. L : K(q) \in Keys \cup {0} /\ N(q) \in Nat
      /\ \A x \in Keys : x # 0
  BY <1>1, SparseFacts
<1>3. /\ m.nodes \in Seq(SparseNode)
      /\ \A q \in 1 .. L : K(q) = 0 => N(q) = 0
      /\ \A q \in 1 .. L : N(q) # 0 => N(q) \in C + 1 .. L /\ N(q) > q /\ F(K(N(q))) = F(K(q))
      /\ \A i \in C + 1 .. L : K(i) # 0 /\ \E r \in 1 .. L : \A q \in 1 .. L : N(q) = i <=> q = r
      /\ \A q \in 1 .. C : K(q) # 0 => F(K(q)) = q
      /\ \A q, r \in 1 .. L : K(q) # 0 /\ K(q) = K(r) => q = r
  BY <1>1 DEF SparseShape
<1>4. /\ c \in C + 1 .. L /\ c > p /\ c \in 1 .. L /\ K(c) # 0 /\ K(p) # 0 /\ F(K(c)) = F(K(p))
      /\ c # p /\ p \in 1 .. L
  BY <1>2, <1>3
<1>5. /\ \A q \in 1 .. L : N(q) = c => q = p
      /\ \A x \in Keys : x \in SparseKeys(m) <=> \E q \in 1 .. L : K(q) = x
      /\ K(p) \in SparseKeys(m)
  BY <1>1, <1>4, SparseAround
<1>6. s \in Seq(SparseNode) /\ Len(s) = L
  <2>1. m.nodes[c] \in SparseNode
    BY <1>3, <1>4, LenProperties
  <2>. QED
    BY <1>3, <2>1, ExceptSeq
<1>7. \A q \in 1 .. L : s[q] = IF q = p THEN m.nodes[c] ELSE m.nodes[q]
  BY <1>2
<1>8. Sparse!MoveChild(m, p) = Sparse!Drop(m, s, c)
  BY DEF Sparse!MoveChild
<1>. HIDE DEF s
<1>9. /\ s[p].key = K(c) /\ s[p].next = N(c)
      /\ \A q \in 1 .. L : q # p => s[q].key = K(q) /\ s[q].next = N(q)
  BY <1>7
<1>. HIDE DEF L, C, K, N, c, F
<1>10. SparseCut(m, s, c)
  <2>1. \A q \in 1 .. L : q # c /\ s[q].key = 0 => s[q].next = 0
    BY <1>3, <1>4, <1>9
  <2>2. ASSUME NEW q \in 1 .. L, q # c, s[q].next # 0
        PROVE  /\ s[q].next \in C + 1 .. L /\ s[q].next > q /\ s[q].next # c
               /\ F(s[s[q].next].key) = F(s[q].key)
    <3>1. CASE q = p
      <4>1. s[q].next = N(c) /\ s[q].key = K(c) /\ N(c) # 0
        BY <1>9, <2>2, <3>1
      <4>2. N(c) \in C + 1 .. L /\ N(c) > c /\ F(K(N(c))) = F(K(c))
        BY <1>3, <1>4, <4>1
      <4>3. N(c) \in 1 .. L /\ N(c) # p /\ N(c) # c /\ N(c) > p
        BY <1>2, <1>4, <4>2
      <4>4. s[N(c)].key = K(N(c))
        BY <1>9, <4>3
      <4>. QED
        BY <3>1, <4>1, <4>2, <4>3, <4>4
    <3>2. CASE q # p
      <4>1. s[q].next = N(q) /\ s[q].key = K(q) /\ N(q) # 0
        BY <1>9, <2>2, <3>2
      <4>2. N(q) \in C + 1 .. L /\ N(q) > q /\ F(K(N(q))) = F(K(q)) /\ N(q) # c
        BY <1>3, <1>5, <3>2, <4>1
      <4>3. N(q) \in 1 .. L
        BY <1>2, <4>2
      <4>4. F(s[N(q)].key) = F(K(N(q)))
        BY <1>4, <1>9, <4>3
      <4>. QED
        BY <4>1, <4>2, <4>4
    <3>. QED
      BY <3>1, <3>2
  <2>3. ASSUME NEW i \in C + 1 .. L, i # c
        PROVE  /\ s[i].key # 0
               /\ \E r \in 1 .. L : r # c /\ \A q \in 1 .. L : q # c => (s[q].next = i <=> q = r)
    <3>1. i \in 1 .. L /\ K(i) # 0
      BY <1>2, <1>3
    <3>2. s[i].key # 0
      BY <1>4, <1>9, <3>1
    <3>3. PICK r \in 1 .. L : \A q \in 1 .. L : N(q) = i <=> q = r
      BY <1>3
    <3>4. N(p) = c
      BY DEF c
    <3>5. r # p
      BY <2>3, <3>3, <3>4
    <3>6. CASE r = c
      <4>1. \A q \in 1 .. L : q # c => (s[q].next = i <=> q = p)
        BY <1>4, <1>9, <3>3, <3>6
      <4>. QED
        BY <1>4, <3>2, <4>1
    <3>7. CASE r # c
      <4>1. \A q \in 1 .. L : q # c => (s[q].next = i <=> q = r)
        BY <1>4, <1>9, <3>3, <3>5, <3>7
      <4>. QED
        BY <3>2, <3>7, <4>1
    <3>. QED
      BY <3>6, <3>7
  <2>4. \A q \in 1 .. C : s[q].key # 0 => F(s[q].key) = q
    <3>1. \A q \in 1 .. C : q \in 1 .. L
      BY <1>2
    <3>. QED
      BY <1>3, <1>4, <1>9, <3>1
  <2>5. \A q, r \in 1 .. L : q # c /\ r # c /\ s[q].key # 0 /\ s[q].key = s[r].key => q = r
    BY <1>3, <1>4, <1>9
  <2>. QED
    <3>1. m.capacity = C /\ Len(s) = L /\ \A x : Sparse!First(m, x) = F(x)
      BY <1>6 DEF C, F
    <3>2. /\ m.capacity \in Nat /\ s \in Seq(SparseNode) /\ c \in m.capacity + 1 .. Len(s)
          /\ \A q \in 1 .. Len(s) : q # c /\ s[q].key = 0 => s[q].next = 0
      BY <1>2, <1>4, <1>6, <2>1, <3>1
    <3>3. \A q \in 1 .. Len(s) : q # c /\ s[q].next # 0 =>
             /\ s[q].next \in m.capacity + 1 .. Len(s) /\ s[q].next > q /\ s[q].next # c
             /\ Sparse!First(m, s[s[q].next].key) = Sparse!First(m, s[q].key)
      BY <2>2, <3>1
    <3>4. \A i \in m.capacity + 1 .. Len(s) : i # c =>
             /\ s[i].key # 0
             /\ \E r \in 1 .. Len(s) : r # c /\ \A q \in 1 .. Len(s) : q # c => (s[q].next = i <=> q = r)
      BY <2>3, <3>1
    <3>5. /\ \A q \in 1 .. m.capacity : s[q].key # 0 => Sparse!First(m, s[q].key) = q
          /\ \A q, r \in 1 .. Len(s) : q # c /\ r # c /\ s[q].key # 0 /\ s[q].key = s[r].key => q = r
      BY <2>4, <2>5, <3>1
    <3>. QED
      BY <3>2, <3>3, <3>4, <3>5, Zenon DEF SparseCut
<1>11. ASSUME NEW x \in Keys
       PROVE  (\E q \in 1 .. L : q # c /\ s[q].key = x) <=> x \in SparseKeys(m) \ {K(p)}
  <2>1. ASSUME NEW q \in 1 .. L, q # c, s[q].key = x
        PROVE  x \in SparseKeys(m) \ {K(p)}
    <3>1. CASE q = p
      BY <1>3, <1>4, <1>5, <1>9, <2>1, <3>1
    <3>2. CASE q # p
      BY <1>3, <1>4, <1>5, <1>9, <2>1, <3>2
    <3>. QED
      BY <3>1, <3>2
  <2>2. ASSUME NEW q \in 1 .. L, K(q) = x, x # K(p)
        PROVE  \E r \in 1 .. L : r # c /\ s[r].key = x
    BY <1>4, <1>9, <2>2
  <2>. QED
    BY <1>5, <2>1, <2>2
<1>12. /\ SparseInv(Sparse!Drop(m, s, c))
       /\ SparseKeys(Sparse!Drop(m, s, c)) = SparseKeys(m) \ {K(p)}
  BY <1>5, <1>6, <1>10, <1>11, SparseDropped
<1>. QED
  BY <1>5, <1>8, <1>12 DEF K

(* The last node of a chain, the one after p, is cut off. *)
LEMMA SparseCutTail ==
    ASSUME NEW m, SparseInv(m), NEW p \in 1 .. Len(m.nodes), m.nodes[p].next # 0,
           m.nodes[m.nodes[p].next].next = 0
    PROVE  /\ SparseInv(Sparse!CutTail(m, p))
           /\ SparseKeys(Sparse!CutTail(m, p)) = SparseKeys(m) \ {m.nodes[m.nodes[p].next].key}
           /\ m.nodes[m.nodes[p].next].key \in SparseKeys(m)
<1>. DEFINE L == Len(m.nodes)
            C == m.capacity
            K(q) == m.nodes[q].key
            N(q) == m.nodes[q].next
            c == N(p)
            s == [m.nodes EXCEPT ![p].next = Sparse!End]
            F(x) == Sparse!First(m, x)
<1>1. SparseShape(m)
  BY DEF SparseInv
<1>2. /\ C \in Nat /\ L \in Nat /\ C <= L /\ DOMAIN m.nodes = 1 .. L
      /\ \A q \in 1 .. L : K(q) \in Keys \cup {0} /\ N(q) \in Nat
      /\ \A q \in 1 .. L : m.nodes[q] = [key |-> K(q), next |-> N(q)]
      /\ \A x \in Keys : x # 0
  BY <1>1, SparseFacts
<1>3. /\ m.nodes \in Seq(SparseNode)
      /\ \A q \in 1 .. L : K(q) = 0 => N(q) = 0
      /\ \A q \in 1 .. L : N(q) # 0 => N(q) \in C + 1 .. L /\ N(q) > q /\ F(K(N(q))) = F(K(q))
      /\ \A i \in C + 1 .. L : K(i) # 0 /\ \E r \in 1 .. L : \A q \in 1 .. L : N(q) = i <=> q = r
      /\ \A q \in 1 .. C : K(q) # 0 => F(K(q)) = q
      /\ \A q, r \in 1 .. L : K(q) # 0 /\ K(q) = K(r) => q = r
  BY <1>1 DEF SparseShape
<1>4. /\ c \in C + 1 .. L /\ c > p /\ c \in 1 .. L /\ K(c) # 0 /\ K(p) # 0
      /\ c # p /\ N(c) = 0
  BY <1>2, <1>3
<1>5. /\ \A q \in 1 .. L : N(q) = c => q = p
      /\ \A x \in Keys : x \in SparseKeys(m) <=> \E q \in 1 .. L : K(q) = x
      /\ K(c) \in SparseKeys(m)
  BY <1>1, <1>4, SparseAround
<1>6. s = [m.nodes EXCEPT ![p] = [key |-> K(p), next |-> 0]]
  <2>1. PICK t : t = m.nodes
    OBVIOUS
  <2>2. t[p] = [key |-> K(p), next |-> N(p)] /\ p \in DOMAIN t
    BY <1>2, <2>1
  <2>. HIDE DEF K, N
  <2>3. [t EXCEPT ![p].next = 0] = [t EXCEPT ![p] = [t[p] EXCEPT !.next = 0]]
    BY Zenon
  <2>4. [t[p] EXCEPT !.next = 0] = [key |-> K(p), next |-> 0]
    BY <2>2
  <2>. QED
    BY <2>1, <2>3, <2>4 DEF Sparse!End
<1>7. s \in Seq(SparseNode) /\ Len(s) = L
  <2>1. [key |-> K(p), next |-> 0] \in SparseNode
    BY <1>2 DEF SparseNode
  <2>. HIDE DEF s, K
  <2>. QED
    BY <1>3, <1>6, <2>1, ExceptSeq
<1>8. Sparse!CutTail(m, p) = Sparse!Drop(m, s, c)
  BY DEF Sparse!CutTail
<1>. HIDE DEF s
<1>9. /\ s[p].key = K(p) /\ s[p].next = 0
      /\ \A q \in 1 .. L : q # p => s[q].key = K(q) /\ s[q].next = N(q)
  BY <1>2, <1>6
<1>. HIDE DEF L, C, K, N, c, F
<1>10. SparseCut(m, s, c)
  <2>1. \A q \in 1 .. L : q # c /\ s[q].key = 0 => s[q].next = 0
    BY <1>3, <1>4, <1>9
  <2>2. ASSUME NEW q \in 1 .. L, q # c, s[q].next # 0
        PROVE  /\ s[q].next \in C + 1 .. L /\ s[q].next > q /\ s[q].next # c
               /\ F(s[s[q].next].key) = F(s[q].key)
    <3>1. q # p /\ s[q].next = N(q) /\ s[q].key = K(q) /\ N(q) # 0
      BY <1>9, <2>2
    <3>2. N(q) \in C + 1 .. L /\ N(q) > q /\ F(K(N(q))) = F(K(q)) /\ N(q) # c
      BY <1>3, <1>5, <3>1
    <3>3. N(q) \in 1 .. L
      BY <1>2, <3>2
    <3>4. s[N(q)].key = K(N(q))
      BY <1>9, <3>3
    <3>. QED
      BY <3>1, <3>2, <3>4
  <2>3. ASSUME NEW i \in C + 1 .. L, i # c
        PROVE  /\ s[i].key # 0
               /\ \E r \in 1 .. L : r # c /\ \A q \in 1 .. L : q # c => (s[q].next = i <=> q = r)
    <3>1. i \in 1 .. L /\ K(i) # 0 /\ i # 0
      BY <1>2, <1>3
    <3>2. s[i].key # 0
      BY <1>4, <1>9, <3>1
    <3>3. PICK r \in 1 .. L : \A q \in 1 .. L : N(q) = i <=> q = r
      BY <1>3
    <3>4. N(p) = c
      BY DEF c
    <3>5. r # p /\ r # c
      BY <1>4, <2>3, <3>1, <3>3, <3>4
    <3>6. \A q \in 1 .. L : q # c => (s[q].next = i <=> q = r)
      BY <1>9, <3>1, <3>3, <3>5
    <3>. QED
      BY <3>2, <3>5, <3>6
  <2>4. \A q \in 1 .. C : s[q].key # 0 => F(s[q].key) = q
    <3>1. \A q \in 1 .. C : q \in 1 .. L
      BY <1>2
    <3>. QED
      BY <1>3, <1>9, <3>1
  <2>5. \A q, r \in 1 .. L : q # c /\ r # c /\ s[q].key # 0 /\ s[q].key = s[r].key => q = r
    BY <1>3, <1>9
  <2>. QED
    <3>1. m.capacity = C /\ Len(s) = L /\ \A x : Sparse!First(m, x) = F(x)
      BY <1>7 DEF C, F
    <3>2. /\ m.capacity \in Nat /\ s \in Seq(SparseNode) /\ c \in m.capacity + 1 .. Len(s)
          /\ \A q \in 1 .. Len(s) : q # c /\ s[q].key = 0 => s[q].next = 0
      BY <1>2, <1>4, <1>7, <2>1, <3>1
    <3>3. \A q \in 1 .. Len(s) : q # c /\ s[q].next # 0 =>
             /\ s[q].next \in m.capacity + 1 .. Len(s) /\ s[q].next > q /\ s[q].next # c
             /\ Sparse!First(m, s[s[q].next].key) = Sparse!First(m, s[q].key)
      BY <2>2, <3>1
    <3>4. \A i \in m.capacity + 1 .. Len(s) : i # c =>
             /\ s[i].key # 0
             /\ \E r \in 1 .. Len(s) : r # c /\ \A q \in 1 .. Len(s) : q # c => (s[q].next = i <=> q = r)
      BY <2>3, <3>1
    <3>5. /\ \A q \in 1 .. m.capacity : s[q].key # 0 => Sparse!First(m, s[q].key) = q
          /\ \A q, r \in 1 .. Len(s) : q # c /\ r # c /\ s[q].key # 0 /\ s[q].key = s[r].key => q = r
      BY <2>4, <2>5, <3>1
    <3>. QED
      BY <3>2, <3>3, <3>4, <3>5, Zenon DEF SparseCut
<1>11. ASSUME NEW x \in Keys
       PROVE  (\E q \in 1 .. L : q # c /\ s[q].key = x) <=> x \in SparseKeys(m) \ {K(c)}
  <2>1. \A q \in 1 .. L : s[q].key = K(q)
    BY <1>9
  <2>2. ASSUME NEW q \in 1 .. L, q # c, K(q) = x
        PROVE  x \in SparseKeys(m) \ {K(c)}
    BY <1>2, <1>3, <1>4, <1>5, <2>2
  <2>3. ASSUME NEW q \in 1 .. L, K(q) = x, x # K(c)
        PROVE  \E r \in 1 .. L : r # c /\ s[r].key = x
    BY <2>1, <2>3
  <2>. QED
    BY <1>5, <2>1, <2>2, <2>3
<1>12. /\ SparseInv(Sparse!Drop(m, s, c))
       /\ SparseKeys(Sparse!Drop(m, s, c)) = SparseKeys(m) \ {K(c)}
  BY <1>5, <1>7, <1>10, <1>11, SparseDropped
<1>. QED
  BY <1>5, <1>8, <1>12 DEF K, N, c

(* What a removal of k may give: [map, found]. *)
SparseRemoved(m, k, r) ==
    /\ r.found \in BOOLEAN /\ SparseInv(r.map)
    /\ r.found => k \in SparseKeys(m) /\ SparseKeys(r.map) = SparseKeys(m) \ {k}
    /\ ~r.found => r.map = m

(* NotFound is such a result, and so is Found of a map without k. *)
LEMMA SparseResults ==
    ASSUME NEW m, NEW k
    PROVE  /\ SparseInv(m) => SparseRemoved(m, k, Sparse!NotFound(m))
           /\ \A w : SparseInv(w) /\ k \in SparseKeys(m) /\ SparseKeys(w) = SparseKeys(m) \ {k}
                     => SparseRemoved(m, k, Sparse!Found(w))
BY DEF SparseRemoved, Sparse!NotFound, Sparse!Found

(* The search behind the head of a chain. *)
LEMMA SparseRemoveNode ==
    ASSUME NEW m, NEW k, SparseInv(m), NEW p \in 1 .. Len(m.nodes)
    PROVE  SparseRemoved(m, k, Sparse!RemoveCollisionNode(m, p, k))
<1>. DEFINE L == Len(m.nodes)
            K(q) == m.nodes[q].key
            N(q) == m.nodes[q].next
            S == {q \in 1 .. L : N(q) = 0 \/ K(N(q)) = k \/ N(N(q)) = 0}
            a == [q \in 1 .. L |-> IF N(q) = 0 \/ K(N(q)) # k THEN Sparse!NotFound(m)
                                   ELSE IF N(N(q)) = 0 THEN Sparse!Found(Sparse!CutTail(m, q))
                                   ELSE Sparse!Found(Sparse!MoveChild(m, N(q)))]
            nx == [q \in 1 .. L |-> N(N(q))]
            Step(f, q) ==
                IF N(q) = Sparse!End THEN Sparse!NotFound(m)
                ELSE IF K(N(q)) # k
                THEN IF N(N(q)) = Sparse!End THEN Sparse!NotFound(m) ELSE f[N(N(q))]
                ELSE Sparse!Found(IF N(N(q)) = Sparse!End THEN Sparse!CutTail(m, q)
                                  ELSE Sparse!MoveChild(m, N(q)))
            Search(f) == f = [q \in DOMAIN m.nodes |-> Step(f, q)]
            removed == CHOOSE f : Search(f)
<1>1. SparseShape(m) /\ L \in Nat /\ DOMAIN m.nodes = 1 .. L
  BY SparseFacts DEF SparseInv
<1>2. Sparse!RemoveCollisionNode(m, p, k) = removed[p]
  BY DEF Sparse!RemoveCollisionNode, Sparse!Child
<1>3. ASSUME NEW q \in 1 .. L, N(q) # 0
      PROVE  N(q) \in 1 .. L /\ N(q) > q /\ (N(N(q)) # 0 => N(N(q)) \in 1 .. L /\ N(N(q)) > q)
  <2>1. N(q) \in 1 .. L /\ N(q) > q
    BY <1>1, <1>3, SparseLink
  <2>2. N(N(q)) # 0 => N(N(q)) \in 1 .. L /\ N(N(q)) > N(q)
    BY <1>1, <2>1, SparseLink
  <2>. QED
    BY <1>1, <2>1, <2>2
<1>4. Onward(L, S, nx)
  <2>1. ASSUME NEW q \in 1 .. L, q \notin S PROVE nx[q] \in 1 .. L /\ nx[q] > q
    <3>1. N(q) # 0 /\ N(N(q)) # 0 /\ nx[q] = N(N(q))
      BY <2>1
    <3>. QED
      BY <1>3, <3>1
  <2>. QED
    BY <2>1 DEF Onward
<1>5. ASSUME NEW f, NEW q \in 1 .. L
      PROVE  Step(f, q) = IF q \in S THEN a[q] ELSE f[nx[q]]
  <2>. HIDE DEF K, N
  <2>. QED
    BY DEF Sparse!End
<1>. HIDE DEF Step
<1>6. ASSUME NEW f PROVE Chase(f, L, S, a, nx) <=> Search(f)
  <2>. HIDE DEF S, a, nx, L
  <2>. QED
    BY <1>1, <1>5, Zenon DEF Chase
<1>7. Chase(removed, L, S, a, nx)
  <2>1. \E f : Chase(f, L, S, a, nx)
    <3>. HIDE DEF S, a, nx, L
    <3>. QED
      BY <1>1, <1>4, TailRecursionExists
  <2>2. \E f : Search(f)
    BY <1>6, <2>1
  <2>3. Search(removed)
    BY <2>2
  <2>. QED
    BY <1>6, <2>3
<1>. HIDE DEF removed, Search
<1>8. PICK q \in 1 .. L : q \in S /\ removed[p] = a[q]
  <2>1. PICK I : I = 1 .. L
    OBVIOUS
  <2>2. \A r \in I : r \notin S => nx[r] \in I
    BY <1>4, <2>1 DEF Onward
  <2>3. I \in SUBSET (1 .. L) /\ p \in I
    BY <2>1
  <2>. HIDE DEF S, a, nx, L
  <2>4. \E r \in I : r \in S /\ removed[p] = a[r]
    BY <1>1, <1>4, <1>7, <2>2, <2>3, TailRecursionEnds
  <2>. QED
    BY <2>1, <2>4
<1>9. CASE N(q) = 0 \/ K(N(q)) # k
  <2>1. removed[p] = Sparse!NotFound(m)
    BY <1>8, <1>9
  <2>. QED
    BY <1>2, <2>1, SparseResults
<1>10. CASE N(q) # 0 /\ K(N(q)) = k /\ N(N(q)) = 0
  <2>1. removed[p] = Sparse!Found(Sparse!CutTail(m, q))
    BY <1>8, <1>10
  <2>2. /\ SparseInv(Sparse!CutTail(m, q))
        /\ SparseKeys(Sparse!CutTail(m, q)) = SparseKeys(m) \ {k} /\ k \in SparseKeys(m)
    BY <1>10, SparseCutTail
  <2>. QED
    BY <1>2, <2>1, <2>2, SparseResults
<1>11. CASE N(q) # 0 /\ K(N(q)) = k /\ N(N(q)) # 0
  <2>1. removed[p] = Sparse!Found(Sparse!MoveChild(m, N(q)))
    BY <1>8, <1>11
  <2>2. /\ SparseInv(Sparse!MoveChild(m, N(q)))
        /\ SparseKeys(Sparse!MoveChild(m, N(q))) = SparseKeys(m) \ {k} /\ k \in SparseKeys(m)
    BY <1>3, <1>11, SparseMoveChild
  <2>. QED
    BY <1>2, <2>1, <2>2, SparseResults
<1>. QED
  BY <1>9, <1>10, <1>11

(* The only node of a bucket goes. *)
LEMMA SparseClearHead ==
    ASSUME NEW m, NEW w, NEW p
    PROVE  /\ SparseShape(m) /\ p \in 1 .. m.capacity
           /\ m.nodes[p].key # 0 /\ m.nodes[p].next = 0
           /\ w.capacity = m.capacity /\ w.nodes = [m.nodes EXCEPT ![p] = Sparse!NoNode]
           => /\ SparseShape(w) /\ SparseKeys(w) = SparseKeys(m) \ {m.nodes[p].key}
              /\ m.nodes[p].key \in SparseKeys(m)
<1>a. SUFFICES
          ASSUME SparseShape(m), p \in 1 .. m.capacity, m.nodes[p].key # 0, m.nodes[p].next = 0,
                 w.capacity = m.capacity, w.nodes = [m.nodes EXCEPT ![p] = Sparse!NoNode]
          PROVE  /\ SparseShape(w) /\ SparseKeys(w) = SparseKeys(m) \ {m.nodes[p].key}
                 /\ m.nodes[p].key \in SparseKeys(m)
  BY Zenon
<1>b. SparseShape(m) /\ p \in 1 .. m.capacity /\ m.nodes[p].key # 0 /\ m.nodes[p].next = 0
      /\ w.capacity = m.capacity
  BY <1>a
<1>. DEFINE L == Len(m.nodes)
            C == m.capacity
            K(q) == m.nodes[q].key
            N(q) == m.nodes[q].next
<1>1. /\ C \in Nat /\ L \in Nat /\ C <= L /\ DOMAIN m.nodes = 1 .. L
      /\ \A q \in 1 .. L : K(q) \in Keys \cup {0} /\ N(q) \in Nat
      /\ \A q \in 1 .. L : K(q) # 0 => K(q) \in Keys
      /\ \A x \in Keys : x # 0
  BY <1>b, SparseFacts
<1>2. /\ m.nodes \in Seq(SparseNode)
      /\ \A q \in 1 .. L : K(q) = 0 => N(q) = 0
      /\ \A q \in 1 .. L : N(q) # 0 => /\ N(q) \in C + 1 .. L /\ N(q) > q
                                       /\ Sparse!First(m, K(N(q))) = Sparse!First(m, K(q))
      /\ \A i \in C + 1 .. L : K(i) # 0 /\ \E r \in 1 .. L : \A q \in 1 .. L : N(q) = i <=> q = r
      /\ \A q \in 1 .. C : K(q) # 0 => Sparse!First(m, K(q)) = q
      /\ \A q, r \in 1 .. L : K(q) # 0 /\ K(q) = K(r) => q = r
  BY <1>b DEF SparseShape
<1>3. p \in 1 .. L /\ p <= C /\ N(p) = 0 /\ K(p) # 0 /\ K(p) \in Keys
  BY <1>b, <1>1
<1>4. /\ w.nodes \in Seq(SparseNode) /\ Len(w.nodes) = L
      /\ \A q \in 1 .. L : q # p => w.nodes[q] = m.nodes[q]
      /\ w.nodes[p].key = 0 /\ w.nodes[p].next = 0
  <2>1. Sparse!NoNode = [key |-> 0, next |-> 0] /\ [key |-> 0, next |-> 0] \in SparseNode
    BY DEF Sparse!NoNode, Sparse!Node, Sparse!End, SparseNode
  <2>2. w.nodes = [m.nodes EXCEPT ![p] = [key |-> 0, next |-> 0]]
    BY <1>a, <2>1
  <2>3. w.nodes \in Seq(SparseNode) /\ Len(w.nodes) = L
    BY <1>2, <1>3, <2>1, <2>2, ExceptSeq
  <2>. QED
    BY <1>1, <1>3, <2>2, <2>3
<1>5. \A x : Sparse!First(w, x) = Sparse!First(m, x)
  BY <1>b, SparseFirst
<1>. HIDE DEF L, C, K, N
<1>6. \A q \in 1 .. L : /\ q # p => w.nodes[q].key = K(q)
                        /\ w.nodes[q].next = N(q)
  BY <1>3, <1>4 DEF K, N
<1>7. SparseShape(w)
  <2>1. w.capacity = C /\ C \in Nat /\ w.nodes \in Seq(SparseNode) /\ C <= L /\ Len(w.nodes) = L
    BY <1>b, <1>1, <1>4 DEF C
  <2>2. \A q \in 1 .. L : w.nodes[q].key = 0 => w.nodes[q].next = 0
    BY <1>2, <1>3, <1>6
  <2>3. ASSUME NEW q \in 1 .. L, w.nodes[q].next # 0
        PROVE  /\ w.nodes[q].next \in C + 1 .. L /\ w.nodes[q].next > q
               /\ Sparse!First(w, w.nodes[w.nodes[q].next].key) = Sparse!First(w, w.nodes[q].key)
    <3>1. N(q) # 0 /\ q # p /\ w.nodes[q].next = N(q)
      BY <1>3, <1>6, <2>3
    <3>2. N(q) \in C + 1 .. L /\ N(q) > q /\ Sparse!First(m, K(N(q))) = Sparse!First(m, K(q))
      BY <1>2, <3>1
    <3>3. N(q) \in 1 .. L /\ N(q) # p
      BY <1>1, <1>3, <3>2
    <3>. QED
      BY <1>5, <1>6, <3>1, <3>2, <3>3
  <2>4. ASSUME NEW i \in C + 1 .. L
        PROVE  /\ w.nodes[i].key # 0
               /\ \E r \in 1 .. L : \A q \in 1 .. L : w.nodes[q].next = i <=> q = r
    <3>1. i \in 1 .. L /\ i # p
      BY <1>1, <1>3
    <3>2. PICK r \in 1 .. L : \A q \in 1 .. L : N(q) = i <=> q = r
      BY <1>2
    <3>3. \A q \in 1 .. L : w.nodes[q].next = i <=> q = r
      BY <1>6, <3>2
    <3>4. w.nodes[i].key # 0
      BY <1>2, <1>6, <3>1
    <3>. QED
      BY <3>3, <3>4
  <2>5. \A q \in 1 .. C : w.nodes[q].key # 0 => Sparse!First(w, w.nodes[q].key) = q
    <3>1. \A q \in 1 .. C : q \in 1 .. L
      BY <1>1
    <3>. QED
      BY <1>2, <1>4, <1>5, <1>6, <3>1
  <2>6. \A q, r \in 1 .. L : w.nodes[q].key # 0 /\ w.nodes[q].key = w.nodes[r].key => q = r
    BY <1>2, <1>4, <1>6
  <2>. QED
    BY <2>1, <2>2, <2>3, <2>4, <2>5, <2>6 DEF SparseShape
<1>8. K(p) \in SparseKeys(m)
  BY <1>b, <1>3, SparseKeysAt DEF K, L
<1>9. ASSUME NEW x \in Keys
      PROVE  x \in SparseKeys(w) <=> x \in SparseKeys(m) \ {K(p)}
  <2>1. x \in SparseKeys(w) <=> \E q \in 1 .. L : w.nodes[q].key = x
    BY <1>4, <1>7, SparseKeysAt
  <2>2. x \in SparseKeys(m) <=> \E q \in 1 .. L : K(q) = x
    BY <1>b, SparseKeysAt DEF K, L
  <2>3. x # 0
    BY <1>1
  <2>. QED
    BY <1>2, <1>3, <1>4, <1>6, <2>1, <2>2, <2>3
<1>10. SparseKeys(w) \subseteq Keys /\ SparseKeys(m) \subseteq Keys
  BY <1>b, <1>7, SparseKeysAt
<1>. QED
  BY <1>7, <1>8, <1>9, <1>10 DEF K

(* Remove takes the key away if it reports to have found it, and does nothing otherwise. *)
LEMMA SparseRemoval ==
    ASSUME NEW m, NEW k \in Keys, SparseInv(m)
    PROVE  SparseRemoved(m, k, Sparse!Remove(m, k))
<1>. DEFINE p == Sparse!First(m, k)
            r == Sparse!Remove(m, k)
<1>1. /\ SparseShape(m) /\ m.capacity \in Nat /\ m.num \in Nat /\ m.num <= m.capacity
      /\ Len(m.nodes) \in Nat /\ m.capacity <= Len(m.nodes)
      /\ \A q \in 1 .. Len(m.nodes) : m.nodes[q].key # 0 <=> m.nodes[q] # Sparse!NoNode
      /\ k # 0
  BY SparseFacts, FS_CardinalityType DEF SparseInv
<1>2. m.num # 0 => p \in 1 .. m.capacity /\ p \in 1 .. Len(m.nodes)
  BY <1>1, SparseFirstRange
<1>. HIDE DEF p
<1>3. CASE m.num = 0
  <2>1. r = Sparse!NotFound(m)
    BY <1>3 DEF Sparse!Remove
  <2>. QED
    BY <2>1, SparseResults
<1>4. CASE m.num # 0 /\ m.nodes[p] = Sparse!NoNode
  <2>1. r = Sparse!NotFound(m)
    <3>1. m.nodes[p].key # k
      BY <1>1, <1>2, <1>4
    <3>. QED
      BY <1>4, <3>1 DEF Sparse!Remove, p
  <2>. QED
    BY <2>1, SparseResults
<1>5. CASE m.num # 0 /\ m.nodes[p] # Sparse!NoNode /\ m.nodes[p].key = k /\ m.nodes[p].next = 0
  <2>1. PICK w : w = [capacity |-> m.capacity, nodes |-> [m.nodes EXCEPT ![p] = Sparse!NoNode],
                      num |-> m.num - 1]
    OBVIOUS
  <2>2. r = Sparse!Found(w)
    BY <1>5, <2>1 DEF Sparse!Remove, Sparse!WithNodes, Sparse!End, p
  <2>3. /\ w.capacity = m.capacity /\ w.num = m.num - 1
        /\ w.nodes = [m.nodes EXCEPT ![p] = Sparse!NoNode]
    BY <2>1
  <2>4. SparseShape(w) /\ SparseKeys(w) = SparseKeys(m) \ {k} /\ k \in SparseKeys(m)
    <3>1. /\ SparseShape(m) /\ p \in 1 .. m.capacity /\ m.nodes[p].key # 0 /\ m.nodes[p].next = 0
          /\ m.nodes[p].key = k
      BY <1>1, <1>2, <1>5
    <3>2. /\ SparseShape(w) /\ SparseKeys(w) = SparseKeys(m) \ {m.nodes[p].key}
          /\ m.nodes[p].key \in SparseKeys(m)
      BY <2>3, <3>1, SparseClearHead, Zenon
    <3>. QED
      BY <3>1, <3>2
  <2>5. SparseInv(w)
    BY <2>3, <2>4, SparseShrunk
  <2>. QED
    BY <2>2, <2>4, <2>5, SparseResults
<1>6. CASE m.num # 0 /\ m.nodes[p] # Sparse!NoNode /\ m.nodes[p].key = k /\ m.nodes[p].next # 0
  <2>1. r = Sparse!Found(Sparse!MoveChild(m, p))
    BY <1>6 DEF Sparse!Remove, Sparse!End, p
  <2>2. /\ SparseInv(Sparse!MoveChild(m, p))
        /\ SparseKeys(Sparse!MoveChild(m, p)) = SparseKeys(m) \ {k} /\ k \in SparseKeys(m)
    BY <1>2, <1>6, SparseMoveChild
  <2>. QED
    BY <2>1, <2>2, SparseResults
<1>7. CASE m.num # 0 /\ m.nodes[p] # Sparse!NoNode /\ m.nodes[p].key # k
  <2>1. r = Sparse!RemoveCollisionNode(m, p, k)
    BY <1>7 DEF Sparse!Remove, Sparse!End, p
  <2>. QED
    BY <1>2, <1>7, <2>1, SparseRemoveNode
<1>. QED
  BY <1>3, <1>4, <1>5, <1>6, <1>7

(* Find finds the keys that are there. *)
LEMMA SparseFinds ==
    ASSUME NEW m, NEW k \in Keys, SparseInv(m)
    PROVE  Sparse!Find(m, k) <=> k \in SparseKeys(m)
<1>. DEFINE p == Sparse!First(m, k)
<1>1. /\ SparseShape(m) /\ m.capacity \in Nat /\ m.num \in Nat /\ m.num <= m.capacity
      /\ Len(m.nodes) \in Nat /\ m.capacity <= Len(m.nodes)
      /\ \A q \in 1 .. Len(m.nodes) : m.nodes[q].key # 0 <=> m.nodes[q] # Sparse!NoNode
      /\ IsFiniteSet(SparseKeys(m)) /\ m.num = Cardinality(SparseKeys(m)) /\ k # 0
  BY SparseFacts, FS_CardinalityType DEF SparseInv
<1>2. m.num # 0 => p \in 1 .. m.capacity /\ p \in 1 .. Len(m.nodes)
  BY <1>1, SparseFirstRange
<1>3. m.num = 0 => SparseKeys(m) = {}
  BY <1>1, FS_EmptySet
<1>4. ASSUME k \in SparseKeys(m) PROVE m.nodes[p].key # 0
  BY <1>1, <1>4, SparseHead, SparseKeysAt
<1>5. m.num # 0 /\ m.nodes[p].key # 0 =>
          (Sparse!FindCollisionNode(m, p, k) <=> k \in SparseKeys(m))
  BY <1>1, <1>2, SparseFind
<1>. HIDE DEF p
<1>. QED
  BY <1>1, <1>2, <1>3, <1>4, <1>5 DEF Sparse!Find, p

-----------------------------------------------------------------------------
(* The specification. *)

(* The representation of the map, and that its keys are the history's. *)
Inv ==
    /\ kind \in {"dense", "sparse"}
    /\ content \subseteq Keys
    /\ kind = "dense" => DenseInv(map) /\ DenseKeys(map) = content
    /\ kind = "sparse" => SparseInv(map) /\ SparseKeys(map) = content

(* The maps begin with an empty table. *)
LEMMA InitInv == Init => Inv
<1>. SUFFICES ASSUME Init PROVE Inv
  OBVIOUS
<1>1. CASE kind = "dense"
  BY <1>1, DenseCleared DEF Init, Inv
<1>2. CASE kind = "sparse"
  BY <1>2, SparseCleared DEF Init, Inv
<1>. QED
  BY <1>1, <1>2 DEF Init

(* Each operation keeps the invariant: Insert, *)
LEMMA InsertInv == ASSUME Inv, NEW k \in Keys, Insert(k) PROVE Inv'
<1>1. CASE kind = "dense"
  <2>1. DenseInv(map) /\ DenseKeys(map) = content /\ content \subseteq Keys
    BY <1>1 DEF Inv
  <2>2. /\ kind' = kind /\ map' = Dense!Insert(map, k) /\ content' = content \cup {k}
    BY <1>1 DEF Insert
  <2>3. DenseInv(map') /\ DenseKeys(map') = content'
    BY <2>1, <2>2, DenseInsertion
  <2>. QED
    BY <1>1, <2>1, <2>2, <2>3 DEF Inv
<1>2. CASE kind = "sparse"
  <2>1. SparseInv(map) /\ SparseKeys(map) = content /\ content \subseteq Keys
    BY <1>2 DEF Inv
  <2>2. /\ kind' = kind /\ map' = Sparse!Insert(map, k) /\ content' = content \cup {k}
    BY <1>2 DEF Insert
  <2>3. SparseInv(map') /\ SparseKeys(map') = content'
    BY <2>1, <2>2, SparseInsertion
  <2>. QED
    BY <1>2, <2>1, <2>2, <2>3 DEF Inv
<1>. QED
  BY <1>1, <1>2 DEF Inv

(* Remove, whose result the history follows, *)
LEMMA RemoveInv == ASSUME Inv, NEW k \in Keys, Remove(k) PROVE Inv'
<1>1. CASE kind = "dense"
  <2>1. DenseInv(map) /\ DenseKeys(map) = content /\ content \subseteq Keys
    BY <1>1 DEF Inv
  <2>2. /\ kind' = kind /\ map' = Dense!Remove(map, k)
        /\ content' = IF Dense!Find(map, k) THEN content \ {k} ELSE content
    BY <1>1 DEF Remove, RemoveResult
  <2>3. content' = content \ {k}
    BY <2>1, <2>2, DenseHits
  <2>4. DenseInv(map') /\ DenseKeys(map') = content'
    BY <2>1, <2>2, <2>3, DenseRemoval
  <2>. QED
    BY <1>1, <2>1, <2>2, <2>3, <2>4 DEF Inv
<1>2. CASE kind = "sparse"
  <2>1. SparseInv(map) /\ SparseKeys(map) = content /\ content \subseteq Keys
    BY <1>2 DEF Inv
  <2>2. PICK r : r = Sparse!Remove(map, k)
    OBVIOUS
  <2>3. /\ kind' = kind /\ map' = r.map
        /\ content' = IF r.found THEN content \ {k} ELSE content
    BY <1>2, <2>2 DEF Remove, RemoveResult
  <2>4. SparseRemoved(map, k, r)
    BY <2>1, <2>2, SparseRemoval
  <2>5. SparseInv(map') /\ SparseKeys(map') = content' /\ content' \subseteq Keys
    BY <2>1, <2>3, <2>4 DEF SparseRemoved
  <2>. QED
    BY <1>2, <2>3, <2>5 DEF Inv
<1>. QED
  BY <1>1, <1>2 DEF Inv

(* and Reset. *)
LEMMA ResetInv == ASSUME Inv, Reset PROVE Inv'
<1>1. CASE kind = "dense"
  <2>1. kind' = kind /\ map' = Dense!Cleared(Dense!Size(map)) /\ content' = {}
    BY <1>1 DEF Reset, Dense!Reset
  <2>2. Dense!Size(map) \in Nat
    BY <1>1 DEF Inv, DenseInv, DenseType
  <2>. QED
    BY <1>1, <2>1, <2>2, DenseCleared DEF Inv
<1>2. CASE kind = "sparse"
  <2>1. kind' = kind /\ map' = Sparse!Cleared(map.capacity) /\ content' = {}
    BY <1>2 DEF Reset, Sparse!Reset
  <2>2. map.capacity \in Nat
    BY <1>2 DEF Inv, SparseInv, SparseShape
  <2>. QED
    BY <1>2, <2>1, <2>2, SparseCleared DEF Inv
<1>. QED
  BY <1>1, <1>2 DEF Inv

(* So it always holds. *)
LEMMA SpecInv == Spec => []Inv
<1>1. Inv /\ [Next]_vars => Inv'
  <2>. SUFFICES ASSUME Inv, [Next]_vars PROVE Inv'
    OBVIOUS
  <2>1. CASE Reset
    BY <2>1, ResetInv
  <2>2. CASE \E k \in Keys : Insert(k) \/ Remove(k)
    BY <2>2, InsertInv, RemoveInv
  <2>3. CASE UNCHANGED vars
    BY <2>3 DEF vars, Inv
  <2>. QED
    BY <2>1, <2>2, <2>3 DEF Next
<1>. QED
  BY <1>1, InitInv, PTL DEF Spec

(* Of both maps and for every set of keys and every hash function, whatever sequence of Insert,
   Remove and Reset there has been: the lookup table of the dense map divides the array among
   the buckets; the links of the sparse one form one chain per bucket that ends, reaches every
   collision node and stays in its bucket; and num is the number of the nodes. *)
THEOREM AlwaysConsistent == Spec => []Consistent
<1>1. Inv => Consistent
  <2>1. ASSUME Inv, kind = "dense" PROVE Consistent
    BY <2>1 DEF Inv, DenseInv, Consistent
  <2>2. ASSUME Inv, kind = "sparse" PROVE Consistent
    BY <2>2, SparseConsistent DEF Inv, Consistent
  <2>. QED
    BY <2>1, <2>2 DEF Inv
<1>. QED
  BY <1>1, SpecInv, PTL

(* And the map has exactly the keys that were inserted and not reported as removed: Find finds
   these and no other, and an iterator visits each of them once. *)
THEOREM AlwaysContents == Spec => []Contents
<1>1. Inv => Contents
  <2>1. ASSUME Inv, kind = "dense" PROVE Contents
    <3>1. DenseInv(map) /\ DenseKeys(map) = content
      BY <2>1 DEF Inv
    <3>2. \A k \in Keys : Find(k) <=> k \in content
      BY <2>1, <3>1, DenseHits DEF Find
    <3>3. Visited = DOMAIN map.nodes /\ \A p : KeyAt(p) = map.nodes[p]
      BY <2>1 DEF Visited, KeyAt
    <3>4. {KeyAt(p) : p \in Visited} = content
      BY <3>1, <3>3 DEF DenseKeys
    <3>5. \A p, q \in Visited : KeyAt(p) = KeyAt(q) => p = q
      BY <3>1, <3>3 DEF DenseInv, DenseDistinct
    <3>. QED
      BY <3>2, <3>4, <3>5 DEF Contents
  <2>2. ASSUME Inv, kind = "sparse" PROVE Contents
    <3>1. SparseInv(map) /\ SparseKeys(map) = content /\ SparseShape(map)
      BY <2>2 DEF Inv, SparseInv
    <3>2. \A k \in Keys : Find(k) <=> k \in content
      BY <2>2, <3>1, SparseFinds DEF Find
    <3>3. Visited = Sparse!Visited(map) /\ \A p : KeyAt(p) = map.nodes[p].key
      BY <2>2 DEF Visited, KeyAt
    <3>4. {KeyAt(p) : p \in Visited} = content
      BY <3>1, <3>3 DEF SparseKeys
    <3>5. \A p, q \in Visited : KeyAt(p) = KeyAt(q) => p = q
      <4>1. Visited = {p \in 1 .. Len(map.nodes) : map.nodes[p].key # 0}
        BY <3>1, <3>3, SparseFacts
      <4>. QED
        BY <3>1, <3>3, <4>1 DEF SparseShape
    <3>. QED
      BY <3>2, <3>4, <3>5 DEF Contents
  <2>. QED
    BY <2>1, <2>2 DEF Inv
<1>. QED
  BY <1>1, SpecInv, PTL

(* The dense map keeps what the comment at ut_hashmap.h:741-742 says of Remove, which the sparse
   one does not: a key that is in the map is removed, and Remove says so. *)
THEOREM DenseRemoves == Spec => [](kind = "dense" => PresentIsRemoved)
<1>1. Inv => (kind = "dense" => PresentIsRemoved)
  <2>. SUFFICES ASSUME Inv, kind = "dense", NEW k \in content PROVE RemoveResult(k).found
    BY DEF PresentIsRemoved
  <2>1. k \in Keys /\ DenseInv(map) /\ DenseKeys(map) = content
    BY DEF Inv
  <2>2. RemoveResult(k).found = Dense!Find(map, k)
    BY DEF RemoveResult
  <2>. QED
    BY <2>1, <2>2, DenseHits
<1>. QED
  BY <1>1, SpecInv, PTL
=============================================================================
