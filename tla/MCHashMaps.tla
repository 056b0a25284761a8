----------------------------- MODULE MCHashMaps -----------------------------
(***************************************************************************)
(* An instance of HashMaps in which keys share buckets in the tables of    *)
(* each size (6 and 42 buckets of the dense map, 4, 12 and 28 of the sparse*)
(* one), and some that share a bucket are separated by the next rehash.    *)
(***************************************************************************)
EXTENDS HashMaps

MCHash == [k \in Keys |-> CASE k = 1 -> 0
                            [] k = 2 -> 84
                            [] k = 3 -> 12
                            [] k = 4 -> 168
                            [] k = 5 -> 1
                            [] k = 6 -> 85
                            [] OTHER -> 4]
=============================================================================
