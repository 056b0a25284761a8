---------------------------- MODULE MCSharedPtr -----------------------------
(***************************************************************************)
(* Two threads, one with two SharedPtrs, one with one, both with a WeakPtr, *)
(* and room for two objects: enough for one thread to pin what the other    *)
(* one releases, and to release one object by assigning another.            *)
(***************************************************************************)
EXTENDS SharedPtr

CONSTANTS t1, t2, p1, q1, p2, w1, w2

MCUser == [s \in {p1, q1, p2, w1, w2} |-> IF s \in {p1, q1, w1} THEN t1 ELSE t2]
=============================================================================
