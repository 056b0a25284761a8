---------------------------- MODULE MCAtomicPool ----------------------------
(***************************************************************************)
(* One client enqueues two tasks through a scheduler, each of which        *)
(* enqueues a task of its own, so that both threads of the pool can be     *)
(* waiting at once; the owner enqueues a task directly and destroys the    *)
(* pool.                                                                   *)
(***************************************************************************)
EXTENDS AtomicPool

CONSTANTS c1, c2, a, b, aa, bb, d

MCClients == {c1, c2}
MCTasks == {a, b, aa, bb, d}
MCParent == [x \in MCTasks |-> CASE x \in {a, b} -> c1
                                 [] x = aa -> a
                                 [] x = bb -> b
                                 [] x = d -> c2]
=============================================================================
