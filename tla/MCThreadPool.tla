---------------------------- MODULE MCThreadPool ----------------------------
(***************************************************************************)
(* One client enqueues two tasks through a scheduler, one of which enqueues *)
(* a task of its own; the owner enqueues a task directly, that enqueues     *)
(* another one, and destroys the pool.                                     *)
(***************************************************************************)
EXTENDS ThreadPool

CONSTANTS c1, c2, a, b, aa, d, dd

MCClients == {c1, c2}
(* One client, one task that enqueues another one. *)
NestedParent == [x \in {a, aa} |-> IF x = a THEN c1 ELSE a]

MCTasks == {a, b, aa, d, dd}
MCParent == [x \in MCTasks |-> CASE x \in {a, b} -> c1
                                 [] x = aa -> a
                                 [] x = d -> c2
                                 [] x = dd -> d]
=============================================================================
