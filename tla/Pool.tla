-------------------------------- MODULE Pool --------------------------------
(***************************************************************************)
(* What ut::ThreadPool and ut::Scheduler promise, whatever the method of   *)
(* synchronization (pool_sync::Method): a task that was enqueued is        *)
(* executed once, and WaitForCompletion returns when the tasks of its      *)
(* scheduler are done.                                                     *)
(*                                                                         *)
(* A client, or a task while it is executed, enqueues tasks through a      *)
(* scheduler of its own and waits for them; a direct client enqueues       *)
(* without a scheduler and waits for nothing.  ThreadPool and AtomicPool   *)
(* are shown to implement this specification.                              *)
(***************************************************************************)
CONSTANTS
    Clients,  \* threads outside the pool
    Direct,   \* the clients that use no scheduler
    Tasks,
    Parent    \* Parent[x]: the client or the task that enqueues x

VARIABLES
    state,    \* state[f]: what has become of client or task f
    closing   \* the destructor of the pool has been called

Children(f) == {x \in Tasks : Parent[x] = f}

Init ==
    /\ state = [f \in Clients \cup Tasks |-> IF f \in Clients THEN "running" ELSE "new"]
    /\ closing = FALSE

(* Enqueue: only a running client or task can do it. *)
Enqueue(x) ==
    /\ state[x] = "new"
    /\ state[Parent[x]] = "running"
    /\ state' = [state EXCEPT ![x] = "queued"]
    /\ UNCHANGED closing

(* Some thread begins to execute the task. *)
Start(x) ==
    /\ state[x] = "queued"
    /\ state' = [state EXCEPT ![x] = "running"]
    /\ UNCHANGED closing

(* A client returns from WaitForCompletion, a task has given its result to its
   combiner: everything it enqueued through a scheduler is done.  Only a pool
   that is being destroyed may break the wait off. *)
Finish(f) ==
    /\ state[f] = "running"
    /\ \A x \in Children(f) : state[x] # "new"
    /\ f \in Direct \/ closing \/ \A x \in Children(f) : state[x] = "done"
    /\ state' = [state EXCEPT ![f] = "done"]
    /\ UNCHANGED closing

(* The destructor is called when no client uses the pool any more. *)
Close ==
    /\ \A c \in Clients : state[c] = "done"
    /\ ~closing
    /\ closing' = TRUE
    /\ UNCHANGED state

(* The destructor may drop a task nobody waits for. *)
Drop(x) ==
    /\ closing
    /\ state[x] = "queued"
    /\ Parent[x] \in Direct
    /\ state' = [state EXCEPT ![x] = "dropped"]
    /\ UNCHANGED closing

Next ==
    \/ \E x \in Tasks : Enqueue(x) \/ Start(x) \/ Drop(x)
    \/ \E f \in Clients \cup Tasks : Finish(f)
    \/ Close

Spec == Init /\ [][Next]_<<state, closing>>
=============================================================================
