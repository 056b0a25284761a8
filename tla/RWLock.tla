------------------------------- MODULE RWLock -------------------------------
(***************************************************************************)
(* What ut::RWLock promises (include/thread/ut_lock.h): a thread holds the *)
(* lock for reading, for writing, or not at all.  "One writes - everybody  *)
(* waits, nobody writes - everybody can read simultaneously."              *)
(*                                                                         *)
(* The two platform implementations, RWLockUnix and RWLockWin, are shown   *)
(* to implement this specification.                                        *)
(***************************************************************************)
CONSTANT Threads

VARIABLE hold  \* hold[t]: the access thread t currently has

Access == {"read", "write"}

TypeOK == hold \in [Threads -> Access \cup {"none"}]

Init == hold = [t \in Threads |-> "none"]

(* RWLock::Lock(Access) returns: nobody writes, and for write access nobody
   reads either. *)
Lock(t, a) ==
    /\ hold[t] = "none"
    /\ \A u \in Threads : hold[u] # "write"
    /\ a = "write" => \A u \in Threads : hold[u] = "none"
    /\ hold' = [hold EXCEPT ![t] = a]

(* RWLock::Unlock(Access) takes effect. *)
Unlock(t) ==
    /\ hold[t] # "none"
    /\ hold' = [hold EXCEPT ![t] = "none"]

Next == \E t \in Threads : Unlock(t) \/ \E a \in Access : Lock(t, a)

Spec == Init /\ [][Next]_hold
=============================================================================
