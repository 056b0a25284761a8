----------------------------- MODULE RWLockUnix -----------------------------
(***************************************************************************)
(* ut::RWLock as built on Unix (src/thread/ut_lock.cpp): one pthread mutex,*)
(* two condition variables and four counters.                              *)
(*                                                                         *)
(* Every access to the counters is made with data->lock held, so what a    *)
(* thread does from pthread_mutex_lock, or from its return from            *)
(* pthread_cond_wait, up to the next pthread_cond_wait or                  *)
(* pthread_mutex_unlock is one action.  A thread blocked in                *)
(* pthread_cond_wait is woken by a signal, by a broadcast or spuriously;   *)
(* a woken thread has to take the mutex and test its condition again, and  *)
(* other threads may run in between.                                       *)
(***************************************************************************)
EXTENDS Naturals, FiniteSets

CONSTANT Threads

ASSUME ThreadsFinite == IsFiniteSet(Threads)

VARIABLES
    pc,             \* pc[t]: where thread t is in RWLock::Lock / Unlock
    readers,        \* data->readers
    writers,        \* data->writers
    read_waiters,   \* data->read_waiters
    write_waiters   \* data->write_waiters

vars == <<pc, readers, writers, read_waiters, write_waiters>>

(* "read_wait"/"write_wait" are blocked in pthread_cond_wait on data->read /
   data->write, "..._woken" are about to take the mutex again. *)
Locations == {"out", "reading", "writing", "read_wait", "read_woken",
              "write_wait", "write_woken"}

At(locs) == {t \in Threads : pc[t] \in locs}

TypeOK ==
    /\ pc \in [Threads -> Locations]
    /\ readers \in Nat
    /\ writers \in {0, 1}
    /\ read_waiters \in Nat
    /\ write_waiters \in Nat

Init ==
    /\ pc = [t \in Threads |-> "out"]
    /\ readers = 0
    /\ writers = 0
    /\ read_waiters = 0
    /\ write_waiters = 0

-----------------------------------------------------------------------------
(* Faulty forms: a lock in which readers overtake waiting writers, one in which
   they overlook the active writer, one in which writers overlook readers. *)
ReadBlocked_NoPreference == writers # 0
ReadBlocked_NoExclusion == write_waiters # 0
WriteBlocked_NoReaders == writers # 0

(* The conditions under which a reader or a writer blocks. *)
ReadBlocked == writers # 0 \/ write_waiters # 0
WriteBlocked == readers # 0 \/ writers # 0

(* Lock(Access::read), first part: join the readers or block on data->read. *)
LockRead(t) ==
    /\ pc[t] = "out"
    /\ IF ReadBlocked
       THEN /\ pc' = [pc EXCEPT ![t] = "read_wait"]
            /\ read_waiters' = read_waiters + 1
            /\ UNCHANGED readers
       ELSE /\ pc' = [pc EXCEPT ![t] = "reading"]
            /\ readers' = readers + 1
            /\ UNCHANGED read_waiters
    /\ UNCHANGED <<writers, write_waiters>>

(* Lock(Access::read), the loop: test again after a wake-up. *)
ResumeRead(t) ==
    /\ pc[t] = "read_woken"
    /\ IF ReadBlocked
       THEN /\ pc' = [pc EXCEPT ![t] = "read_wait"]
            /\ UNCHANGED <<readers, read_waiters>>
       ELSE /\ pc' = [pc EXCEPT ![t] = "reading"]
            /\ readers' = readers + 1
            /\ read_waiters' = read_waiters - 1
    /\ UNCHANGED <<writers, write_waiters>>

(* Lock(Access::write), first part. *)
LockWrite(t) ==
    /\ pc[t] = "out"
    /\ IF WriteBlocked
       THEN /\ pc' = [pc EXCEPT ![t] = "write_wait"]
            /\ write_waiters' = write_waiters + 1
            /\ UNCHANGED writers
       ELSE /\ pc' = [pc EXCEPT ![t] = "writing"]
            /\ writers' = 1
            /\ UNCHANGED write_waiters
    /\ UNCHANGED <<readers, read_waiters>>

(* Faulty form: data->write_waiters-- is forgotten. *)
ResumeWrite_StillCounted(t) ==
    /\ pc[t] = "write_woken"
    /\ pc' = [pc EXCEPT ![t] = IF WriteBlocked THEN "write_wait" ELSE "writing"]
    /\ writers' = IF WriteBlocked THEN writers ELSE 1
    /\ UNCHANGED <<readers, read_waiters, write_waiters>>

(* Lock(Access::write), the loop. *)
ResumeWrite(t) ==
    /\ pc[t] = "write_woken"
    /\ IF WriteBlocked
       THEN /\ pc' = [pc EXCEPT ![t] = "write_wait"]
            /\ UNCHANGED <<writers, write_waiters>>
       ELSE /\ pc' = [pc EXCEPT ![t] = "writing"]
            /\ writers' = 1
            /\ write_waiters' = write_waiters - 1
    /\ UNCHANGED <<readers, read_waiters>>

-----------------------------------------------------------------------------
(* q is pc after a pthread_cond_signal on data->write made when pc was p: one
   blocked writer, if there is any, is woken. *)
SignalWrite(p, q) ==
    LET blocked == {u \in Threads : p[u] = "write_wait"}
    IN  IF blocked = {}
        THEN q = p
        ELSE \E u \in blocked : q = [p EXCEPT ![u] = "write_woken"]

(* Faulty form: pthread_cond_signal in place of the broadcast. *)
BroadcastRead_One(p) ==
    IF \E u \in Threads : p[u] = "read_wait"
    THEN [p EXCEPT ![CHOOSE u \in Threads : p[u] = "read_wait"] = "read_woken"]
    ELSE p

(* pc after a pthread_cond_broadcast on data->read. *)
BroadcastRead(p) ==
    [u \in Threads |-> IF p[u] = "read_wait" THEN "read_woken" ELSE p[u]]

(* Faulty form: a reader leaves without signalling the writers. *)
UnlockRead_Silent(t) ==
    /\ pc[t] = "reading"
    /\ readers' = readers - 1
    /\ pc' = [pc EXCEPT ![t] = "out"]
    /\ UNCHANGED <<writers, read_waiters, write_waiters>>

(* Unlock(Access::read). *)
UnlockRead(t) ==
    /\ pc[t] = "reading"
    /\ readers' = readers - 1
    /\ LET p == [pc EXCEPT ![t] = "out"]
       IN  IF write_waiters # 0 THEN SignalWrite(p, pc') ELSE pc' = p
    /\ UNCHANGED <<writers, read_waiters, write_waiters>>

(* What Unlock(Access::write) does to the waiting threads. *)
WakeAfterWrite(p, q) ==
    IF write_waiters # 0
    THEN SignalWrite(p, q)
    ELSE q = IF read_waiters # 0 THEN BroadcastRead(p) ELSE p

(* Unlock(Access::write): waiting writers go first. *)
UnlockWrite(t) ==
    /\ pc[t] = "writing"
    /\ writers' = 0
    /\ WakeAfterWrite([pc EXCEPT ![t] = "out"], pc')
    /\ UNCHANGED <<readers, read_waiters, write_waiters>>

(* pthread_cond_wait may return without a signal. *)
SpuriousWake(t) ==
    /\ \/ /\ pc[t] = "read_wait"
          /\ pc' = [pc EXCEPT ![t] = "read_woken"]
       \/ /\ pc[t] = "write_wait"
          /\ pc' = [pc EXCEPT ![t] = "write_woken"]
    /\ UNCHANGED <<readers, writers, read_waiters, write_waiters>>

Resume(t) == ResumeRead(t) \/ ResumeWrite(t)
Release(t) == UnlockRead(t) \/ UnlockWrite(t)

Next ==
    \E t \in Threads :
        \/ LockRead(t) \/ LockWrite(t)
        \/ Resume(t)
        \/ Release(t)
        \/ SpuriousWake(t)

(* A woken thread gets the mutex sooner or later (its critical sections are
   finite), and a thread that holds the lock releases it.  Nothing makes a
   thread call Lock, and nothing makes a spurious wake-up happen. *)
Fairness == \A t \in Threads : WF_vars(Resume(t)) /\ WF_vars(Release(t))

Spec == Init /\ [][Next]_vars /\ Fairness

-----------------------------------------------------------------------------
(* One writes - everybody waits: a thread that has write access is the only one
   that has any access (the reason for every test in RWLock::Lock). *)
Exclusion ==
    \A t \in At({"writing"}), u \in At({"reading", "writing"}) : t = u

(* The four counters are what their names say: they count the threads that
   read, write, and are inside the two waiting loops, at every moment, woken
   threads that have not yet decremented their counter included. *)
CountersMatch ==
    /\ readers = Cardinality(At({"reading"}))
    /\ writers = Cardinality(At({"writing"}))
    /\ read_waiters = Cardinality(At({"read_wait", "read_woken"}))
    /\ write_waiters = Cardinality(At({"write_wait", "write_woken"}))

(* No wake-up is lost: when the lock is free and writers are in their loop, one
   of them has been woken (pthread_cond_signal in Unlock woke somebody whose
   test succeeds unless a third thread barges in and will signal again); and no
   reader stays blocked when there is neither an active nor a waiting writer,
   whoever was first when the last writer left. *)
NoLostWakeup ==
    /\ readers = 0 /\ writers = 0 /\ write_waiters # 0
          => At({"write_woken"}) # {}
    /\ writers = 0 /\ write_waiters = 0 => At({"read_wait"}) = {}

(* The lock implements RWLock: each Lock/Unlock takes effect in one step, at
   which nobody holds the lock in a conflicting way. *)
Hold == [t \in Threads |-> CASE pc[t] = "reading" -> "read"
                              [] pc[t] = "writing" -> "write"
                              [] OTHER -> "none"]

RW == INSTANCE RWLock WITH hold <- Hold

ImplementsRWLock == RW!Spec

(* Writers are not starved by readers: once a writer blocks, some writer
   eventually gets in, however many readers keep coming.  (Which one is not
   promised: a writer that calls Lock may overtake the woken one for ever.) *)
WritersProgress == At({"write_wait"}) # {} ~> At({"writing"}) # {}

(* Readers may be starved by writers, but only by writers: if from some moment
   on no writer is active or waiting, every blocked reader gets in. *)
ReadersProgress ==
    <>[](writers = 0 /\ write_waiters = 0)
        => \A t \in Threads : pc[t] = "read_wait" ~> pc[t] = "reading"
=============================================================================
