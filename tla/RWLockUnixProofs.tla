-------------------------- MODULE RWLockUnixProofs --------------------------
(***************************************************************************)
(* Proofs about RWLockUnix, for any finite number of threads.              *)
(*                                                                         *)
(* The inductive invariant is the conjunction of what the run checks:      *)
(* types, counters, exclusion, wake-ups.  The tests in Lock look at the    *)
(* counters, so exclusion needs CountersMatch; the signals in Unlock are   *)
(* made under a test of the counters as well, so NoLostWakeup needs it too.*)
(***************************************************************************)
EXTENDS RWLockUnix, FiniteSetTheorems, TLAPS

Inv == TypeOK /\ CountersMatch /\ Exclusion /\ NoLostWakeup

(* The counters determine which sets of threads are empty. *)
LEMMA CountersEmpty ==
    ASSUME CountersMatch
    PROVE  /\ readers = 0 <=> At({"reading"}) = {}
           /\ writers = 0 <=> At({"writing"}) = {}
           /\ read_waiters = 0 <=> At({"read_wait", "read_woken"}) = {}
           /\ write_waiters = 0 <=> At({"write_wait", "write_woken"}) = {}
<1>1. \A S : IsFiniteSet(At(S))
  BY ThreadsFinite, FS_Subset DEF At
<1>2. \A S : Cardinality(At(S)) = 0 <=> At(S) = {}
  BY <1>1, FS_EmptySet
<1>. QED
  BY <1>2 DEF CountersMatch

(* A signal on data->write moves one blocked writer to the woken ones, and there
   is a woken one afterwards if any writer was in the loop. *)
LEMMA SignalWakes ==
    ASSUME NEW p \in [Threads -> Locations], NEW q, SignalWrite(p, q)
    PROVE  /\ q \in [Threads -> Locations]
           /\ \A u \in Threads :
                 \/ q[u] = p[u]
                 \/ p[u] = "write_wait" /\ q[u] = "write_woken"
           /\ (\E u \in Threads : p[u] \in {"write_wait", "write_woken"})
                 => \E u \in Threads : q[u] = "write_woken"
<1>1. CASE q = p /\ {u \in Threads : p[u] = "write_wait"} = {}
  BY <1>1
<1>2. CASE \E u \in Threads : p[u] = "write_wait" /\ q = [p EXCEPT ![u] = "write_woken"]
  BY <1>2 DEF Locations
<1>. QED
  BY <1>1, <1>2 DEF SignalWrite

-----------------------------------------------------------------------------
(* The initial state satisfies the invariant. *)
LEMMA InitInv == Init => Inv
<1>. SUFFICES ASSUME Init PROVE Inv
  OBVIOUS
<1>1. TypeOK
  BY DEF Init, TypeOK, Locations
<1>2. \A S : "out" \notin S => At(S) = {}
  BY DEF Init, At
<1>3. CountersMatch
  BY <1>2, FS_EmptySet DEF Init, CountersMatch
<1>4. Exclusion /\ NoLostWakeup
  BY <1>2 DEF Exclusion, NoLostWakeup, Init
<1>. QED
  BY <1>1, <1>3, <1>4 DEF Inv

(* A thread t goes from location "from" to location "to" and nobody else changes
   the kind of place it is in: what this does to the four sets that are
   counted. *)
LEMMA CountMove ==
    ASSUME TypeOK, NEW t \in Threads, NEW S, pc' \in [Threads -> Locations],
           \A u \in Threads \ {t} : pc'[u] \in S <=> pc[u] \in S
    PROVE  /\ (pc[t] \in S <=> pc'[t] \in S) => Cardinality(At(S))' = Cardinality(At(S))
           /\ pc[t] \notin S /\ pc'[t] \in S => Cardinality(At(S))' = Cardinality(At(S)) + 1
           /\ pc[t] \in S /\ pc'[t] \notin S => Cardinality(At(S))' = Cardinality(At(S)) - 1
<1>1. IsFiniteSet(At(S))
  BY ThreadsFinite, FS_Subset DEF At
<1>2. ASSUME pc[t] \in S <=> pc'[t] \in S PROVE At(S)' = At(S)
  BY <1>2 DEF At
<1>3. ASSUME pc[t] \notin S, pc'[t] \in S PROVE Cardinality(At(S))' = Cardinality(At(S)) + 1
  <2>1. At(S)' = At(S) \cup {t} /\ t \notin At(S)
    BY <1>3 DEF At
  <2>2. Cardinality(At(S) \cup {t}) = Cardinality(At(S)) + 1
    BY <1>1, <2>1, FS_AddElement
  <2>. QED
    BY <2>1, <2>2
<1>4. ASSUME pc[t] \in S, pc'[t] \notin S PROVE Cardinality(At(S))' = Cardinality(At(S)) - 1
  <2>1. At(S)' = At(S) \ {t} /\ t \in At(S)
    BY <1>4 DEF At
  <2>2. Cardinality(At(S) \ {t}) = Cardinality(At(S)) - 1
    BY <1>1, <2>1, FS_RemoveElement
  <2>. QED
    BY <2>1, <2>2
<1>. QED
  BY <1>2, <1>3, <1>4

(* The four sets of locations whose threads are counted. *)
Counted == {{"reading"}, {"writing"}, {"read_wait", "read_woken"},
            {"write_wait", "write_woken"}}

(* What Unlock leaves of the other threads: a signal or a broadcast only turns a
   waiting thread into a woken one. *)
LEMMA UnlockOthers ==
    ASSUME Inv, NEW t \in Threads, Release(t)
    PROVE  /\ pc' \in [Threads -> Locations]
           /\ pc'[t] = "out"
           /\ \A u \in Threads \ {t} :
                 \/ pc'[u] = pc[u]
                 \/ pc[u] = "read_wait" /\ pc'[u] = "read_woken"
                 \/ pc[u] = "write_wait" /\ pc'[u] = "write_woken"
<1>. DEFINE p == [pc EXCEPT ![t] = "out"]
<1>1. p \in [Threads -> Locations] /\ p[t] = "out" /\ \A u \in Threads \ {t} : p[u] = pc[u]
  BY DEF Inv, TypeOK, Locations
<1>2. SignalWrite(p, pc') \/ pc' = p \/ pc' = BroadcastRead(p)
  BY DEF Release, UnlockRead, UnlockWrite, WakeAfterWrite
<1>. HIDE DEF p
<1>3. CASE SignalWrite(p, pc')
  BY <1>1, <1>3, SignalWakes
<1>4. CASE pc' = p
  BY <1>1, <1>4
<1>5. CASE pc' = BroadcastRead(p)
  BY <1>1, <1>5 DEF BroadcastRead, Locations
<1>. QED
  BY <1>2, <1>3, <1>4, <1>5

(* Every step preserves the types. *)
LEMMA TypeStep ==
    ASSUME Inv, [Next]_vars
    PROVE  TypeOK'
<1>. USE DEF TypeOK
<1>1. CASE UNCHANGED vars
  BY <1>1 DEF vars, Inv
<1>2. ASSUME NEW t \in Threads, LockRead(t) PROVE TypeOK'
  BY <1>2 DEF LockRead, Locations, Inv
<1>3. ASSUME NEW t \in Threads, LockWrite(t) PROVE TypeOK'
  BY <1>3 DEF LockWrite, Locations, Inv
<1>4. ASSUME NEW t \in Threads, Resume(t) PROVE TypeOK'
  <2>1. read_waiters # 0 \/ pc[t] # "read_woken"
    BY CountersEmpty DEF Inv, At
  <2>2. write_waiters # 0 \/ pc[t] # "write_woken"
    BY CountersEmpty DEF Inv, At
  <2>. QED
    BY <1>4, <2>1, <2>2 DEF Resume, ResumeRead, ResumeWrite, Locations, Inv
<1>5. ASSUME NEW t \in Threads, Release(t) PROVE TypeOK'
  <2>1. readers # 0 \/ pc[t] # "reading"
    BY CountersEmpty DEF Inv, At
  <2>2. pc' \in [Threads -> Locations]
    BY <1>5, UnlockOthers
  <2>. QED
    BY <1>5, <2>1, <2>2 DEF Release, UnlockRead, UnlockWrite, Inv
<1>6. ASSUME NEW t \in Threads, SpuriousWake(t) PROVE TypeOK'
  BY <1>6 DEF SpuriousWake, Locations, Inv
<1>. QED
  BY <1>1, <1>2, <1>3, <1>4, <1>5, <1>6 DEF Next

(* Every step changes the counters along with the sets they count. *)
LEMMA CountersStep ==
    ASSUME Inv, [Next]_vars
    PROVE  CountersMatch'
<1>. pc' \in [Threads -> Locations] /\ TypeOK
  BY TypeStep DEF TypeOK, Inv
<1>1. CASE UNCHANGED vars
  BY <1>1 DEF vars, Inv, CountersMatch, At
<1>2. ASSUME NEW t \in Threads,
             LockRead(t) \/ LockWrite(t) \/ Resume(t) \/ SpuriousWake(t)
      PROVE  CountersMatch'
  <2>1. \A u \in Threads \ {t} : pc'[u] = pc[u]
    BY <1>2 DEF LockRead, LockWrite, Resume, ResumeRead, ResumeWrite, SpuriousWake, TypeOK
  <2>2. \A S \in Counted :
           /\ (pc[t] \in S <=> pc'[t] \in S) => Cardinality(At(S))' = Cardinality(At(S))
           /\ pc[t] \notin S /\ pc'[t] \in S => Cardinality(At(S))' = Cardinality(At(S)) + 1
           /\ pc[t] \in S /\ pc'[t] \notin S => Cardinality(At(S))' = Cardinality(At(S)) - 1
    BY <2>1, CountMove
  <2>3. CASE LockRead(t)
    BY <2>2, <2>3 DEF LockRead, Counted, CountersMatch, Inv, TypeOK
  <2>4. CASE LockWrite(t)
    BY <2>2, <2>4 DEF LockWrite, WriteBlocked, Counted, CountersMatch, Inv, TypeOK
  <2>5. CASE Resume(t)
    BY <2>2, <2>5 DEF Resume, ResumeRead, ResumeWrite, WriteBlocked, Counted, CountersMatch, Inv, TypeOK
  <2>6. CASE SpuriousWake(t)
    BY <2>2, <2>6 DEF SpuriousWake, Counted, CountersMatch, Inv, TypeOK
  <2>. QED
    BY <1>2, <2>3, <2>4, <2>5, <2>6
<1>3. ASSUME NEW t \in Threads, Release(t) PROVE CountersMatch'
  <2>1. \A S \in Counted : \A u \in Threads \ {t} : pc'[u] \in S <=> pc[u] \in S
    BY <1>3, UnlockOthers DEF Counted
  <2>2. \A S \in Counted :
           /\ (pc[t] \in S <=> pc'[t] \in S) => Cardinality(At(S))' = Cardinality(At(S))
           /\ pc[t] \in S /\ pc'[t] \notin S => Cardinality(At(S))' = Cardinality(At(S)) - 1
    BY <2>1, CountMove
  <2>3. pc'[t] = "out"
    BY <1>3, UnlockOthers
  <2>4. CASE UnlockRead(t)
    BY <2>2, <2>3, <2>4 DEF UnlockRead, Counted, CountersMatch, Inv, TypeOK
  <2>5. CASE UnlockWrite(t)
    <3>1. writers = 1
      BY <2>5, CountersEmpty DEF UnlockWrite, Inv, TypeOK, At
    <3>. QED
      BY <2>2, <2>3, <2>5, <3>1 DEF UnlockWrite, Counted, CountersMatch, Inv, TypeOK
  <2>. QED
    BY <1>3, <2>4, <2>5 DEF Release
<1>. QED
  BY <1>1, <1>2, <1>3 DEF Next

(* A reader enters only when there is no writer, a writer only when there is
   nobody: exclusion is preserved. *)
LEMMA ExclusionStep ==
    ASSUME Inv, [Next]_vars
    PROVE  Exclusion'
<1>. pc' \in [Threads -> Locations] /\ TypeOK /\ Exclusion
  BY TypeStep DEF TypeOK, Inv
<1>1. CASE UNCHANGED vars
  BY <1>1 DEF vars, Exclusion, At
<1>2. ASSUME NEW t \in Threads,
             LockRead(t) \/ ResumeRead(t), pc'[t] = "reading"
      PROVE  Exclusion'
  <2>1. At({"writing"}) = {} /\ \A u \in Threads \ {t} : pc'[u] = pc[u]
    BY <1>2, CountersEmpty DEF LockRead, ResumeRead, ReadBlocked, TypeOK, Inv
  <2>. QED
    BY <1>2, <2>1 DEF Exclusion, At
<1>3. ASSUME NEW t \in Threads,
             LockWrite(t) \/ ResumeWrite(t), pc'[t] = "writing"
      PROVE  Exclusion'
  <2>1. /\ At({"writing"}) = {} /\ At({"reading"}) = {}
        /\ \A u \in Threads \ {t} : pc'[u] = pc[u]
    BY <1>3, CountersEmpty DEF LockWrite, ResumeWrite, WriteBlocked, TypeOK, Inv
  <2>. QED
    BY <1>3, <2>1 DEF Exclusion, At
<1>4. ASSUME \A u \in Threads : pc'[u] \in {"reading", "writing"} => pc'[u] = pc[u]
      PROVE  Exclusion'
  BY <1>4 DEF Exclusion, At
<1>5. ASSUME NEW t \in Threads, Release(t) PROVE Exclusion'
  BY <1>4, <1>5, UnlockOthers
<1>6. ASSUME NEW t \in Threads, SpuriousWake(t) PROVE Exclusion'
  BY <1>4, <1>6 DEF SpuriousWake, TypeOK
<1>7. ASSUME NEW t \in Threads, LockRead(t) \/ LockWrite(t) \/ Resume(t)
      PROVE  Exclusion'
  <2>1. CASE pc'[t] \in {"reading", "writing"}
    BY <1>2, <1>3, <1>7, <2>1
    DEF LockRead, LockWrite, Resume, ResumeRead, ResumeWrite, TypeOK
  <2>2. CASE pc'[t] \notin {"reading", "writing"}
    BY <1>4, <1>7, <2>2
    DEF LockRead, LockWrite, Resume, ResumeRead, ResumeWrite, TypeOK
  <2>. QED
    BY <2>1, <2>2
<1>. QED
  BY <1>1, <1>5, <1>6, <1>7 DEF Next

(* Wake-ups: a writer in the loop implies an active thread that will signal, or a
   woken writer; Unlock(write) leaves no blocked reader behind unless it has left
   the lock to a writer. *)
LEMMA WakeupStep ==
    ASSUME Inv, [Next]_vars
    PROVE  NoLostWakeup'
<1>. /\ pc' \in [Threads -> Locations] /\ TypeOK /\ NoLostWakeup
     /\ readers \in Nat /\ readers' \in Nat
  BY TypeStep DEF TypeOK, Inv
<1>1. CASE UNCHANGED vars
  BY <1>1 DEF vars, NoLostWakeup, At
<1>2. ASSUME NEW t \in Threads, LockRead(t) PROVE NoLostWakeup'
  BY <1>2 DEF LockRead, ReadBlocked, NoLostWakeup, At, TypeOK
<1>3. ASSUME NEW t \in Threads, LockWrite(t) PROVE NoLostWakeup'
  BY <1>3 DEF LockWrite, WriteBlocked, NoLostWakeup, At, TypeOK
<1>4. ASSUME NEW t \in Threads, ResumeRead(t) PROVE NoLostWakeup'
  BY <1>4 DEF ResumeRead, ReadBlocked, NoLostWakeup, At, TypeOK
<1>5. ASSUME NEW t \in Threads, ResumeWrite(t) PROVE NoLostWakeup'
  <2>1. write_waiters # 0
    BY <1>5, CountersEmpty DEF ResumeWrite, Inv, At
  <2>. QED
    BY <1>5, <2>1 DEF ResumeWrite, WriteBlocked, NoLostWakeup, At, TypeOK
<1>6. ASSUME NEW t \in Threads, SpuriousWake(t) PROVE NoLostWakeup'
  BY <1>6 DEF SpuriousWake, NoLostWakeup, At, TypeOK
<1>7. ASSUME NEW t \in Threads, Release(t) PROVE NoLostWakeup'
  <2>. DEFINE p == [pc EXCEPT ![t] = "out"]
  <2>1. p \in [Threads -> Locations] /\ \A u \in Threads \ {t} : p[u] = pc[u]
    BY DEF TypeOK, Locations
  <2>2. CASE write_waiters # 0
    <3>1. \E u \in Threads : pc[u] \in {"write_wait", "write_woken"}
      BY <2>2, CountersEmpty DEF Inv, At
    <3>2. \E u \in Threads : p[u] \in {"write_wait", "write_woken"}
      BY <1>7, <2>1, <3>1 DEF Release, UnlockRead, UnlockWrite
    <3>3. SignalWrite(p, pc')
      BY <1>7, <2>2 DEF Release, UnlockRead, UnlockWrite, WakeAfterWrite
    <3>4. \E u \in Threads : pc'[u] = "write_woken"
      BY <2>1, <3>2, <3>3, SignalWakes
    <3>. QED
      BY <1>7, <2>2, <3>4 DEF Release, UnlockRead, UnlockWrite, NoLostWakeup, At
  <2>3. CASE write_waiters = 0
    <3>1. \A u \in Threads : pc'[u] # "read_wait"
      <4>1. CASE UnlockRead(t)
        <5>1. pc' = p /\ writers = 0
          BY <2>3, <4>1, CountersEmpty DEF UnlockRead, Exclusion, At, Inv
        <5>. QED
          BY <2>1, <2>3, <5>1 DEF NoLostWakeup, At, TypeOK
      <4>2. CASE UnlockWrite(t) /\ read_waiters # 0
        BY <2>1, <2>3, <4>2 DEF UnlockWrite, WakeAfterWrite, BroadcastRead
      <4>3. CASE UnlockWrite(t) /\ read_waiters = 0
        <5>1. pc' = p /\ At({"read_wait", "read_woken"}) = {}
          BY <2>3, <4>3, CountersEmpty DEF UnlockWrite, WakeAfterWrite, Inv
        <5>. QED
          BY <2>1, <5>1 DEF At, TypeOK
      <4>. QED
        BY <1>7, <4>1, <4>2, <4>3 DEF Release
    <3>. QED
      BY <1>7, <2>3, <3>1 DEF Release, UnlockRead, UnlockWrite, NoLostWakeup, At
  <2>. QED
    BY <2>2, <2>3
<1>. QED
  BY <1>1, <1>2, <1>3, <1>4, <1>5, <1>6, <1>7 DEF Next, Resume

-----------------------------------------------------------------------------
(* The invariant holds in every reachable state, for any finite set of threads
   that call Lock and Unlock. *)
THEOREM Invariance == Spec => []Inv
<1>1. Inv /\ [Next]_vars => Inv'
  BY TypeStep, CountersStep, ExclusionStep, WakeupStep DEF Inv
<1>. QED
  BY InitInv, <1>1, PTL DEF Spec

(* The state of the lock is well typed: no counter drops below zero. *)
THEOREM TypeCorrect == Spec => []TypeOK
<1>1. Inv => TypeOK
  BY DEF Inv
<1>. QED
  BY Invariance, <1>1, PTL

(* A thread with write access is alone (RWLock::Lock). *)
THEOREM MutualExclusion == Spec => []Exclusion
<1>1. Inv => Exclusion
  BY DEF Inv
<1>. QED
  BY Invariance, <1>1, PTL

(* The counters are the numbers of readers, writers and waiting threads. *)
THEOREM CountersCorrect == Spec => []CountersMatch
<1>1. Inv => CountersMatch
  BY DEF Inv
<1>. QED
  BY Invariance, <1>1, PTL

(* No thread stays blocked on a free lock without another one being on its way:
   the signal and the broadcast in RWLock::Unlock are sufficient. *)
THEOREM WakeupsSuffice == Spec => []NoLostWakeup
<1>1. Inv => NoLostWakeup
  BY DEF Inv
<1>. QED
  BY Invariance, <1>1, PTL

-----------------------------------------------------------------------------
(* Each step of the implementation is a Lock or an Unlock of the abstract lock,
   or changes nothing that the abstract lock shows. *)
LEMMA StepRefines ==
    ASSUME Inv, Inv', [Next]_vars
    PROVE  [RW!Next]_Hold
<1>. TypeOK /\ pc' \in [Threads -> Locations]
  BY DEF Inv, TypeOK
<1>. USE DEF Hold
<1>1. ASSUME \A u \in Threads : pc'[u] # pc[u] =>
                {pc[u], pc'[u]} \cap {"reading", "writing"} = {}
      PROVE  UNCHANGED Hold
  BY <1>1
<1>2. CASE UNCHANGED vars
  BY <1>2 DEF vars
<1>3. ASSUME NEW t \in Threads,
             LockRead(t) \/ LockWrite(t) \/ Resume(t), pc'[t] = "reading"
      PROVE  RW!Lock(t, "read")
  <2>1. \A u \in Threads \ {t} : pc'[u] = pc[u]
    BY <1>3 DEF LockRead, LockWrite, Resume, ResumeRead, ResumeWrite, TypeOK
  <2>2. pc[t] \notin {"reading", "writing"}
    BY <1>3 DEF LockRead, LockWrite, Resume, ResumeRead, ResumeWrite
  <2>3. \A u \in Threads : pc[u] # "writing"
    BY <1>3, <2>1, <2>2 DEF Inv, Exclusion, At
  <2>. QED
    BY <1>3, <2>1, <2>2, <2>3 DEF RW!Lock
<1>4. ASSUME NEW t \in Threads,
             LockRead(t) \/ LockWrite(t) \/ Resume(t), pc'[t] = "writing"
      PROVE  RW!Lock(t, "write")
  <2>1. \A u \in Threads \ {t} : pc'[u] = pc[u]
    BY <1>4 DEF LockRead, LockWrite, Resume, ResumeRead, ResumeWrite, TypeOK
  <2>2. pc[t] \notin {"reading", "writing"}
    BY <1>4 DEF LockRead, LockWrite, Resume, ResumeRead, ResumeWrite
  <2>3. \A u \in Threads : pc[u] \notin {"reading", "writing"}
    BY <1>4, <2>1, <2>2 DEF Inv, Exclusion, At
  <2>. QED
    BY <1>4, <2>1, <2>2, <2>3 DEF RW!Lock
<1>5. ASSUME NEW t \in Threads,
             LockRead(t) \/ LockWrite(t) \/ Resume(t) \/ SpuriousWake(t),
             pc'[t] \notin {"reading", "writing"}
      PROVE  UNCHANGED Hold
  BY <1>1, <1>5
  DEF LockRead, LockWrite, Resume, ResumeRead, ResumeWrite, SpuriousWake, TypeOK
<1>6. ASSUME NEW t \in Threads, SpuriousWake(t) PROVE UNCHANGED Hold
  BY <1>5, <1>6 DEF SpuriousWake, TypeOK
<1>7. ASSUME NEW t \in Threads, Release(t) PROVE RW!Unlock(t)
  <2>1. pc[t] \in {"reading", "writing"}
    BY <1>7 DEF Release, UnlockRead, UnlockWrite
  <2>2. \A u \in Threads \ {t} : Hold[u]' = Hold[u]
    BY <1>7, UnlockOthers
  <2>. QED
    BY <1>7, <2>1, <2>2, UnlockOthers DEF RW!Unlock
<1>8. ASSUME NEW t \in Threads, LockRead(t) \/ LockWrite(t) \/ Resume(t)
      PROVE  [RW!Next]_Hold
  BY <1>3, <1>4, <1>5, <1>8 DEF RW!Next, RW!Access
<1>. QED
  BY <1>2, <1>6, <1>7, <1>8 DEF Next, RW!Next

(* RWLock on Unix implements the abstract readers-writer lock. *)
THEOREM Refinement == Spec => ImplementsRWLock
<1>1. Init => RW!Init
  BY DEF Init, RW!Init, Hold
<1>2. Inv /\ Inv' /\ [Next]_vars => [RW!Next]_Hold
  BY StepRefines
<1>. QED
  BY <1>1, <1>2, Invariance, PTL DEF Spec, RW!Spec, ImplementsRWLock
=============================================================================
