-------------------------- MODULE RWLockWinProofs ---------------------------
(***************************************************************************)
(* Proofs about RWLockWin, for any finite number of threads.               *)
(*                                                                         *)
(* Exclusion follows from what the two events stand for.  That they keep   *)
(* standing for it needs OneClaim: only one writer is past writer_lock, so *)
(* nobody resets writer_event between another writer's wait and reset.     *)
(***************************************************************************)
EXTENDS RWLockWin, FiniteSetTheorems, TLAPS

Inv == TypeOK /\ EventsMatch /\ OneClaim /\ Exclusion

AllLocations == {"out"} \cup ReaderLocations \cup WriterLocations

(* Every action but the calls moves one thread from one location to another. *)
LEMMA Moves ==
    ASSUME TypeOK, NEW t \in Threads, NEW from, NEW to \in AllLocations, Go(t, from, to)
    PROVE  /\ pc' \in [Threads -> AllLocations]
           /\ pc[t] = from /\ pc'[t] = to
           /\ \A u \in Threads \ {t} : pc'[u] = pc[u]
BY DEF Go, TypeOK, AllLocations

(* readers_count is zero exactly when nobody is counted. *)
LEMMA CountZero ==
    ASSUME Inv
    PROVE  readers_count = 0 <=> Counted = {}
<1>1. IsFiniteSet(Counted)
  BY ThreadsFinite, FS_Subset DEF Counted, At
<1>. QED
  BY <1>1, FS_EmptySet DEF Inv, EventsMatch

(* Counted as a function of pc: what a move of one thread does to it. *)
LEMMA CountedMove ==
    ASSUME NEW t \in Threads, \A u \in Threads \ {t} : pc'[u] = pc[u]
    PROVE  LET S == {"r_test", "r_undo", "reading"} IN
           /\ (pc[t] \in S <=> pc'[t] \in S) => Counted' = Counted
           /\ pc[t] \notin S /\ pc'[t] \in S =>
                 Cardinality(Counted)' = Cardinality(Counted) + 1
           /\ pc[t] \in S /\ pc'[t] \notin S =>
                 Cardinality(Counted)' = Cardinality(Counted) - 1
<1>. DEFINE S == {"r_test", "r_undo", "reading"}
<1>1. /\ Counted = {u \in Threads : pc[u] \in S} /\ Counted' = {u \in Threads : pc'[u] \in S}
      /\ IsFiniteSet(Counted)
  BY ThreadsFinite, FS_Subset DEF Counted, At
<1>. HIDE DEF S
<1>2. ASSUME pc[t] \in S <=> pc'[t] \in S PROVE Counted' = Counted
  BY <1>1, <1>2
<1>3. ASSUME pc[t] \notin S, pc'[t] \in S
      PROVE  Cardinality(Counted)' = Cardinality(Counted) + 1
  <2>1. Counted' = Counted \cup {t} /\ t \notin Counted
    BY <1>1, <1>3
  <2>2. Cardinality(Counted \cup {t}) = Cardinality(Counted) + 1
    BY <1>1, <2>1, FS_AddElement
  <2>. QED
    BY <2>1, <2>2
<1>4. ASSUME pc[t] \in S, pc'[t] \notin S
      PROVE  Cardinality(Counted)' = Cardinality(Counted) - 1
  <2>1. Counted' = Counted \ {t} /\ t \in Counted
    BY <1>1, <1>4
  <2>2. Cardinality(Counted \ {t}) = Cardinality(Counted) - 1
    BY <1>1, <2>1, FS_RemoveElement
  <2>. QED
    BY <2>1, <2>2
<1>. QED
  BY <1>2, <1>3, <1>4 DEF S

-----------------------------------------------------------------------------
(* The initial state satisfies the invariant. *)
LEMMA InitInv == Init => Inv
<1>. SUFFICES ASSUME Init PROVE Inv
  OBVIOUS
<1>1. \A S : "out" \notin S => At(S) = {}
  BY DEF Init, At
<1>2. Counted = {} /\ Claiming = {} /\ InWriterLock = {}
  BY <1>1 DEF Counted, Claiming, InWriterLock
<1>3. TypeOK
  BY DEF Init, TypeOK
<1>4. EventsMatch
  BY <1>2, FS_EmptySet DEF Init, EventsMatch
<1>5. OneClaim /\ Exclusion
  BY <1>1, <1>2 DEF OneClaim, Exclusion, Init
<1>. QED
  BY <1>3, <1>4, <1>5 DEF Inv

(* The steps that change neither an event nor the count, and enter neither the
   counted nor the claiming threads nor writer_lock. *)
LEMMA PlainStep ==
    ASSUME Inv, NEW t \in Threads, Call(t) \/ WaitToRead(t)
    PROVE  Inv'
<1>. PICK from \in {"out", "r_wait"}, to \in {"w_enter", "r_wait", "r_count"} :
        Go(t, from, to) /\ UNCHANGED <<writer_event, no_readers_event, readers_count>>
  BY DEF Call, CallWrite, CallRead, WaitToRead
<1>1. /\ pc' \in [Threads -> AllLocations] /\ pc[t] = from /\ pc'[t] = to
      /\ \A u \in Threads \ {t} : pc'[u] = pc[u]
  BY Moves DEF Inv, AllLocations, ReaderLocations, WriterLocations
<1>2. Counted' = Counted
  BY <1>1, CountedMove
<1>3. Claiming' = Claiming /\ InWriterLock' = InWriterLock
  BY <1>1 DEF Claiming, InWriterLock, At
<1>4. TypeOK'
  BY <1>1 DEF Inv, TypeOK, AllLocations
<1>5. EventsMatch'
  BY <1>2, <1>3 DEF Inv, EventsMatch
<1>6. OneClaim'
  BY <1>1, <1>3 DEF Inv, OneClaim
<1>7. Exclusion'
  BY <1>1 DEF Inv, Exclusion, At
<1>. QED
  BY <1>4, <1>5, <1>6, <1>7 DEF Inv

(* A writer on its way to the lock, and out of it. *)
LEMMA WriterSteps ==
    ASSUME Inv, NEW t \in Threads, WriterStep(t) \/ UnlockWrite(t)
    PROVE  Inv'
<1>. PICK from \in AllLocations, to \in AllLocations : Go(t, from, to)
  BY DEF WriterStep, EnterWriterLock, WaitWriterEvent, ResetWriterEvent, WaitNoReaders,
         LeaveWriterLock, UnlockWrite, AllLocations, WriterLocations
<1>1. /\ pc' \in [Threads -> AllLocations] /\ pc[t] = from /\ pc'[t] = to
      /\ \A u \in Threads \ {t} : pc'[u] = pc[u]
  BY Moves DEF Inv
<1>2. Counted' = Counted /\ UNCHANGED <<no_readers_event, readers_count>>
  <2>1. /\ pc[t] \notin {"r_test", "r_undo", "reading"}
        /\ pc'[t] \notin {"r_test", "r_undo", "reading"}
    BY <1>1 DEF WriterStep, EnterWriterLock, WaitWriterEvent, ResetWriterEvent,
                WaitNoReaders, LeaveWriterLock, UnlockWrite, Go, Inv, TypeOK
  <2>. QED
    BY <1>1, <2>1, CountedMove
    DEF WriterStep, EnterWriterLock, WaitWriterEvent, ResetWriterEvent, WaitNoReaders,
        LeaveWriterLock, UnlockWrite
<1>3. TypeOK'
  BY <1>1, <1>2 DEF Inv, TypeOK, AllLocations, WriterStep, EnterWriterLock,
     WaitWriterEvent, ResetWriterEvent, WaitNoReaders, LeaveWriterLock, UnlockWrite
<1>. USE DEF Inv, TypeOK
<1>4. CASE EnterWriterLock(t)
  BY <1>1, <1>2, <1>3, <1>4
  DEF EnterWriterLock, Go, EventsMatch, OneClaim, Exclusion, Claiming, InWriterLock, At
<1>5. CASE WaitWriterEvent(t)
  BY <1>1, <1>2, <1>3, <1>5
  DEF WaitWriterEvent, Go, EventsMatch, OneClaim, Exclusion, Claiming, InWriterLock, At
<1>6. CASE ResetWriterEvent(t)
  BY <1>1, <1>2, <1>3, <1>6
  DEF ResetWriterEvent, Go, EventsMatch, OneClaim, Exclusion, Claiming, InWriterLock, At
<1>7. CASE WaitNoReaders(t)
  <2>1. Counted = {}
    BY <1>7, CountZero DEF WaitNoReaders, EventsMatch
  <2>2. EventsMatch' /\ OneClaim'
    BY <1>1, <1>2, <1>7
    DEF WaitNoReaders, Go, EventsMatch, OneClaim, Claiming, InWriterLock, At
  <2>3. Exclusion'
    BY <1>1, <1>7, <2>1 DEF WaitNoReaders, Go, OneClaim, Exclusion, Claiming, Counted, At
  <2>. QED
    BY <1>3, <2>2, <2>3
<1>8. CASE LeaveWriterLock(t)
  BY <1>1, <1>2, <1>3, <1>8
  DEF LeaveWriterLock, Go, EventsMatch, OneClaim, Exclusion, Claiming, InWriterLock, At
<1>9. CASE UnlockWrite(t)
  BY <1>1, <1>2, <1>3, <1>9
  DEF UnlockWrite, Go, EventsMatch, OneClaim, Exclusion, Claiming, InWriterLock, At
<1>. QED
  BY <1>4, <1>5, <1>6, <1>7, <1>8, <1>9 DEF WriterStep

(* A reader counts itself, tests writer_event and undoes its count. *)
LEMMA ReaderSteps ==
    ASSUME Inv, NEW t \in Threads,
           IncrementReaderCount(t) \/ TestWriterEvent(t) \/ UndoRead(t) \/ UnlockRead(t)
    PROVE  Inv'
<1>. PICK from \in ReaderLocations, to \in AllLocations : Go(t, from, to)
  BY DEF IncrementReaderCount, TestWriterEvent, UndoRead, UnlockRead, AllLocations,
         ReaderLocations
<1>1. /\ pc' \in [Threads -> AllLocations] /\ pc[t] = from /\ pc'[t] = to
      /\ \A u \in Threads \ {t} : pc'[u] = pc[u]
  BY Moves DEF Inv
<1>2. pc[t] \in ReaderLocations /\ pc'[t] \in ReaderLocations \cup {"out"}
  BY <1>1 DEF IncrementReaderCount, TestWriterEvent, UndoRead, UnlockRead, Go, Inv, TypeOK,
              ReaderLocations
<1>3. Claiming' = Claiming /\ InWriterLock' = InWriterLock
  BY <1>1, <1>2 DEF Claiming, InWriterLock, At, ReaderLocations
<1>4. UNCHANGED writer_event
  BY DEF IncrementReaderCount, TestWriterEvent, UndoRead, UnlockRead, DecrementReaderCount
<1>5. OneClaim'
  BY <1>1, <1>2, <1>3, <1>4 DEF Inv, OneClaim, ReaderLocations
<1>6. TypeOK' /\ EventsMatch'
  <2>. /\ readers_count \in Nat /\ readers_count = Cardinality(Counted)
       /\ no_readers_event \in BOOLEAN /\ (no_readers_event <=> readers_count = 0)
       /\ writer_event \in BOOLEAN /\ (writer_event <=> Claiming = {})
    BY DEF Inv, TypeOK, EventsMatch
  <2>1. CASE IncrementReaderCount(t)
    <3>1. pc[t] = "r_count" /\ pc'[t] = "r_test"
      BY <1>1, <2>1 DEF IncrementReaderCount, Go, Inv, TypeOK
    <3>2. Cardinality(Counted)' = Cardinality(Counted) + 1
      BY <1>1, <3>1, CountedMove
    <3>3. readers_count' = readers_count + 1 /\ no_readers_event' = FALSE
      BY <2>1 DEF IncrementReaderCount
    <3>4. readers_count' \in Nat /\ readers_count' # 0 /\ readers_count' = Cardinality(Counted)'
      BY <3>2, <3>3
    <3>5. TypeOK'
      BY <1>1, <1>4, <3>3, <3>4 DEF TypeOK, AllLocations
    <3>6. (writer_event <=> Claiming = {})'
      BY <1>3, <1>4
    <3>. QED
      BY <3>3, <3>4, <3>5, <3>6 DEF EventsMatch
  <2>2. CASE TestWriterEvent(t)
    <3>1. pc[t] = "r_test" /\ pc'[t] \in {"r_undo", "reading"}
      BY <1>1, <2>2 DEF TestWriterEvent, Go, Inv, TypeOK
    <3>2. Counted' = Counted
      BY <1>1, <3>1, CountedMove
    <3>. QED
      BY <1>1, <1>3, <1>4, <2>2, <3>2
      DEF TestWriterEvent, EventsMatch, TypeOK, AllLocations
  <2>3. CASE UndoRead(t) \/ UnlockRead(t)
    <3>1. pc[t] \in {"r_undo", "reading"} /\ pc'[t] \in {"r_wait", "out"}
      BY <1>1, <2>3 DEF UndoRead, UnlockRead, Go, Inv, TypeOK
    <3>2. Cardinality(Counted)' = Cardinality(Counted) - 1
      BY <1>1, <3>1, CountedMove
    <3>3. readers_count # 0
      BY <3>1, CountZero DEF Counted, At
    <3>4. readers_count' = readers_count - 1
      BY <2>3 DEF UndoRead, UnlockRead, DecrementReaderCount
    <3>5. readers_count' \in Nat /\ readers_count' = Cardinality(Counted)'
      BY <3>2, <3>3, <3>4
    <3>6. no_readers_event' = (no_readers_event \/ readers_count' <= 0)
      BY <2>3 DEF UndoRead, UnlockRead, DecrementReaderCount
    <3>7. readers_count' <= 0 <=> readers_count' = 0
      BY <3>5
    <3>8. no_readers_event' \in BOOLEAN /\ (no_readers_event' <=> readers_count' = 0)
      BY <3>3, <3>6, <3>7, Zenon
    <3>9. TypeOK'
      BY <1>1, <1>4, <3>5, <3>8 DEF TypeOK, AllLocations
    <3>10. (writer_event <=> Claiming = {})'
      BY <1>3, <1>4
    <3>. QED
      BY <3>5, <3>8, <3>9, <3>10 DEF EventsMatch
  <2>. QED
    BY <2>1, <2>2, <2>3
<1>7. Exclusion'
  <2>1. CASE pc'[t] = "reading"
    <3>1. TestWriterEvent(t) /\ writer_event
      BY <1>1, <2>1 DEF IncrementReaderCount, TestWriterEvent, UndoRead, UnlockRead, Go,
                        Inv, TypeOK
    <3>2. Claiming' = {}
      BY <1>3, <3>1 DEF Inv, EventsMatch
    <3>. QED
      BY <3>2 DEF Exclusion, Claiming, At
  <2>2. CASE pc'[t] # "reading"
    BY <1>1, <1>2, <2>2 DEF Inv, Exclusion, At, ReaderLocations
  <2>. QED
    BY <2>1, <2>2
<1>. QED
  BY <1>5, <1>6, <1>7 DEF Inv

-----------------------------------------------------------------------------
(* The invariant holds in every reachable state, for any finite set of
   threads. *)
THEOREM Invariance == Spec => []Inv
<1>1. Inv /\ [Next]_vars => Inv'
  <2>. SUFFICES ASSUME Inv, [Next]_vars PROVE Inv'
    OBVIOUS
  <2>1. CASE UNCHANGED vars
    BY <2>1 DEF vars, Inv, TypeOK, EventsMatch, OneClaim, Exclusion, Counted, Claiming,
                InWriterLock, At
  <2>2. CASE Next
    BY <2>2, PlainStep, WriterSteps, ReaderSteps DEF Next, ReaderStep, Release
  <2>. QED
    BY <2>1, <2>2
<1>. QED
  BY InitInv, <1>1, PTL DEF Spec

(* A writer that has passed its wait for no_readers_event is alone. *)
THEOREM MutualExclusion == Spec => []Exclusion
<1>1. Inv => Exclusion
  BY DEF Inv
<1>. QED
  BY Invariance, <1>1, PTL

(* One writer at a time is past writer_lock and one has claimed the lock, and nobody
   resets writer_event between the wait for it and the ResetEvent that follows. *)
THEOREM ClaimsExclusive == Spec => []OneClaim
<1>1. Inv => OneClaim
  BY DEF Inv
<1>. QED
  BY Invariance, <1>1, PTL

(* The two events and the counter mean what the comments on PlatformData say. *)
THEOREM EventsCorrect == Spec => []EventsMatch
<1>1. Inv => EventsMatch
  BY DEF Inv
<1>. QED
  BY Invariance, <1>1, PTL

-----------------------------------------------------------------------------
(* Each step is a Lock or an Unlock of the abstract lock, or changes nothing that
   it shows. *)
LEMMA StepRefines ==
    ASSUME Inv, Inv', [Next]_vars
    PROVE  [RW!Next]_Hold
<1>. TypeOK /\ TypeOK'
  BY DEF Inv
<1>1. CASE UNCHANGED vars
  BY <1>1 DEF vars, Hold
<1>. SUFFICES ASSUME NEW t \in Threads,
                     Call(t) \/ WriterStep(t) \/ ReaderStep(t) \/ Release(t)
              PROVE  [RW!Next]_Hold
  BY <1>1 DEF Next
<1>. PICK from \in AllLocations, to \in AllLocations : Go(t, from, to)
  BY DEF Call, CallRead, CallWrite, WriterStep, EnterWriterLock, WaitWriterEvent,
         ResetWriterEvent, WaitNoReaders, LeaveWriterLock, ReaderStep, WaitToRead,
         IncrementReaderCount, TestWriterEvent, UndoRead, Release, UnlockWrite, UnlockRead,
         AllLocations, ReaderLocations, WriterLocations
<1>2. pc[t] = from /\ pc'[t] = to /\ \A u \in Threads \ {t} : pc'[u] = pc[u]
  BY Moves
<1>3. CASE TestWriterEvent(t) /\ pc'[t] = "reading"
  <2>1. pc[t] = "r_test"
    BY <1>3 DEF TestWriterEvent, Go
  <2>2. \A u \in Threads : pc[u] \notin {"w_leave", "writing"}
    BY <1>2, <1>3, <2>1 DEF Inv, Exclusion, At
  <2>3. RW!Lock(t, "read")
    BY <1>2, <1>3, <2>1, <2>2 DEF RW!Lock, Hold
  <2>. QED
    BY <2>3 DEF RW!Next, RW!Access
<1>4. CASE WaitNoReaders(t)
  <2>1. pc[t] = "w_readers" /\ pc'[t] = "w_leave"
    BY <1>4 DEF WaitNoReaders, Go, TypeOK
  <2>2. \A u \in Threads : pc[u] \notin {"w_leave", "writing", "reading"}
    BY <1>2, <2>1 DEF Inv, Exclusion, At
  <2>3. RW!Lock(t, "write")
    BY <1>2, <2>1, <2>2 DEF RW!Lock, Hold
  <2>. QED
    BY <2>3 DEF RW!Next, RW!Access
<1>5. CASE Release(t)
  <2>1. pc[t] \in {"reading", "writing"} /\ pc'[t] = "out"
    BY <1>5 DEF Release, UnlockRead, UnlockWrite, Go, TypeOK
  <2>2. RW!Unlock(t)
    BY <1>2, <2>1 DEF RW!Unlock, Hold
  <2>. QED
    BY <2>2 DEF RW!Next
<1>6. CASE /\ ~Release(t) /\ ~WaitNoReaders(t)
           /\ ~(TestWriterEvent(t) /\ pc'[t] = "reading")
  <2>1. \/ pc[t] = "w_leave" /\ pc'[t] = "writing"
        \/ /\ pc[t] \notin {"reading", "w_leave", "writing"}
           /\ pc'[t] \notin {"reading", "w_leave", "writing"}
    BY <1>6
    DEF Call, CallRead, CallWrite, WriterStep, EnterWriterLock, WaitWriterEvent,
        ResetWriterEvent, LeaveWriterLock, ReaderStep, WaitToRead,
        IncrementReaderCount, TestWriterEvent, UndoRead, Go, TypeOK
  <2>2. UNCHANGED Hold
    BY <1>2, <2>1 DEF Hold
  <2>. QED
    BY <2>2
<1>. QED
  BY <1>3, <1>4, <1>5, <1>6

(* RWLock on Windows implements the abstract readers-writer lock. *)
THEOREM Refinement == Spec => ImplementsRWLock
<1>1. Init => RW!Init
  BY DEF Init, RW!Init, Hold
<1>2. Inv /\ Inv' /\ [Next]_vars => [RW!Next]_Hold
  BY StepRefines
<1>. QED
  BY <1>1, <1>2, Invariance, PTL DEF Spec, RW!Spec, ImplementsRWLock
=============================================================================
