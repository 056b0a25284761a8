------------------------------ MODULE RWLockWin ------------------------------
(***************************************************************************)
(* ut::RWLock as built on Windows (src/thread/ut_lock.cpp): two            *)
(* manual-reset events and two critical sections.                          *)
(*                                                                         *)
(* writer_lock is held across several waits, so every call made inside it  *)
(* is an action of its own.  readers_count is only touched inside          *)
(* reader_lock, and each of the two sections makes one change other        *)
(* threads can see (of no_readers_event): IncrementReaderCount and         *)
(* DecrementReaderCount are one action each.                               *)
(***************************************************************************)
EXTENDS Naturals, FiniteSets

CONSTANT Threads

ASSUME ThreadsFinite == IsFiniteSet(Threads)

VARIABLES
    pc,                \* pc[t]: where thread t is in RWLock::Lock / Unlock
    writer_event,      \* data->writer_event is signalled
    no_readers_event,  \* data->no_readers_event is signalled
    readers_count      \* data->readers_count

vars == <<pc, writer_event, no_readers_event, readers_count>>

(* A reader waits for writer_event, is about to count itself, to test the event
   again, to undo the count, and reads.  A writer is about to enter writer_lock,
   to wait for writer_event, to reset it, to wait for no_readers_event, to leave
   writer_lock, and writes. *)
ReaderLocations == {"r_wait", "r_count", "r_test", "r_undo", "reading"}
WriterLocations == {"w_enter", "w_event", "w_reset", "w_readers", "w_leave",
                    "writing"}

At(locs) == {t \in Threads : pc[t] \in locs}

(* Owners of the critical section, threads counted as readers, and threads that
   have reset writer_event and not set it again. *)
InWriterLock == At({"w_event", "w_reset", "w_readers", "w_leave"})
Counted == At({"r_test", "r_undo", "reading"})
Claiming == At({"w_readers", "w_leave", "writing"})

TypeOK ==
    /\ pc \in [Threads -> {"out"} \cup ReaderLocations \cup WriterLocations]
    /\ writer_event \in BOOLEAN
    /\ no_readers_event \in BOOLEAN
    /\ readers_count \in Nat

(* RWLock::Create: both events are created signalled. *)
Init ==
    /\ pc = [t \in Threads |-> "out"]
    /\ writer_event = TRUE
    /\ no_readers_event = TRUE
    /\ readers_count = 0

Go(t, from, to) == pc[t] = from /\ pc' = [pc EXCEPT ![t] = to]

-----------------------------------------------------------------------------
(* Lock(Access::write). *)
CallWrite(t) ==
    /\ Go(t, "out", "w_enter")
    /\ UNCHANGED <<writer_event, no_readers_event, readers_count>>

(* Faulty form: the critical section is missing. *)
EnterWriterLock_Free(t) ==
    /\ Go(t, "w_enter", "w_event")
    /\ UNCHANGED <<writer_event, no_readers_event, readers_count>>

EnterWriterLock(t) ==
    /\ InWriterLock = {}
    /\ Go(t, "w_enter", "w_event")
    /\ UNCHANGED <<writer_event, no_readers_event, readers_count>>

WaitWriterEvent(t) ==
    /\ writer_event
    /\ Go(t, "w_event", "w_reset")
    /\ UNCHANGED <<writer_event, no_readers_event, readers_count>>

(* Faulty form: the event is left signalled (as if it were auto-reset and the
   wait of a reader had not consumed it). *)
ResetWriterEvent_Missing(t) ==
    /\ Go(t, "w_reset", "w_readers")
    /\ UNCHANGED <<writer_event, no_readers_event, readers_count>>

ResetWriterEvent(t) ==
    /\ Go(t, "w_reset", "w_readers")
    /\ writer_event' = FALSE
    /\ UNCHANGED <<no_readers_event, readers_count>>

WaitNoReaders(t) ==
    /\ no_readers_event
    /\ Go(t, "w_readers", "w_leave")
    /\ UNCHANGED <<writer_event, no_readers_event, readers_count>>

LeaveWriterLock(t) ==
    /\ Go(t, "w_leave", "writing")
    /\ UNCHANGED <<writer_event, no_readers_event, readers_count>>

(* Unlock(Access::write). *)
UnlockWrite(t) ==
    /\ Go(t, "writing", "out")
    /\ writer_event' = TRUE
    /\ UNCHANGED <<no_readers_event, readers_count>>

-----------------------------------------------------------------------------
(* Lock(Access::read): wait, count yourself, test again, undo and start over if
   a writer has come in the meantime. *)
CallRead(t) ==
    /\ Go(t, "out", "r_wait")
    /\ UNCHANGED <<writer_event, no_readers_event, readers_count>>

WaitToRead(t) ==
    /\ writer_event
    /\ Go(t, "r_wait", "r_count")
    /\ UNCHANGED <<writer_event, no_readers_event, readers_count>>

IncrementReaderCount(t) ==
    /\ Go(t, "r_count", "r_test")
    /\ readers_count' = readers_count + 1
    /\ no_readers_event' = FALSE
    /\ UNCHANGED writer_event

(* Faulty form: the second test of writer_event is missing. *)
TestWriterEvent_Skipped(t) ==
    /\ Go(t, "r_test", "reading")
    /\ UNCHANGED <<writer_event, no_readers_event, readers_count>>

(* Faulty form: the second test is made on the other event. *)
TestWriterEvent_WrongEvent(t) ==
    /\ Go(t, "r_test", IF no_readers_event THEN "reading" ELSE "r_undo")
    /\ UNCHANGED <<writer_event, no_readers_event, readers_count>>

(* Faulty form: a reader that gives up forgets to undo its count. *)
TestWriterEvent_NoUndo(t) ==
    /\ Go(t, "r_test", IF writer_event THEN "reading" ELSE "r_wait")
    /\ UNCHANGED <<writer_event, no_readers_event, readers_count>>

TestWriterEvent(t) ==
    /\ Go(t, "r_test", IF writer_event THEN "reading" ELSE "r_undo")
    /\ UNCHANGED <<writer_event, no_readers_event, readers_count>>

(* Faulty form: a reader that leaves others behind signals, the last does not. *)
DecrementReaderCount_NotLast ==
    /\ readers_count' = readers_count - 1
    /\ no_readers_event' = (no_readers_event \/ readers_count' > 0)
    /\ UNCHANGED writer_event

DecrementReaderCount ==
    /\ readers_count' = readers_count - 1
    /\ no_readers_event' = (no_readers_event \/ readers_count' <= 0)
    /\ UNCHANGED writer_event

UndoRead(t) == Go(t, "r_undo", "r_wait") /\ DecrementReaderCount

(* Unlock(Access::read). *)
UnlockRead(t) == Go(t, "reading", "out") /\ DecrementReaderCount

-----------------------------------------------------------------------------
Call(t) == CallWrite(t) \/ CallRead(t)

WriterStep(t) ==
    \/ EnterWriterLock(t) \/ WaitWriterEvent(t) \/ ResetWriterEvent(t)
    \/ WaitNoReaders(t) \/ LeaveWriterLock(t)

ReaderStep(t) ==
    \/ WaitToRead(t) \/ IncrementReaderCount(t) \/ TestWriterEvent(t)
    \/ UndoRead(t)

Release(t) == UnlockWrite(t) \/ UnlockRead(t)

Next == \E t \in Threads : Call(t) \/ WriterStep(t) \/ ReaderStep(t) \/ Release(t)

(* The scheduler runs every thread that can run, and a thread that holds the
   lock releases it.  Nothing makes a thread call Lock. *)
Fairness ==
    \A t \in Threads :
        WF_vars(WriterStep(t)) /\ WF_vars(ReaderStep(t)) /\ WF_vars(Release(t))

Spec == Init /\ [][Next]_vars /\ Fairness

-----------------------------------------------------------------------------
(* A thread that writes is alone: no reader got past its second test of
   writer_event and no other writer past writer_lock.  The writer counts from
   the moment its wait for no_readers_event returned. *)
Exclusion ==
    \A t \in At({"w_leave", "writing"}), u \in At({"w_leave", "writing", "reading"}) :
        t = u

(* The events and the counter mean what their comments say, at every moment:
   no_readers_event "is set when readers_count is null", readers_count counts
   the threads between IncrementReaderCount and DecrementReaderCount, and
   writer_event is down exactly while one writer has claimed the lock. *)
EventsMatch ==
    /\ readers_count = Cardinality(Counted)
    /\ no_readers_event <=> readers_count = 0
    /\ writer_event <=> Claiming = {}

(* What makes the events sufficient: writer_lock has one owner, the lock is
   claimed by one writer at a time, and between its wait for writer_event and
   its ResetEvent nobody else can have reset the event. *)
OneClaim ==
    /\ \A t, u \in InWriterLock : t = u
    /\ \A t, u \in Claiming : t = u
    /\ \A t \in Threads : pc[t] = "w_reset" => writer_event

(* The lock implements RWLock.  A writer has the lock from the moment
   no_readers_event let it through. *)
Hold == [t \in Threads |-> CASE pc[t] = "reading" -> "read"
                              [] pc[t] \in {"w_leave", "writing"} -> "write"
                              [] OTHER -> "none"]

RW == INSTANCE RWLock WITH hold <- Hold

ImplementsRWLock == RW!Spec

(* A writer inside writer_lock is never overtaken and never starved, however
   many readers keep coming; one that waits for writer_lock may be overtaken,
   but then another writer gets in. *)
WritersProgress ==
    /\ \A t \in Threads : pc[t] = "w_event" ~> pc[t] = "writing"
    /\ At({"w_enter"}) # {} ~> At({"writing"}) # {}

(* Readers are starved by writers only: when writer_event stays signalled, every
   reader in the loop gets in, and the loop of count and undo ends. *)
ReadersProgress ==
    <>[]writer_event
        => \A t \in Threads : pc[t] \in {"r_wait", "r_undo"} ~> pc[t] = "reading"
=============================================================================
