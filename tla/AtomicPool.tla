----------------------------- MODULE AtomicPool -----------------------------
(***************************************************************************)
(* ut::ThreadPool and ut::Scheduler with pool_sync::Method::atomic         *)
(* (include/thread/ut_atomic_thread_pool.h).                               *)
(*                                                                         *)
(* Each thread of the pool has a slot for one task, guarded by the integer *)
(* busy: 0 free, 1 being filled, 2 filled or executing.  Enqueue scans the *)
(* threads for a free slot; a thread of the pool that finds none executes  *)
(* the task itself, on top of its stack, another thread scans again.       *)
(* Everybody polls; nobody sleeps.                                         *)
(*                                                                         *)
(* Frames are the ones of ThreadPool: the job of a thread, a client, or    *)
(* the execution of a task; a frame in "call" is suspended under the frame *)
(* of a task it executes.  Each interlocked operation is one action.       *)
(***************************************************************************)
EXTENDS Integers, FiniteSets

CONSTANTS
    Size,      \* the number of threads; thread i is threads[i - 1]
    Clients,   \* other threads that enqueue tasks
    Direct,    \* the clients that call ThreadPool::Enqueue without a Scheduler
    Owner,     \* the client that destroys the pool when all have returned
    Tasks,     \* the tasks
    Parent,    \* Parent[x]: the client or the task that enqueues x
    None

Threads == 1 .. Size
Frames == Threads \cup Clients \cup Tasks

ASSUME AtomicPoolAssumption ==
    /\ Size \in Nat \ {0}
    /\ IsFiniteSet(Tasks)
    /\ Direct \subseteq Clients
    /\ Owner \in Clients
    /\ Parent \in [Tasks -> Clients \cup Tasks]
    /\ Threads \cap Clients = {} /\ Threads \cap Tasks = {} /\ Clients \cap Tasks = {}
    /\ None \notin Frames

(* A task of a direct client enqueues nothing itself: it could still be scanning
   the threads while the destructor of the pool destroys them one by one, which
   is undefined. *)
ASSUME DirectTasksAreLeaves ==
    \A x, y \in Tasks : Parent[x] \in Direct => Parent[y] # x

(* No task enqueues itself, directly or through others: it would have to run before
   it is enqueued. *)
ASSUME ParentWellFounded ==
    \A S \in SUBSET Tasks : S # {} => \E x \in S : Parent[x] \notin S

Children(f) == {x \in Tasks : Parent[x] = f}

VARIABLES
    pc,            \* pc[f]: where frame f is
    busy,          \* busy[t]: AtomicPoolJob::busy
    slot,          \* slot[t]: AtomicPoolJob::task
    exit_request,  \* exit_request[t]: Job::exit_request
    joined,        \* the threads [1 .. joined] have been joined and destroyed
    hold,          \* hold[f]: the argument of the Enqueue that f is in
    scan,          \* scan[f]: the thread that Enqueue looks at
    caller,        \* caller[x]: the frame on top of which task x executes
    this_thread,   \* this_thread[f]: the thread of the pool that f runs on, or None
    issued,        \* tasks given to Scheduler::Enqueue or ThreadPool::Enqueue
    counter,       \* counter[f]: Scheduler::counter of the scheduler of f
    combined       \* tasks whose result has been given to the combiner

jobs == <<busy, slot, exit_request, joined>>
search == <<hold, scan>>
stack == <<caller, this_thread>>
progress == <<issued, counter, combined>>
vars == <<pc, jobs, search, stack, progress>>

ThreadLocations == {"loop", "look", "call", "free", "exited"}
ClientLocations == {"enqueue", "scan", "move", "store", "wait", "returned", "join",
                    "destroyed"}
TaskLocations == {"new", "enqueue", "scan", "move", "store", "call", "wait",
                  "combine", "decrement", "done"}

TypeOK ==
    /\ pc \in [Frames -> ThreadLocations \cup ClientLocations \cup TaskLocations]
    /\ \A t \in Threads : pc[t] \in ThreadLocations
    /\ \A c \in Clients : pc[c] \in ClientLocations
    /\ \A x \in Tasks : pc[x] \in TaskLocations
    /\ busy \in [Threads -> 0 .. 2]
    /\ slot \in [Threads -> Tasks \cup {None}]
    /\ exit_request \in [Threads -> BOOLEAN]
    /\ joined \in 0 .. Size
    /\ hold \in [Frames -> Tasks \cup {None}]
    /\ scan \in [Frames -> 1 .. Size + 1]
    /\ caller \in [Tasks -> Frames \cup {None}]
    /\ this_thread \in [Frames -> Threads \cup {None}]
    /\ issued \subseteq Tasks
    /\ counter \in [Clients \cup Tasks -> Nat]
    /\ combined \subseteq Tasks

Init ==
    /\ pc = [f \in Frames |-> CASE f \in Threads -> "loop"
                                [] f \in Clients -> "enqueue"
                                [] OTHER -> "new"]
    /\ busy = [t \in Threads |-> 0]
    /\ slot = [t \in Threads |-> None]
    /\ exit_request = [t \in Threads |-> FALSE]
    /\ joined = 0
    /\ hold = [f \in Frames |-> None]
    /\ scan = [f \in Frames |-> 1]
    /\ caller = [x \in Tasks |-> None]
    /\ this_thread = [f \in Frames |-> IF f \in Threads THEN f ELSE None]
    /\ issued = {}
    /\ counter = [f \in Clients \cup Tasks |-> 0]
    /\ combined = {}

Goto(f, location) == pc' = [pc EXCEPT ![f] = location]

-----------------------------------------------------------------------------
(* Faulty form: the task is not counted. *)
Enqueue_NotCounted(f, x) ==
    /\ pc[f] = "enqueue"
    /\ x \in Children(f) \ issued
    /\ issued' = issued \cup {x}
    /\ hold' = [hold EXCEPT ![f] = x]
    /\ scan' = [scan EXCEPT ![f] = 1]
    /\ Goto(f, "scan")
    /\ UNCHANGED <<jobs, stack, counter, combined>>

(* Scheduler::Enqueue counts the task (a direct client does not) and calls
   ThreadPool::Enqueue, which begins to scan. *)
Enqueue(f, x) ==
    /\ pc[f] = "enqueue"
    /\ x \in Children(f) \ issued
    /\ issued' = issued \cup {x}
    /\ counter' = [counter EXCEPT ![f] = IF f \in Direct THEN @ ELSE @ + 1]
    /\ hold' = [hold EXCEPT ![f] = x]
    /\ scan' = [scan EXCEPT ![f] = 1]
    /\ Goto(f, "scan")
    /\ UNCHANGED <<jobs, stack, combined>>

AllEnqueued(f) ==
    /\ pc[f] = "enqueue"
    /\ Children(f) \subseteq issued
    /\ Goto(f, IF f \in Direct THEN "returned" ELSE "wait")
    /\ UNCHANGED <<jobs, search, stack, progress>>

(* Faulty form: whoever finds the slot not yet filled may fill it. *)
SetTask_Racy(f) ==
    /\ pc[f] = "scan"
    /\ scan[f] <= Size
    /\ IF scan[f] # this_thread[f] /\ busy[scan[f]] # 2
       THEN /\ busy' = [busy EXCEPT ![scan[f]] = 1]
            /\ Goto(f, "move")
            /\ UNCHANGED scan
       ELSE /\ scan' = [scan EXCEPT ![f] = @ + 1]
            /\ UNCHANGED <<pc, busy>>
    /\ UNCHANGED <<slot, exit_request, joined, hold, stack, progress>>

(* One round of the loop over the threads: skip the own thread; SetTask claims a
   free slot by compare-exchange, or the loop goes on. *)
SetTask(f) ==
    /\ pc[f] = "scan"
    /\ scan[f] <= Size
    /\ IF scan[f] # this_thread[f] /\ busy[scan[f]] = 0
       THEN /\ busy' = [busy EXCEPT ![scan[f]] = 1]
            /\ Goto(f, "move")
            /\ UNCHANGED scan
       ELSE /\ scan' = [scan EXCEPT ![f] = @ + 1]
            /\ UNCHANGED <<pc, busy>>
    /\ UNCHANGED <<slot, exit_request, joined, hold, stack, progress>>

(* Frame f calls Execute() of task x. *)
Execute(f, x) ==
    /\ caller' = [caller EXCEPT ![x] = f]
    /\ this_thread' = [this_thread EXCEPT ![x] = this_thread[f]]
    /\ pc' = [pc EXCEPT ![f] = "call", ![x] = "enqueue"]

(* Faulty form: a thread of the pool scans again, too. *)
ScanEnd_NoSelf(f) ==
    /\ pc[f] = "scan"
    /\ scan[f] = Size + 1
    /\ scan' = [scan EXCEPT ![f] = 1]
    /\ UNCHANGED <<pc, jobs, hold, stack, progress>>

(* Nobody has accepted the task: a thread of the pool executes it at once, another
   thread tries again. *)
ScanEnd(f) ==
    /\ pc[f] = "scan"
    /\ scan[f] = Size + 1
    /\ scan' = [scan EXCEPT ![f] = 1]
    /\ IF this_thread[f] \in Threads
       THEN Execute(f, hold[f]) /\ hold' = [hold EXCEPT ![f] = None]
       ELSE UNCHANGED <<pc, hold, stack>>
    /\ UNCHANGED <<jobs, progress>>

(* SetTask after the compare-exchange: move the task into the slot (which deletes
   the one that was there) ... *)
MoveTask(f) ==
    /\ pc[f] = "move"
    /\ slot' = [slot EXCEPT ![scan[f]] = hold[f]]
    /\ hold' = [hold EXCEPT ![f] = None]
    /\ Goto(f, "store")
    /\ UNCHANGED <<busy, exit_request, joined, scan, stack, progress>>

(* ... and publish it. *)
StoreBusy(f) ==
    /\ pc[f] = "store"
    /\ busy' = [busy EXCEPT ![scan[f]] = 2]
    /\ scan' = [scan EXCEPT ![f] = 1]
    /\ Goto(f, "enqueue")
    /\ UNCHANGED <<slot, exit_request, joined, hold, stack, progress>>

-----------------------------------------------------------------------------
(* AtomicPoolJob::Execute: read exit_request ... *)
ReadExitRequest(t) ==
    /\ pc[t] = "loop"
    /\ Goto(t, IF exit_request[t] THEN "exited" ELSE "look")
    /\ UNCHANGED <<jobs, search, stack, progress>>

(* Faulty form: the slot is free before the task has been executed. *)
ReadBusy_FreeFirst(t) ==
    /\ pc[t] = "look"
    /\ IF busy[t] = 2
       THEN Execute(t, slot[t]) /\ busy' = [busy EXCEPT ![t] = 0]
       ELSE Goto(t, "loop") /\ UNCHANGED <<busy, stack>>
    /\ UNCHANGED <<slot, exit_request, joined, search, progress>>

(* ... read busy and execute the task, if there is one ... *)
ReadBusy(t) ==
    /\ pc[t] = "look"
    /\ IF busy[t] = 2
       THEN Execute(t, slot[t])
       ELSE Goto(t, "loop") /\ UNCHANGED stack
    /\ UNCHANGED <<jobs, search, progress>>

(* ... and free the slot again. *)
StoreFree(t) ==
    /\ pc[t] = "free"
    /\ busy' = [busy EXCEPT ![t] = 0]
    /\ Goto(t, "loop")
    /\ UNCHANGED <<slot, exit_request, joined, search, stack, progress>>

(* Faulty form: the wait ends one task too early. *)
WaitForCompletion_OffByOne(f) ==
    /\ pc[f] = "wait"
    /\ counter[f] <= 1
    /\ Goto(f, IF f \in Clients THEN "returned" ELSE "combine")
    /\ UNCHANGED <<jobs, search, stack, progress>>

(* Scheduler::WaitForCompletion, in any thread: poll the counter. *)
WaitForCompletion(f) ==
    /\ pc[f] = "wait"
    /\ counter[f] = 0
    /\ Goto(f, IF f \in Clients THEN "returned" ELSE "combine")
    /\ UNCHANGED <<jobs, search, stack, progress>>

(* pc after the execution of task x ends: the frame under it goes on. *)
Returned(x) ==
    [pc EXCEPT ![x] = "done",
               ![caller[x]] = IF caller[x] \in Threads THEN "free" ELSE "enqueue"]

(* Scheduler::ExecuteTask after the task itself has run: combine the result under
   the lock of the scheduler.  A task of a direct client is finished. *)
Combine(x) ==
    /\ pc[x] = "combine"
    /\ IF Parent[x] \in Direct
       THEN pc' = Returned(x) /\ UNCHANGED combined
       ELSE /\ combined' = combined \cup {x}
            /\ Goto(x, "decrement")
    /\ UNCHANGED <<jobs, search, stack, issued, counter>>

(* ... and count the task off; nothing of the scheduler is used after that. *)
Decrement(x) ==
    /\ pc[x] = "decrement"
    /\ counter' = [counter EXCEPT ![Parent[x]] = @ - 1]
    /\ pc' = Returned(x)
    /\ UNCHANGED <<jobs, search, stack, issued, combined>>

-----------------------------------------------------------------------------
(* The destructor of the pool destroys the threads one by one, when nobody will
   enqueue any more: ~Thread sends the exit request ... *)
RequestExit ==
    /\ joined < Size
    /\ \/ \A c \in Clients : pc[c] = "returned"
       \/ pc[Owner] = "join"
    /\ ~exit_request[joined + 1]
    /\ exit_request' = [exit_request EXCEPT ![joined + 1] = TRUE]
    /\ Goto(Owner, "join")
    /\ UNCHANGED <<busy, slot, joined, search, stack, progress>>

(* ... and waits for the end of the thread.  A task that was accepted and not
   started is deleted with its slot. *)
Join ==
    /\ pc[Owner] = "join"
    /\ exit_request[joined + 1]
    /\ pc[joined + 1] = "exited"
    /\ joined' = joined + 1
    /\ Goto(Owner, IF joined + 1 = Size THEN "destroyed" ELSE "join")
    /\ UNCHANGED <<busy, slot, exit_request, search, stack, progress>>

FrameStep(f) ==
    \/ \E x \in Tasks : Enqueue(f, x)
    \/ AllEnqueued(f)
    \/ SetTask(f) \/ ScanEnd(f) \/ MoveTask(f) \/ StoreBusy(f)
    \/ ReadExitRequest(f) \/ ReadBusy(f) \/ StoreFree(f)
    \/ WaitForCompletion(f) \/ Combine(f) \/ Decrement(f)

Next ==
    \/ \E f \in Frames : FrameStep(f)
    \/ RequestExit \/ Join

(* Every thread runs (the waits are polls), and the owner destroys the pool. *)
Fairness ==
    /\ \A f \in Frames : WF_vars(FrameStep(f))
    /\ WF_vars(RequestExit) /\ WF_vars(Join)

Spec == Init /\ [][Next]_vars /\ Fairness

-----------------------------------------------------------------------------
Executing(x) == pc[x] \notin {"new", "done"}

(* The threads in whose slot x has been published and not yet been taken. *)
SlotsWith(x) == {t \in Threads : slot[t] = x /\ busy[t] = 2 /\ pc[t] \in {"loop", "look"}}
Dropped == {x \in Tasks : /\ pc[x] = "new"
                          /\ \E t \in Threads : /\ slot[t] = x
                                                /\ busy[t] = 2
                                                /\ pc[t] = "exited"}
BeingMoved(x) ==
    {f \in Clients \cup Tasks : hold[f] = x \/ (pc[f] = "store" /\ slot[scan[f]] = x)}

(* No task is lost or executed twice, whether it is executed by the thread that
   accepted it or by the thread that could not get rid of it: a task that has been
   enqueued and not been started is in one place, the hands of the thread that
   enqueues it or one slot, and is lost only if that thread exits first. *)
TasksConserved ==
    \A x \in Tasks :
        Cardinality(BeingMoved(x)) + Cardinality(SlotsWith(x))
            = IF pc[x] = "new" /\ x \in issued \ Dropped THEN 1 ELSE 0

(* SetTask deletes the old task of a slot when it moves the new one in.  The task
   that a thread of the pool executes is never the one deleted: it stays in the
   slot, and the slot stays busy, until its execution has returned. *)
ExecutedTaskKept ==
    \A x \in Tasks : Executing(x) /\ caller[x] \in Threads
        => slot[caller[x]] = x /\ busy[caller[x]] = 2

(* WaitForCompletion waits until all tasks finish, and since the caller may then
   destroy the scheduler, no task of it uses the scheduler any more (compare
   ThreadPool!WaitsUntilAllFinish). *)
WaitsUntilAllFinish ==
    \A f \in (Clients \cup Tasks) \ Direct :
        pc[f] \in {"combine", "decrement", "done", "returned", "join", "destroyed"}
            => \A x \in Children(f) : pc[x] = "done" /\ x \in combined

(* What has become of a client or task, for the abstract pool. *)
Outcome(f) ==
    IF f \in Clients
    THEN IF pc[f] \in {"returned", "join", "destroyed"} THEN "done" ELSE "running"
    ELSE IF f \notin issued THEN "new"
    ELSE IF f \in Dropped THEN "dropped"
    ELSE IF pc[f] = "new" THEN "queued"
    ELSE IF f \in combined \/ pc[f] = "done" THEN "done" ELSE "running"

Outcomes == [f \in Clients \cup Tasks |-> Outcome(f)]

(* The destructor of the pool has begun. *)
Closing == pc[Owner] \in {"join", "destroyed"}

Abstract == INSTANCE Pool WITH state <- Outcomes, closing <- Closing

(* The pool keeps the promise of the abstract one, down to what its destructor may
   drop. *)
ImplementsPool == Abstract!Spec

(* Every client returns and the destructor ends, although a thread of the pool
   that waits for its tasks does nothing else: a task is only ever given to a
   thread that is idle. *)
Terminates == <>(pc[Owner] = "destroyed")
=============================================================================
