----------------------------- MODULE ThreadPool -----------------------------
(***************************************************************************)
(* ut::ThreadPool and ut::Scheduler with pool_sync::Method::cond_var       *)
(* (include/thread/ut_thread_pool.h).                                      *)
(*                                                                         *)
(* The pool holds at most one task that no thread has taken yet            *)
(* (current_task).  A client or a running task creates a Scheduler,        *)
(* enqueues its children through it and calls WaitForCompletion.  A worker *)
(* that waits runs other tasks in the meantime, on top of its own stack.   *)
(*                                                                         *)
(* A frame is one activation on some stack: the thread procedure of a      *)
(* worker, a client, or the execution of a task.  A frame whose pc is      *)
(* "call" is suspended under the frame of a task it executes, so the top   *)
(* of a stack is the frame that is not in "call".  A Scheduler is named by *)
(* the frame that created it.                                              *)
(*                                                                         *)
(* What happens under ThreadPool::mutex or Scheduler::mutex between two    *)
(* waits is one action, except that the decrement of Scheduler::counter is *)
(* separate from the rest of its critical section, because a worker reads  *)
(* the counter without the mutex.                                          *)
(***************************************************************************)
EXTENDS Integers, FiniteSets

CONSTANTS
    Workers,   \* the threads of the pool
    Clients,   \* other threads that enqueue tasks
    Direct,    \* the clients that call ThreadPool::Enqueue without a Scheduler
    Owner,     \* the client that destroys the pool when all have returned
    Tasks,     \* the tasks
    Parent,    \* Parent[x]: the client or the task that enqueues x
    None

Frames == Workers \cup Clients \cup Tasks

ASSUME PoolAssumption ==
    /\ IsFiniteSet(Tasks)
    /\ Direct \subseteq Clients
    /\ Owner \in Clients
    /\ Parent \in [Tasks -> Clients \cup Tasks]
    /\ Workers \cap Clients = {} /\ Workers \cap Tasks = {} /\ Clients \cap Tasks = {}
    /\ None \notin Frames

Children(f) == {x \in Tasks : Parent[x] = f}

VARIABLES
    pc,            \* pc[f]: where frame f is
    current_task,  \* ThreadPool::current_task
    hold,          \* hold[f]: the task DispatchTask or Enqueue took for f to execute
    caller,        \* caller[x]: the frame on top of which task x executes
    issued,        \* tasks given to Scheduler::Enqueue or ThreadPool::Enqueue
    counter,       \* counter[f]: Scheduler::counter of the scheduler of f
    combined,      \* tasks whose result has been given to the combiner
    stop           \* ThreadPool::stop

vars == <<pc, current_task, hold, caller, issued, counter, combined, stop>>

WorkerLocations == {"dispatch", "asleep", "run", "call", "exited"}
ClientLocations == {"enqueue", "pool", "pool_wait", "wake", "wait", "cv_wait",
                    "returned", "join", "destroyed"}
TaskLocations == {"new", "enqueue", "pool", "wake", "wait", "poll", "run", "call",
                  "combine", "decrement", "notify", "done"}

TypeOK ==
    /\ pc \in [Frames -> WorkerLocations \cup ClientLocations \cup TaskLocations]
    /\ \A w \in Workers : pc[w] \in WorkerLocations
    /\ \A c \in Clients : pc[c] \in ClientLocations
    /\ \A x \in Tasks : pc[x] \in TaskLocations
    /\ current_task \in Tasks \cup {None}
    /\ hold \in [Frames -> Tasks \cup {None}]
    /\ caller \in [Tasks -> Frames \cup {None}]
    /\ issued \subseteq Tasks
    /\ counter \in [Clients \cup Tasks -> Nat]
    /\ combined \subseteq Tasks
    /\ stop \in BOOLEAN

(* Clients are about to enqueue, the workers have just been started. *)
Init ==
    /\ pc = [f \in Frames |-> CASE f \in Workers -> "dispatch"
                                [] f \in Clients -> "enqueue"
                                [] OTHER -> "new"]
    /\ current_task = None
    /\ hold = [f \in Frames |-> None]
    /\ caller = [x \in Tasks |-> None]
    /\ issued = {}
    /\ counter = [f \in Clients \cup Tasks |-> 0]
    /\ combined = {}
    /\ stop = FALSE

-----------------------------------------------------------------------------
(* Condition variables (external: pthread / CONDITION_VARIABLE).  A thread
   blocked on one stands at a location of its own and, when woken, tests its
   condition again.  q is p after WakeOne: some blocked frame, if there is any,
   goes on. *)
WakeOne(p, q, blocked, resumed) ==
    LET sleepers == {f \in Frames : p[f] = blocked}
    IN  IF sleepers = {}
        THEN q = p
        ELSE \E f \in sleepers : q = [p EXCEPT ![f] = resumed]

(* The scheduler of f is locked by a task that has just decremented its
   counter. *)
SchedulerLocked(f) == \E x \in Children(f) : pc[x] = "notify"

-----------------------------------------------------------------------------
(* Faulty form: the task is not counted. *)
Enqueue_NotCounted(f) ==
    /\ pc[f] = "enqueue"
    /\ Children(f) \ issued # {}
    /\ pc' = [pc EXCEPT ![f] = "pool"]
    /\ UNCHANGED <<counter, current_task, hold, caller, issued, combined, stop>>

(* Scheduler::Enqueue, first part: count the task.  A direct client goes
   straight to ThreadPool::Enqueue.  When all children have been enqueued the
   frame calls WaitForCompletion, a direct client returns. *)
Enqueue(f) ==
    /\ pc[f] = "enqueue"
    /\ Children(f) \ issued # {}
    /\ pc' = [pc EXCEPT ![f] = "pool"]
    /\ IF f \in Direct
       THEN UNCHANGED counter
       ELSE /\ ~SchedulerLocked(f)
            /\ counter' = [counter EXCEPT ![f] = @ + 1]
    /\ UNCHANGED <<current_task, hold, caller, issued, combined, stop>>

AllEnqueued(f) ==
    /\ pc[f] = "enqueue"
    /\ Children(f) \subseteq issued
    /\ pc' = [pc EXCEPT ![f] = IF f \in Direct THEN "returned" ELSE "wait"]
    /\ UNCHANGED <<current_task, hold, caller, issued, counter, combined, stop>>

(* Faulty form: a task that is still in the slot is overwritten. *)
PoolEnqueue_Overwrite(f, x) ==
    /\ pc[f] = "pool"
    /\ x \in Children(f) \ issued
    /\ current_task' = x
    /\ issued' = issued \cup {x}
    /\ pc' = [pc EXCEPT ![f] = "wake"]
    /\ UNCHANGED <<hold, caller, counter, combined, stop>>

(* ThreadPool::Enqueue under the mutex: put task x into current_task.  If it is
   occupied, a worker takes the old task for itself, another thread waits on
   pool_cvar. *)
PoolEnqueue(f, x) ==
    /\ pc[f] = "pool"
    /\ x \in Children(f) \ issued
    /\ f \in Clients => current_task = None
    /\ hold' = [hold EXCEPT ![f] = current_task]
    /\ current_task' = x
    /\ issued' = issued \cup {x}
    /\ pc' = [pc EXCEPT ![f] = "wake"]
    /\ UNCHANGED <<caller, counter, combined, stop>>

PoolEnqueueWait(f) ==
    /\ pc[f] = "pool"
    /\ f \in Clients
    /\ current_task # None
    /\ pc' = [pc EXCEPT ![f] = "pool_wait"]
    /\ UNCHANGED <<current_task, hold, caller, issued, counter, combined, stop>>

(* Frame f calls Execute() of the task it took: pc after the call, and the rest
   of the state. *)
Called(f) == [pc EXCEPT ![f] = "call", ![hold[f]] = "enqueue"]
Call(f) ==
    /\ caller' = [caller EXCEPT ![hold[f]] = f]
    /\ hold' = [hold EXCEPT ![f] = None]

(* Faulty form: no worker is notified of the new task. *)
PoolEnqueueWake_Silent(f) ==
    /\ pc[f] = "wake"
    /\ IF hold[f] = None
       THEN pc' = [pc EXCEPT ![f] = "enqueue"] /\ UNCHANGED <<hold, caller>>
       ELSE pc' = Called(f) /\ Call(f)
    /\ UNCHANGED <<current_task, issued, counter, combined, stop>>

(* ThreadPool::Enqueue after the mutex: wake a worker, then execute the task
   that was in the slot, if there was one. *)
PoolEnqueueWake(f) ==
    /\ pc[f] = "wake"
    /\ IF hold[f] = None
       THEN /\ WakeOne([pc EXCEPT ![f] = "enqueue"], pc', "asleep", "dispatch")
            /\ UNCHANGED <<hold, caller>>
       ELSE /\ WakeOne(Called(f), pc', "asleep", "dispatch")
            /\ Call(f)
    /\ UNCHANGED <<current_task, issued, counter, combined, stop>>

-----------------------------------------------------------------------------
(* Faulty form: the worker looks at stop before it looks for a task. *)
DispatchTask_StopFirst(w) ==
    /\ pc[w] = "dispatch"
    /\ IF stop
       THEN pc' = [pc EXCEPT ![w] = "exited"] /\ UNCHANGED <<hold, current_task>>
       ELSE IF current_task # None
            THEN /\ hold' = [hold EXCEPT ![w] = current_task]
                 /\ current_task' = None
                 /\ pc' = [pc EXCEPT ![w] = "run"]
            ELSE pc' = [pc EXCEPT ![w] = "asleep"] /\ UNCHANGED <<hold, current_task>>
    /\ UNCHANGED <<caller, issued, counter, combined, stop>>

(* DispatchTask(true), under the mutex, called by the thread procedure of a
   worker: take the task, or exit, or wait on worker_cvar. *)
DispatchTask(w) ==
    /\ pc[w] = "dispatch"
    /\ IF current_task # None
       THEN /\ hold' = [hold EXCEPT ![w] = current_task]
            /\ current_task' = None
            /\ pc' = [pc EXCEPT ![w] = "run"]
       ELSE /\ pc' = [pc EXCEPT ![w] = IF stop THEN "exited" ELSE "asleep"]
            /\ UNCHANGED <<hold, current_task>>
    /\ UNCHANGED <<caller, issued, counter, combined, stop>>

(* DispatchTask after the mutex: wake a client that waits for the slot to become
   free, execute the task. *)
RunDispatched(f) ==
    /\ pc[f] = "run"
    /\ WakeOne(Called(f), pc', "pool_wait", "pool")
    /\ Call(f)
    /\ UNCHANGED <<current_task, issued, counter, combined, stop>>

(* WaitForCompletion in a worker thread: read the counter, without the mutex. *)
ReadCounter(x) ==
    /\ x \in Tasks
    /\ pc[x] = "wait"
    /\ pc' = [pc EXCEPT ![x] = IF counter[x] = 0 THEN "combine" ELSE "poll"]
    /\ UNCHANGED <<current_task, hold, caller, issued, counter, combined, stop>>

(* ... and DispatchTask(false): take a task; or give up if the pool is about to
   exit; or return and read the counter again. *)
Poll(x) ==
    /\ pc[x] = "poll"
    /\ IF current_task # None
       THEN /\ hold' = [hold EXCEPT ![x] = current_task]
            /\ current_task' = None
            /\ pc' = [pc EXCEPT ![x] = "run"]
       ELSE /\ pc' = [pc EXCEPT ![x] = IF stop THEN "combine" ELSE "wait"]
            /\ UNCHANGED <<hold, current_task>>
    /\ UNCHANGED <<caller, issued, counter, combined, stop>>

(* Faulty form: the wait ends one task too early. *)
WaitForCompletion_OffByOne(c) ==
    /\ c \in Clients
    /\ pc[c] = "wait"
    /\ ~SchedulerLocked(c)
    /\ pc' = [pc EXCEPT ![c] = IF counter[c] <= 1 THEN "returned" ELSE "cv_wait"]
    /\ UNCHANGED <<current_task, hold, caller, issued, counter, combined, stop>>

(* WaitForCompletion in another thread: wait on Scheduler::cvar. *)
WaitForCompletion(c) ==
    /\ c \in Clients
    /\ pc[c] = "wait"
    /\ ~SchedulerLocked(c)
    /\ pc' = [pc EXCEPT ![c] = IF counter[c] = 0 THEN "returned" ELSE "cv_wait"]
    /\ UNCHANGED <<current_task, hold, caller, issued, counter, combined, stop>>

-----------------------------------------------------------------------------
(* pc after the execution of task x ends: its frame is gone, the frame under it
   goes on with what it was doing (a worker dispatches, a task enqueues the next
   child or continues to wait). *)
Returned(x) ==
    [pc EXCEPT ![x] = "done",
               ![caller[x]] = IF caller[x] \in Workers THEN "dispatch" ELSE "enqueue"]

(* Scheduler::ExecuteTask after the task itself has run: combine the result under
   combiner_lock.  A task of a direct client has no scheduler and is finished. *)
Combine(x) ==
    /\ pc[x] = "combine"
    /\ IF Parent[x] \in Direct
       THEN pc' = Returned(x) /\ UNCHANGED combined
       ELSE /\ combined' = combined \cup {x}
            /\ pc' = [pc EXCEPT ![x] = "decrement"]
    /\ UNCHANGED <<current_task, hold, caller, issued, counter, stop>>

(* ... take the mutex and decrement the counter ... *)
Decrement(x) ==
    /\ pc[x] = "decrement"
    /\ ~SchedulerLocked(Parent[x])
    /\ counter' = [counter EXCEPT ![Parent[x]] = @ - 1]
    /\ pc' = [pc EXCEPT ![x] = "notify"]
    /\ UNCHANGED <<current_task, hold, caller, issued, combined, stop>>

(* ... wake the thread that waits on this scheduler, release the mutex, return.
   If the scheduler is already gone (see WaitsUntilAllFinish) the call is made on
   a destroyed object; the model lets it have no effect. *)
Notify(x) ==
    /\ pc[x] = "notify"
    /\ pc' = [Returned(x) EXCEPT ![Parent[x]] = IF @ = "cv_wait" THEN "wait" ELSE @]
    /\ UNCHANGED <<current_task, hold, caller, issued, counter, combined, stop>>

-----------------------------------------------------------------------------
(* ~ThreadPool, called by the owner when nobody will use the pool any more: set
   stop, wake all workers ... *)
SetStop ==
    /\ \A c \in Clients : pc[c] = "returned"
    /\ stop' = TRUE
    /\ pc' = [f \in Frames |-> CASE f = Owner -> "join"
                                 [] pc[f] = "asleep" -> "dispatch"
                                 [] OTHER -> pc[f]]
    /\ UNCHANGED <<current_task, hold, caller, issued, counter, combined>>

(* ... and join them. *)
Join ==
    /\ pc[Owner] = "join"
    /\ \A w \in Workers : pc[w] = "exited"
    /\ pc' = [pc EXCEPT ![Owner] = "destroyed"]
    /\ UNCHANGED <<current_task, hold, caller, issued, counter, combined, stop>>

(* A wait on a condition variable may return without a call to WakeOne. *)
SpuriousWake(f) ==
    /\ pc[f] \in {"asleep", "pool_wait", "cv_wait"}
    /\ pc' = [pc EXCEPT ![f] = CASE @ = "asleep" -> "dispatch"
                                 [] @ = "pool_wait" -> "pool"
                                 [] @ = "cv_wait" -> "wait"]
    /\ UNCHANGED <<current_task, hold, caller, issued, counter, combined, stop>>

FrameStep(f) ==
    \/ Enqueue(f) \/ AllEnqueued(f)
    \/ \E x \in Tasks : PoolEnqueue(f, x)
    \/ PoolEnqueueWait(f) \/ PoolEnqueueWake(f)
    \/ DispatchTask(f) \/ RunDispatched(f)
    \/ ReadCounter(f) \/ Poll(f) \/ WaitForCompletion(f)
    \/ Combine(f) \/ Decrement(f) \/ Notify(f)

Next ==
    \/ \E f \in Frames : FrameStep(f) \/ SpuriousWake(f)
    \/ SetStop \/ Join

(* Every thread that is not blocked runs; the owner destroys the pool.  Nothing
   makes a spurious wake-up happen. *)
Fairness ==
    /\ \A f \in Frames : WF_vars(FrameStep(f))
    /\ WF_vars(SetStop) /\ WF_vars(Join)

Spec == Init /\ [][Next]_vars /\ Fairness

-----------------------------------------------------------------------------
(* Tasks some frame has taken and not yet called, and tasks that are over. *)
Held == {x \in Tasks : \E f \in Frames : hold[f] = x}
Finished == {x \in Tasks : pc[x] = "done"}

(* No task is lost or executed twice, whichever of the four ways it takes
   (dispatched, polled, executed at once by Enqueue, drained at the end): an
   issued task is in exactly one place, and two frames never hold the same. *)
TasksConserved ==
    /\ \A x \in Tasks :
          /\ pc[x] # "new" => x \in issued /\ x # current_task /\ x \notin Held
          /\ x \in Held => x \in issued /\ x # current_task
          /\ x \in issued => pc[x] # "new" \/ x = current_task \/ x \in Held
    /\ \A f, g \in Frames : hold[f] # None /\ hold[f] = hold[g] => f = g

(* Scheduler::counter counts the tasks that have been announced and have not yet
   been decremented, also while Enqueue stands between the count and the slot. *)
CounterCounts ==
    \A f \in (Clients \cup Tasks) \ Direct :
        counter[f] = Cardinality({x \in Children(f) \cap issued :
                                      pc[x] \notin {"notify", "done"}})
                     + IF pc[f] \in {"pool", "pool_wait"} THEN 1 ELSE 0

(* What has become of a client or task, for the abstract pool. *)
Outcome(f) ==
    IF f \in Clients
    THEN IF pc[f] \in {"returned", "join", "destroyed"} THEN "done" ELSE "running"
    ELSE IF f \notin issued THEN "new"
    ELSE IF pc[f] = "new" THEN "queued"
    ELSE IF f \in combined \/ pc[f] = "done" THEN "done" ELSE "running"

Outcomes == [f \in Clients \cup Tasks |-> Outcome(f)]

Abstract == INSTANCE Pool WITH state <- Outcomes, closing <- stop

(* The pool keeps the promise of the abstract one: a task is executed once, and
   WaitForCompletion returns with all results in the combiner, for a client in any
   case, for a task in a worker thread unless the pool is being destroyed (then
   DispatchTask(false) returns false and the loop is left). *)
ImplementsPool == Abstract!Spec

(* When the destructor has joined the workers, every task that was enqueued has
   been executed, tasks that were enqueued by tasks after stop was set included. *)
Drained == pc[Owner] = "destroyed" => current_task = None /\ issued = Finished

(* Every client returns from WaitForCompletion and the destructor from its joins:
   whatever the nesting, workers that wait for each other's tasks never wait for
   ever, and no wake-up is lost. *)
Terminates == <>(pc[Owner] = "destroyed")

(* What the comment of WaitForCompletion says: "Waits until all tasks finish."
   The scheduler may be destroyed as soon as WaitForCompletion returns, so a task
   that is still inside Scheduler::ExecuteTask has not finished. *)
WaitsUntilAllFinish ==
    \A f \in (Clients \cup Tasks) \ Direct :
        pc[f] \in {"combine", "decrement", "notify", "done", "returned"}
            => Children(f) \subseteq Finished
=============================================================================
