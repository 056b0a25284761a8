# A TLA+ model of universal_tools

universal_tools (`ut`) is a C++ library: threads and locks, smart pointers, containers, streams,
text formats, reflection and serialization, networking, a console and a log. This directory holds
TLA+ modules that model the parts of it in which several threads meet and its linked containers, the
TLC configurations that check them on small instances, and TLAPS proofs for any number of threads,
tasks, pointers and connections. All paths below are relative to `source/ut/` of the repository unless they begin with `source/`.

Contents: [inventory](#inventory), [modules](#modules), [runs](#runs), [fairness](#fairness),
[proofs](#proofs), [disagreements](#disagreements-between-code-and-comments),
[what is not modelled](#what-is-not-modelled), [plan](#plan).

## Inventory

| component | state | operations | what is hard, what must hold |
|---|---|---|---|
| Reader-writer lock (`src/thread/ut_lock.cpp`) | Unix: mutex, two condition variables, four counters. Windows: two events, two critical sections, `readers_count` | `Lock`, `Unlock` for read and write | a woken thread is overtaken; a signal hits the wrong thread; Windows readers count themselves before they know whether they may read. Exclusion, no lost wake-up, nobody starves writers |
| Thread pool with condition variables (`include/thread/ut_thread_pool.h`) | one slot `current_task`, `stop`; per scheduler a `counter` | `Enqueue`, `DispatchTask`, `WaitForCompletion`, destructor | tasks that enqueue tasks and wait for them in a worker; the slot is full; shutdown with tasks left. Nothing lost or run twice, every wait ends |
| Thread pool with atomics (`ut_atomic_thread_pool.h`) | `busy`, `task`, `exit_request` per thread, `counter` | the same, by polling | two threads that fill one slot; a slot freed under its task; a task accepted while the thread exits; everybody waiting in a worker |
| Shared and weak pointers (`include/pointers/`) | strong and weak count of each controller | construct, copy, move, assign, `Reset`, `Pin`, destroy | another thread runs between a decrement and the destruction it causes, between read and compare-exchange. Alive while owned, destroyed once, no leak |
| Synchronization point (`src/thread/ut_sync.cpp`) | queue of requests, cached occupant thread, `active` per request | `AcquireLock`, `Lock::Release`, `Synchronize` | two threads that wait for each other by turns; recursion. One holder, recursion never waits, every call returns |
| Thread, Job (`src/thread/ut_thread.cpp`) | `active`, the OS thread, the job | `Start`, `Exit`, `Join`, `Kill` | join from the thread itself, double join |
| Mutex, condition variable, atomics | OS primitives | wrappers | used by everything above |
| Network (`src/net/`) | host: `active`, connections; connection: `active`, thread, socket lock | `Run`, `ShutDown`, `CloseConnection`, `SendCommand`; the loop of a connection thread | a connection deleted by its own thread, by a user and by `ShutDown`; locks held while joining and while receiving. A destructor waits for the thread, readers find live connections, shutdown ends and leaves nothing |
| AVL tree (`include/containers/ut_avltree.h`) | nodes linked by raw pointers, `balance` | `Insert`, `Remove`, `Find`, `Reset`, copy, move, iterate | a removal frees a subtree it takes for a leaf; parents after a rotation. Ordered, balanced, no leak |
| Hash maps (`include/containers/ut_hashmap.h`) | dense: nodes and lookup table; sparse: table, collision nodes, links by index | `Insert`, `Remove`, `Find`, `Reset`, rehash, iterate | indices after a removal or an insertion in the middle. What was inserted is found and can be removed |
| Console, log (`src/system/ut_console.cpp`, `src/dbg/ut_log.cpp`) | `allocated` flag under a lock, input buffer, output sequence; log file and reflection flag | open, close, read, write; start, end, write | nested read locks against a waiting writer; order of lines |
| Signals (`include/events/ut_signal.h`) | array of slots | connect, reset, call | a slot that changes the signal that calls it |
| Reflection and serialization (`meta/`) | linker: tasks, links, caches of shared objects | save, load, link | an object loaded before or after the pointer to it; one failing task |
| Other containers, streams, text, encryption, hashes, math, templates, system | values of one thread | many | sequential |

How they interact. The pool, the synchronization point, the console, the log and the network hosts
are built from `Thread`, `Mutex`, `ConditionVariable` and `RWLock`; `SyncPoint` keeps its requests
in `SharedPtr` and refers to them and to the occupant by `WeakPtr`, so it relies on `Pin`. A host
calls back into a connection and a connection into its host, both with locks held. The list of
everything that is hard to test, with the line where it bites and the property that looks at it, is
`hazards` in `PROJECT.json`.

## Modules

| module | models | role |
|---|---|---|
| `RWLock` | the promise of `ut::RWLock` | abstract specification |
| `RWLockUnix`, `RWLockWin` | the two implementations | refine `RWLock` |
| `RWLockUnixProofs`, `RWLockWinProofs` | - | theorems about the two locks |
| `Pool` | the promise of both thread pools | abstract specification |
| `ThreadPool`, `MCThreadPool`, `ThreadPoolProofs` | `ThreadPool` and `Scheduler`, `Method::cond_var` | refines `Pool`; instance; theorems |
| `AtomicPool`, `MCAtomicPool`, `AtomicPoolProofs` | the same, `Method::atomic` | refines `Pool`; instance; theorems |
| `NetHost`, `NetHostProofs` | `Host`, `Server`, `Client`, `Connection`, their actions | composed with `RWLock`; theorems |
| `SharedPtr`, `MCSharedPtr`, `SharedPtrProofs` | `SharedPtr`, `WeakPtr`, `RefController` | component, instance, theorems |
| `SyncPoint`, `SyncPointProofs` | `SyncPoint`, `SyncPoint::Lock`, `SyncPoint::Request` | component, theorems |
| `AVLTree` | `AVLTree` with its nodes and iterators | component |
| `DenseHashMap`, `SparseHashMap` | the two hash maps, as operators on a value | algorithms |
| `HashMaps`, `MCHashMaps`, `HashMapsProofs` | sequences of operations on either map | component, instance, theorems |
| `MCContainers` | `AVLTree` and `MCHashMaps`, one or the other | instance |

`map` in `PROJECT.json` gives the source lines of each definition. Definitions named `X_...`
(marked "Faulty form") are variants of `X` with a plausible mistake; no specification uses them.
They show that each property can fail: with `X` replaced by the variant named in `mutants`,
TLC finds the property violated.

**Atomic actions.** A section of code that runs with a mutex held, from taking it (or from returning
from a wait) to releasing it (or to the next wait), is one action when everything it touches is
touched only with that mutex. Where something is read without the mutex, the section is cut there:
the decrement of `Scheduler::counter`, the test of `occupant_thread`. A wait on a condition variable
puts the thread in a location of its own; a wake-up moves it to the location that tests the
condition again; spurious wake-ups are possible everywhere, which also covers a signal that wakes
more than one thread. An interlocked operation is one action. The code uses sequentially consistent
operations or mutexes for what is modelled, so steps are interleaved.

**RWLockUnix.** `pc[t]` is where a thread stands, the other variables are the fields of
`PlatformData`. `LockRead`/`LockWrite` are `Lock` up to its first wait or its return,
`ResumeRead`/`ResumeWrite` one more round of the loop, `UnlockRead`/`UnlockWrite` the whole of
`Unlock` with the signal or broadcast it makes. A thread uses the lock without recursion.

**RWLockWin.** Each call made inside `writer_lock` is an action, because the section is held across
two waits. A writer has the lock from the return of its wait for `no_readers_event`
(`w_leave`), a reader from its second, successful test of `writer_event`.

**ThreadPool.** A frame is an activation: a worker's thread procedure, a client, or a running task;
a frame in `call` lies under the task it executes. So the stack of a worker that runs tasks while it
waits is part of the state. `Parent` says which client or task enqueues which task; a client in
`Direct` uses the pool without a scheduler; `Owner` destroys the pool when the clients are done.
Combining a result is an event (`combined`): how values combine does not matter. If a scheduler is
already destroyed when `ExecuteTask` wakes its waiter, the behaviour is undefined; the model
lets the call have no effect, so that the other properties are checked for the benign outcome, and
run `thread_pool_nested` shows that the situation arises.

**Pool.** A client or task is new, queued, running, done or dropped. `Finish` is the promise of
`WaitForCompletion`: what was enqueued through a scheduler is done. A task that nobody waits for may be
dropped by the destructor (the atomic pool does drop it, the other one does not). `ThreadPool` and
`AtomicPool` map their locations, slots and stacks to this state (`Outcome`); a task counts as done when
its result is combined. While the pool is being destroyed a wait may be broken off, as
`ut_thread_pool.h:112-115` does.

**AtomicPool.** The frames of `ThreadPool`, and per thread of the pool the fields of `AtomicPoolJob`.
Each read, store, compare-exchange, increment and decrement is an action, and so is the move of the task
between `busy = 1` and `busy = 2`. `scan[f]` is the loop variable of `Enqueue`, so that a thread can free
its slot behind the scan. The destructor joins the threads one after the other (`joined`).
A direct client's tasks enqueue nothing (`DirectTasksAreLeaves`): such a task may run while the
array it would scan is being destroyed, which is undefined.

**NetHost.** One process per thread: `runner` is in `Server::Run` or `Client::Run` (`kind`), each
connection has its thread (`pc[k]`), `owner` calls `ShutDown`, `user` calls `SendCommand` and
`CloseConnection`. Host::connections is an array under a `ut::RWLock`, for which the module uses the
abstract `RWLock` with its preference of writers; `receiving[k]` is the lock of the socket during a blocking
receive. The connection's actions are the loop of `SendCommandFromStack` and `ReceiveCommand`
that the sample uses. The destructor of a connection goes through the steps of `Connection::ShutDown`:
reset `active`, shut the socket down, delete the `Thread`, which waits for the thread unless it is the
own one. An error, a peer that closes and a timeout are all a failing send or receive.
What is in a command, and how many wait in a connection's queue, changes nothing that the threads do next
(an idle command is sent when there is none), so the queue is left out; what a command does when it is executed
is to call `SendCommand` or nothing that matters here.
The model puts no condition on the peers and the application: a peer connects, closes or fails, a command
sends commands, and `ShutDown`, `CloseConnection` and `SendCommand` are called at any time, also before `Run` or while
a connection is set up, ends or is closed by somebody else. The code then uses destroyed connections
([disagreement](#disagreements-between-code-and-comments) 5), which is undefined; the model goes on with the
benign outcome: a destroyed connection keeps its members, and the address read from it may be that of any
connection (`Found`), which `CloseConnection` would then close. Connections are interchangeable, so a new one
takes the first name that is free (`Construct`).
The properties say what holds nevertheless. `DestructorWaitsForThread`: when somebody else destroys a connection, its
thread is not sending, receiving or executing; it has ended, or is at the one place (waiting for the lock in its own
`CloseConnection`) where it is not waited for, or the connection is one that a server has just started.
`OnlyLastSurvivesShutDown`: of all connections only the one that `Run` was setting up is left.
`ShutDownReturns` and `ClosedIsRemoved`: everything ends, but for a thread that joins, with the lock held, a thread that
waits for this lock (`Deadlocked`, disagreement 6). A state of this kind never ends, so the alternative excuses no other
wait: for the socket lock, for the write lock, for a thread in its loop.
`Stopping` restricts the properties of `ShutDown` to a host that had been activated: if `Run` begins
later it activates the host again, and goes on for ever.

**AVLTree.** `heap` is the memory of all trees, `root[t]` a tree, and `content[t]` the set of keys
that the calls so far should have left. Pairs of mirrored functions are one definition with the side as
a parameter. A deallocated node is `Blank` memory, so a write through a dangling pointer shows.
Values are left out, they move with the keys. An assignment of a tree to itself reads
destroyed nodes (lines 446-448) and is left out.

**DenseHashMap, SparseHashMap, HashMaps.** The maps are values and their operations operators, with the
code's growth rule (`max_density_level`, `capacity_multiplier`); `HashMaps` applies them in any order.
The nodes of the sparse map are one sequence, the table first and then the collision nodes, as its iterators
number them: a link is a place in it, and `collision_nodes.Remove` is a removal from it. The recursions of the code
along a chain and its loops over the nodes are recursive functions.
`content` has the keys inserted and not reported as removed.

**SharedPtr.** A slot is the memory of one pointer, used by one thread; threads share controllers.
Destroying, assigning and resetting start with `Release` and go through `ReleaseStrongRef`,
`DestroyObject`, `ReleaseWeakRef`, `DestroyController` and `Construct`; `Pin` reads, then
compares and exchanges. `operator=(&&)` copies, as its comment says. `Reset()` of a `SharedPtr`
creates a controller for the null object, as the code does, which the model does not tell apart from
a new object. A moved-from pointer loses its controller and keeps its `object`
(`ut_shared_ptr.h:83-85`); `obj` and `ref` are separate variables for this reason. Calling `Get()`
on it gives an object it does not own, although the comment at line 148 says "or nullptr if no
object is owned"; properties about ownership look at `ref`.

**SyncPoint.** `locks[t]` is the stack of locks a thread has acquired, an entry `Null` being the
empty lock given to the occupant. A request is named by its thread and an id, and an id is used again
when nothing refers to the request, like the memory of the object. `TestOccupant` reads what is left
in the `Optional` if the occupant was reset after the test: this is what a build without assertions
does (a build with assertions fails there, disagreement 3). A lock is released by
the thread that acquired it, last acquired first.

## Runs

| run | instance | states | shows |
|---|---|---|---|
| `rwlock_unix` | 4 threads, spurious wake-ups | 1,430 | `Exclusion`, `CountersMatch`, `NoLostWakeup`, refinement of `RWLock`, `WritersProgress`, `ReadersProgress`, no deadlock |
| `rwlock_win` | 3 threads | 1,035 | `Exclusion`, `EventsMatch`, `OneClaim`, refinement, progress, no deadlock |
| `thread_pool` | 2 workers, 2 clients, 5 tasks | 470,498 | `TasksConserved`, `CounterCounts`, `Drained`, refinement of `Pool`, `Terminates` |
| `thread_pool_nested` | 2 workers, 1 client, 2 tasks | violation | `WaitsUntilAllFinish` fails |
| `atomic_pool` | 2 threads, 2 clients, 5 tasks | 52,952 | `TasksConserved`, `ExecutedTaskKept`, `WaitsUntilAllFinish`, refinement of `Pool`, `Terminates` |
| `shared_ptr` | 2 threads, 5 pointers, 2 controllers | 220,717 | `CountsMatch`, `OwnedAlive`, `NoUseAfterDelete`, `NoLeak`, `NeverRevived` |
| `sync_point` | 3 threads, 1 syncer, nesting 2 | 50,434 | `OneHolder`, `OccupantMatches`, `NestedNeverWaits`, `AllReturn`, no deadlock |
| `sync_point_two` | 2 threads, 2 syncers | violation | `NestedNeverWaits` fails |
| `net_host` | server or client, 2 connections | 194,818 | `ReadersSeeLiveConnections`, `OnlyLastSurvivesShutDown`, `DestructorWaitsForThread`, `ShutDownReturns`, `ClosedIsRemoved` |
| `net_host_destroy` | client, 1 connection | violation | `DestructorClosesThread` fails |
| `containers` | both kinds of hash map, 7 keys; 2 trees, 5 keys, 5 nodes | 163,479 | `Consistent`, `Contents`, `TreeWellFormed`, `TreeContents`, no deadlock |
| `hash_map_remove` | both kinds of hash map, 7 keys | violation | `PresentIsRemoved` fails |

Bounds, and why they are enough for the cases that matter:

- *Locks.* With four threads on Unix two readers can overlap, one writer be woken and another
  overtake it. With three on Windows two readers overlap with a writer, or two writers meet a
  reader in its undo loop. Safety is proved for any number.
- *Thread pool.* Two tasks of one client (the slot is full, the client blocks), one of them with a
  child (a worker waits in a worker; a worker finds the slot full and swaps), and a direct task
  with a child that is enqueued after `stop` was set. Two workers are the fewest for which one waits for
  the other. A pool is destroyed when no client uses it, so the run ends: deadlock is not checked,
  `Terminates` is.
- *Pointers.* One thread has two strong pointers and a weak one, the other one of each: a thread can
  pin what the other releases, assign between objects, and hold two references. Two controllers
  are the bound on objects created (`CanCreate`); the initial state gives the first object to any
  subset of slots. When all objects are gone nothing has to happen, so deadlock is not checked.
- *Synchronization point.* Three threads, so that one has the lock, one is in the batch and one in the
  queue; `Depth` 2 is recursion; two ids per thread suffice, one in use and one that the syncer
  still refers to. With two syncers three ids.
- *Atomic pool.* As for the other pool; the tasks of the client have a child each, so both threads of the
  pool can wait in a task at once and each can find the other one busy or free. The direct task
  can be accepted and not started when its thread is told to exit.
- *Network.* Two connections, so that one is set up, sends or receives while another is closed, and the host
  closes two in turn, while a server accepts the second during the shutdown. The run ends when everything is shut down,
  and may deadlock (disagreement 6): deadlock is not checked, `ShutDownReturns` is, which says what else may not happen.
- *AVL tree.* Five keys give the balanced shapes of up to five nodes (three levels), all four rotations on insertion and on removal,
  removals of nodes with zero, one and two children at the root and below it, and rotations whose inner
  grandchild exists. Two trees share the five nodes, so that copies and moves mix with
  reuse of memory.
- *Hash maps.* Seven keys are two rehashes after the first table of the sparse map and one of the dense map.
  `MCHash` puts up to four keys in one bucket, and some that share a bucket are separated by the next
  rehash.

The type invariants hold in these instances too. They are not listed as properties of the runs, because
each exact counter property says more.

## Fairness

Every thread that can run runs: weak fairness of the steps of a call that has begun. A thread that
holds a lock releases it. Nothing makes a thread call `Lock`, `AcquireLock` or create a pointer, and
nothing makes a spurious wake-up happen. For the synchronization point the code expects `Synchronize`
to be called again and again (weak fairness), and a holder that keeps taking and dropping nested
locks releases the outer one in the end (strong fairness of the release of the last lock). A mutex that
is free again and again is assumed to be given to each waiting thread: one section under a mutex is one
action and sections are short, so weak fairness says so. For the atomic pool the waits are polls: weak fairness of each
thread. A thread of a host, its connections or its owner that waits for the lock of the connections gets it in the end (strong
fairness of the steps that take it; nothing of the kind is assumed for the user): the others release it again and again, which the operating system's mutexes turn into
a turn for each waiter, and a blocking receive ends, since the peer sends its idle command or
the socket times out (part of the weak fairness of a connection thread). Nothing makes clients connect, connections
fail, or the owner and the user call anything. The progress properties claim no more than
the code gives: on both platforms *some* writer gets in, and readers only when writers pause.

## Proofs

Every safety invariant and action property of the passing runs, and every refinement, is also a theorem, except those of
`AVLTree`. The theorems hold for every value of the constants that satisfies the assumptions below.

| module | theorems (property) | hypotheses beyond the distinctness of names |
|---|---|---|
| `RWLockUnixProofs` | `TypeCorrect`, `MutualExclusion` (`Exclusion`), `CountersCorrect` (`CountersMatch`), `WakeupsSuffice` (`NoLostWakeup`), `Refinement` (`ImplementsRWLock`) | finitely many threads |
| `RWLockWinProofs` | `MutualExclusion` (`Exclusion`), `ClaimsExclusive` (`OneClaim`), `EventsCorrect` (`EventsMatch`), `Refinement` (`ImplementsRWLock`) | finitely many threads |
| `ThreadPoolProofs` | `TypeCorrect`, `TasksNeverLost` (`TasksConserved`), `CounterCorrect` (`CounterCounts`), `DestructorDrains` (`Drained`), `Refinement` (`ImplementsPool`) | finitely many tasks; for `Drained` at least one worker, as nobody executes anything otherwise |
| `AtomicPoolProofs` | `TypeCorrect`, `TasksNeverLost` (`TasksConserved`), `ExecutedTaskSafe` (`ExecutedTaskKept`), `SchedulerOutlivesTasks` (`WaitsUntilAllFinish`), `Refinement` (`ImplementsPool`) | finitely many tasks, which form a forest (`ParentWellFounded`); `DirectTasksAreLeaves` |
| `SharedPtrProofs` | `TypeCorrect`, `CountsCorrect` (`CountsMatch`), `OwnersSafe` (`OwnedAlive`), `ControllersSafe` (`NoUseAfterDelete`), `NothingLeaks` (`NoLeak`), `ExpiredStaysExpired` (`NeverRevived`) | finitely many threads, pointers, controllers; no pointer is assigned to itself (`~SelfAssign`, disagreement 2) |
| `SyncPointProofs` | `TypeCorrect`, `SingleHolder` (`OneHolder`), `OccupantCorrect` (`OccupantMatches`), `RecursiveAcquireSafe` (`NestedNeverWaits`) | one thread calls `Synchronize` (`OneSyncer`, disagreement 4) |
| `NetHostProofs` | `TypeCorrect`, `ReadersSafe` (`ReadersSeeLiveConnections`), `DestructorWaits` (`DestructorWaitsForThread`), `ShutDownLeavesLast` (`OnlyLastSurvivesShutDown`) | some connection can be made |
| `HashMapsProofs` | `AlwaysConsistent` (`Consistent`), `AlwaysContents` (`Contents`), `DenseRemoves` (`PresentIsRemoved`, of the dense map) | keys are numbers, not 0; hashes are natural numbers |

The hypotheses `~SelfAssign` and `OneSyncer` are needed: without them properties
fail, as the disagreements show. The properties are not inductive as they stand. Each module
defines an inductive invariant `Inv` of named parts, proves that every action preserves it (one lemma per action
or group of actions, one step per part), and derives the properties from it. The arguments:

- *Unix lock.* `Lock` decides by the counters, so exclusion
  needs that they are exact; that `writers' = 1` keeps `writers` exact needs exclusion. Whether a
  wake-up is sent is decided by `write_waiters` and `read_waiters`, so `NoLostWakeup` needs both. The
  invariant is the conjunction of types, counters, exclusion and wake-ups. That counters are cardinalities
  rests on lemma `CountMove`: one thread that moves into, out of, or within a set of locations
  changes its cardinality by one or not at all.
- *Windows lock.* Exclusion follows from what the events mean: `writer_event` is down while a writer claims
  the lock, `no_readers_event` is up when nobody is counted, and a reader tests after it has
  counted itself. That the events keep this meaning needs `OneClaim`: only the owner of `writer_lock`
  stands between its wait for `writer_event` and `ResetEvent`.
- *Pool with condition variables.* A thread asleep on a condition variable and the same thread woken are one
  location for the invariant (`at`), so wake-ups, lost or spurious, cannot disturb it. `Holds`: a task that
  is not executed is in `current_task` or with one frame about to execute it. `Stack` and `Grounded`: executing tasks
  lie on top of each other, and below each stack is a worker. So a worker that has left its loop has no task above it,
  and the last one that leaves finds `current_task` empty (`LastOut`): this is `Drained`. For the refinement,
  whoever is past `WaitForCompletion` has enqueued all its tasks and has their results (`Results`).
- *Pool with atomics.* `Claims`: who moved `busy` from 0 to 1 is alone with the slot until it stores 2.
  `SlotsFilled`: from then until the thread stores 0, the slot belongs to the thread. Then a task is in one
  place until it starts (`OnePlace`), executes on one frame (`Stack`), and is counted until it is done (`Counters`).
- *Pointers.* A pointer has a claim on a controller from its construction to its decrement (`own`, `obs`). The
  strong pointers have one weak reference together, which passes to the thread that drops the last of them
  (`dying`); who drops the last weak reference is alone with the controller (`deleting`). The counts are the
  numbers of claims (`Counted`), and what is alive is what somebody has a claim on (`Lives`). `Pin` needs that the weak
  pointer it reads stays, which holds as no other thread uses it (`Ops`).
- *Synchronization point.* The invariant follows a request: its issuer points to it; it waits in
  the list or behind the head of the batch; as the head it becomes active; its issuer has it as a lock; `Finish` makes it
  inactive. At most the head of the batch is active and every real lock is active, so there is one holder, and the
  occupant is the thread of that head.
- *Network.* Who adds, destroys or removes connections has the array locked for writing and is alone with it
  (`Locks`). So the array has exactly the live connections, but for what its writer has destroyed and not yet removed and
  what a server has made and not yet added (`Array`, `Closers`): a reader finds live ones. A thread that may still send or
  receive has a Thread object, unless the connection was destroyed or the object is being assigned (`Threads`), so a
  destructor that finds none may go on; a client assigns with the array locked, so the last case is a server's.
  `Survivor`: after `ShutDown` the array is empty until `Run`, which was past its test of `active`, adds one
  connection, and it then finds the host inactive. Most steps move one thread and leave the array alone; lemma
  `PlainStep` says once what such a step must respect. `RemoveFound`, the shift of `Array::Remove`, is defined
  pointwise, and lemma `Removed` says what it leaves.
- *Hash maps.* The invariant is `Consistent`, that no two nodes have one key, and that the keys in the nodes are
  `content`. For the dense map, an insertion or removal at a place moves all later nodes by one; the buckets keep
  dividing the array because an interval that does not contain the place is on one side of it (`DenseInsert`,
  `DenseTakeOut`), and the stale index of an empty bucket does not matter. For the sparse map, the nodes of a bucket are
  one chain (`SparseChain`: of two of them, the first one has a link, and it does not lead past the second),
  so a search from the head meets every key of the bucket and one from anywhere ends at the same
  last node. Both removals of a collision node, moving its child into its place and cutting off the tail, leave one
  node that nothing links to (`SparseCut`), and taking it out with the links shifted keeps chains and keys
  (`SparseDrop`). `ReallocAndRehash` has copied the keys up to a place after that many steps, in a table that is
  large enough for `EmplacePair` to keep its assertion. Induction is by the least or the greatest counterexample (`Least`,
  `Greatest`), and for each recursive function it is proved first that the function exists
  (`TailRecursionExists`, `DenseLoopExists`, `SparseLoopExists`). These functions are written with `IF`: in an arm of a
  `CASE`, tlapm 1.4.5 does not recognise the recursive use of the function and takes it for something else. Sizes are numbers without a bound: a table whose size does
  not fit into `size_t` is out of memory before.
- *Refinements.* From the invariant, each step of an implementation is a step of the abstract specification under the
  mapping (`Hold`, `Outcomes` and the flag that the pool is closing), or leaves the mapping unchanged.

The inductive invariants were found with TLC, which checked them on small instances before they were proved.

Only model-checked: the liveness properties (`WritersProgress`, `ReadersProgress`, `Terminates`, `AllReturn`,
`ShutDownReturns`, `ClosedIsRemoved`), for which the prover has no rules for fairness, and everything about `AVLTree`:
it uses recursive operators on trees, of which the prover has no induction.

## Disagreements between code and comments

1. `thread_pool_nested`: `WaitForCompletion` in a worker reads `counter` without the mutex
   (`include/thread/ut_thread_pool.h:110`) and may return, and the scheduler be destroyed, while another
   worker is still inside `ExecuteTask`. The comment: "Waits until all tasks finish."
2. Assigning the last `SharedPtr` to itself destroys the object it goes on owning
   (`include/pointers/ut_shared_ptr.h:189`); the header (lines 25-29) lists when an object is destroyed, and
   this is not among them. To see it: `SelfAssign = TRUE` in `MCSharedPtr.cfg`; `OwnedAlive` fails (and `NoUseAfterDelete`).
3. `AcquireLock` may call `Optional::Get` on an empty `Optional` (`src/thread/ut_sync.cpp:128`), which
   asserts (`include/templates/ut_optional.h:157`). To see it: check the invariant `OccupantAsserted` under
   `SyncPoint.cfg`.
4. `sync_point_two`: with two threads in `Synchronize` a nested `AcquireLock` waits for ever
   (`src/thread/ut_sync.cpp:41`), although `Synchronize` "is thread-safe".
5. `net_host_destroy`: a connection that ends by itself, as its peer has closed, is inactive; if the host destroys it
   then, the destructor does not wait for its thread (`src/net/ut_connection.cpp:120-124`), which goes on to
   `Host::CloseConnection` with the address of a destroyed connection. The comment
   (`include/net/ut_connection.h:31`): "Destructor, shuts socket down and closes connection thread." A server has
   another such window: it looks up the last connection and starts its thread after it has released the lock
   (`src/net/ut_server.cpp:86`), so the connection can be destroyed before its `Thread` is stored. To see this one:
   without its last disjunct `DestructorWaitsForThread` fails under `NetHost.cfg`.
6. `Host::ShutDown` and `CloseConnection` join a connection thread with the write lock of the connections held; a
   thread that executes a command which calls `Host::SendCommand`, as the sample's message command does
   (`source/samples/commie/commands/message_cmd.cpp:132`), waits for the read lock: neither returns. To see it:
   check the invariant `NeverDeadlocked` under `NetHost.cfg`. And a connection that a server accepts in the poll during
   which `ShutDown` is called stays, with its thread running, although `ShutDown` "closes all active
   connections" (`include/net/ut_host.h:37`): the exception in `OnlyLastSurvivesShutDown`.
7. `hash_map_remove`: `SparseHashMap::Remove` passes over every second collision node
   (`include/containers/ut_hashmap.h:953`) and returns `false` for a key that is there, which the comment
   (lines 741-742) reserves for a key that is not.
8. `AVLTree::Remove` of a node with two children moves the successor's pair, key included, and then looks for
   the successor by the moved key (`include/containers/ut_avltree.h:808-811`). A `String` key is left empty by the
   move, so the successor is not found and stays as a node with an empty key. To see it:
   `MoveClearsKey = TRUE` in `MCContainers.cfg`; `TreeContents` fails (insert 1, 2, 3, remove 2).

Also noticed: the comment at `ut_avltree.h:30` defines the balance as left minus right, the code computes
right minus left (line 1009), consistently.

## What is not modelled

- Construction, moving and destruction of locks, mutexes and condition variables; a scheduler that
  two threads wait on; a `SyncPoint::Lock` handed to another thread. A second release of a lock does nothing
  (`Release` empties it), so the model releases once. Self-assignment of a pointer, and keys that a move empties, are
  switched off in the runs (disagreements 2 and 8).
- The thread-unsafe mode of the pointers (the same operations by one thread); casts between pointers.
- Failures of OS primitives: the code throws, and no component recovers.
- Network: failures of `Bind`, `Listen` and of memory (`Run` returns), the contents of messages, what the slots of
  the signals do, a `SendCommand` action outside the loop.
- Containers: `Array`, `Tree`, the iterators' post-decrement; the values of the maps.
- Console and log. The input thread is started before the pointer it uses is assigned
  (`ut_console.cpp:134`), `SetInput` and `Sync` take a read lock twice (342, 388), which can deadlock with a
  waiting `Close`, and `Close` kills the input thread whatever locks it holds (590). So the calls
  are safe only if `Open` and `Close` overlap with nothing, and what is left under that condition, one
  mutex around the output, has no property worth a model. `Thread::Kill` is used there alone.
- Serialization: its state is the object graph of the application, and its code is templates over types.
- Text parsers and formatting, encryption, hashes, math, types and platform code: sequential and
  data-driven, or numeric beyond model checking. Third-party code (`contrib/`, build scripts), which is
  most of the repository by size.

`components` in `PROJECT.json` lists every part with its status.

## Plan

The modules of the plan are written and their safety properties proved. What is left:

1. `AVLTree`: its recursions on subtrees as recursive functions on heights, and then `WellFormed` by the same
   argument from a least counterexample.
2. Weaker hypotheses where the code allows them: `AtomicPool` for direct tasks that enqueue tasks of their own
   before the destructor begins.
