-------------------------- MODULE ThreadPoolProofs --------------------------
(***************************************************************************)
(* Proofs about ThreadPool, for any number of workers and of clients and   *)
(* any finite set of tasks, whatever enqueues what.                        *)
(*                                                                         *)
(* A thread blocked on a condition variable and the same thread woken, not *)
(* yet back in its loop, differ in nothing that matters for safety: the    *)
(* invariant speaks of locations up to that difference (at), which makes   *)
(* every WakeOne, spurious or not, a step that changes nothing.            *)
(*                                                                         *)
(* The properties are not inductive.  TasksConserved needs to know that    *)
(* only a frame about to call Execute holds a task (Holds).  Drained needs *)
(* the stacks: executing tasks lie on top of each other and at the bottom  *)
(* of each stack there is a worker, which is therefore not in its loop     *)
(* (Grounded), and the last worker that leaves finds current_task empty    *)
(* (LastOut).  The refinement needs that whoever is past WaitForCompletion *)
(* has enqueued all its tasks and has their results (Results).             *)
(***************************************************************************)
EXTENDS ThreadPool, FiniteSetTheorems, TLAPS

Callers == Clients \cup Tasks

(* A location with the waits on condition variables left out. *)
Awake(l) == IF l = "asleep" THEN "dispatch"
            ELSE IF l = "pool_wait" THEN "pool"
            ELSE IF l = "cv_wait" THEN "wait" ELSE l

at == [f \in Frames |-> Awake(pc[f])]

Executing(x) == at[x] \notin {"new", "done"}

(* The locations of a client that does not use the pool any more. *)
Gone == {"returned", "join", "destroyed"}

(* The locations behind the last Enqueue of a frame. *)
Waits == {"wait", "poll", "combine", "decrement", "notify", "done"} \cup Gone

(* A task that no frame executes is in the slot or with one frame that is about to
   execute it, in a worker thread. *)
Holds ==
    /\ \A f \in Frames : hold[f] # None => f \notin Clients /\ at[f] \in {"run", "wake"}
    /\ \A f \in Frames : at[f] = "run" => hold[f] # None
    /\ \A f \in Frames : hold[f] # None =>
          /\ hold[f] \in issued
          /\ at[hold[f]] = "new"
          /\ hold[f] # current_task
    /\ \A f, g \in Frames : hold[f] # None /\ hold[f] = hold[g] => f = g
    /\ current_task # None => current_task \in issued /\ at[current_task] = "new"
    /\ \A x \in Tasks : x \in issued /\ at[x] = "new" =>
          x = current_task \/ \E f \in Frames : hold[f] = x
    /\ \A x \in Tasks : at[x] # "new" => x \in issued

(* A task executes on top of a worker or of another task, one on each. *)
Stack ==
    /\ \A x \in Tasks : Executing(x) => caller[x] \in Workers \cup Tasks /\ at[caller[x]] = "call"
    /\ \A x, y \in Tasks : Executing(x) /\ Executing(y) /\ caller[x] = caller[y] => x = y

(* No stack is without a bottom. *)
Grounded ==
    \A S \in SUBSET Tasks :
        S # {} /\ (\A x \in S : Executing(x)) => \E x \in S : caller[x] \notin S

(* The tasks a scheduler has still to wait for. *)
Pending(f) == {x \in Children(f) : x \in issued /\ at[x] \notin {"notify", "done"}}

Counts ==
    \A f \in Callers \ Direct :
        counter[f] = Cardinality(Pending(f)) + IF at[f] = "pool" THEN 1 ELSE 0

(* The results that are in a combiner, and that whoever stopped to wait has enqueued
   everything and has all results, unless the pool is being destroyed. *)
Results ==
    /\ \A x \in Tasks : at[x] \in {"decrement", "notify"} => Parent[x] \notin Direct /\ x \in combined
    /\ \A x \in Tasks : at[x] = "done" /\ Parent[x] \notin Direct => x \in combined
    /\ \A x \in combined : at[x] \in {"decrement", "notify", "done"}
    /\ \A f \in Callers : at[f] \in Waits => Children(f) \subseteq issued
    /\ \A x \in Tasks : at[x] = "combine" => stop \/ Children(x) \subseteq combined

(* The destructor runs when all clients have gone, and only it makes workers exit. *)
Stops ==
    /\ stop => \A c \in Clients : at[c] \in Gone
    /\ stop <=> at[Owner] \in {"join", "destroyed"}
    /\ \A c \in Clients : at[c] \in {"join", "destroyed"} => c = Owner
    /\ \A w \in Workers : at[w] = "exited" => stop
    /\ at[Owner] = "destroyed" => \A w \in Workers : at[w] = "exited"

(* The last worker that exits leaves nothing behind. *)
LastOut == Workers # {} /\ (\A w \in Workers : at[w] = "exited") => current_task = None

Inv ==
    /\ TypeOK
    /\ Holds
    /\ Stack
    /\ Grounded
    /\ Counts
    /\ Results
    /\ Stops
    /\ LastOut
-----------------------------------------------------------------------------
(* Tasks and clients are frames, as are the parents of tasks, and None is not. *)
LEMMA FrameSets ==
    /\ Workers \subseteq Frames /\ Callers \subseteq Frames /\ Tasks \subseteq Callers
    /\ Clients \subseteq Callers /\ Owner \in Clients /\ Direct \subseteq Clients
    /\ None \notin Frames
    /\ \A x \in Tasks : Parent[x] \in Callers
    /\ \A f : Children(f) = {x \in Tasks : Parent[x] = f}
    /\ \A f \in Clients : f \notin Tasks /\ f \notin Workers
    /\ \A f \in Tasks : f \notin Workers
BY PoolAssumption DEF Frames, Callers, Children

(* Locations that a frame can be at, by what kind of frame it is. *)
Fits(f, l) ==
    /\ f \in Workers => l \in WorkerLocations
    /\ f \in Clients => l \in ClientLocations
    /\ f \in Tasks => l \in TaskLocations

Placed(p) ==
    /\ p \in [Frames -> WorkerLocations \cup ClientLocations \cup TaskLocations]
    /\ \A f \in Frames : Fits(f, p[f])

LEMMA PlacedType == TypeOK => Placed(pc)
BY FrameSets DEF TypeOK, Placed, Fits

LEMMA PlacedNext ==
    ASSUME Placed(pc'), current_task' \in Tasks \cup {None},
           hold' \in [Frames -> Tasks \cup {None}], caller' \in [Tasks -> Frames \cup {None}],
           issued' \subseteq Tasks, counter' \in [Callers -> Nat],
           combined' \subseteq Tasks, stop' \in BOOLEAN
    PROVE  TypeOK'
BY FrameSets DEF TypeOK, Placed, Fits, Callers

(* The location of a frame tells what kind of frame it is. *)
LEMMA Kinds ==
    ASSUME TypeOK, NEW f \in Frames
    PROVE  /\ at[f] = Awake(pc[f])
           /\ at[f] \in {"dispatch", "exited"} => f \in Workers
           /\ at[f] \in {"enqueue", "pool", "wake", "wait"} => f \in Callers
           /\ at[f] \in {"new", "poll", "combine", "decrement", "notify", "done"} => f \in Tasks
           /\ at[f] \in Gone => f \in Clients
           /\ at[f] \in {"run", "call"} => f \in Workers \/ f \in Tasks
<1>1. /\ f \in Workers \/ f \in Clients \/ f \in Tasks
      /\ Fits(f, pc[f])
  BY PlacedType DEF Placed, Frames
<1>. QED
  BY <1>1 DEF at, Awake, Fits, Callers, Gone, WorkerLocations, ClientLocations, TaskLocations

(* A wake-up leaves every frame where it was, up to the wait it was in. *)
Settles(p) ==
    \/ pc' = p
    \/ WakeOne(p, pc', "asleep", "dispatch")
    \/ WakeOne(p, pc', "pool_wait", "pool")

LEMMA Settled ==
    ASSUME NEW p, Placed(p), Settles(p)
    PROVE  Placed(pc') /\ \A f \in Frames : at'[f] = Awake(p[f])
<1>1. CASE pc' = p
  BY <1>1 DEF at
<1>2. CASE \E f \in Frames : p[f] = "asleep" /\ pc' = [p EXCEPT ![f] = "dispatch"]
  <2>1. PICK f \in Frames : p[f] = "asleep" /\ pc' = [p EXCEPT ![f] = "dispatch"]
    BY <1>2
  <2>2. Fits(f, "dispatch") /\ Awake("asleep") = "dispatch" /\ Awake("dispatch") = "dispatch"
    BY <2>1 DEF Placed, Fits, Awake, WorkerLocations, ClientLocations, TaskLocations
  <2>3. pc'[f] = "dispatch" /\ \A g \in Frames \ {f} : pc'[g] = p[g]
    BY <2>1 DEF Placed
  <2>4. pc' \in [Frames -> WorkerLocations \cup ClientLocations \cup TaskLocations]
    BY <2>1 DEF Placed, WorkerLocations
  <2>. QED
    BY <2>1, <2>2, <2>3, <2>4 DEF Placed, at
<1>3. CASE \E f \in Frames : p[f] = "pool_wait" /\ pc' = [p EXCEPT ![f] = "pool"]
  <2>1. PICK f \in Frames : p[f] = "pool_wait" /\ pc' = [p EXCEPT ![f] = "pool"]
    BY <1>3
  <2>2. Fits(f, "pool") /\ Awake("pool_wait") = "pool" /\ Awake("pool") = "pool"
    BY <2>1 DEF Placed, Fits, Awake, WorkerLocations, ClientLocations, TaskLocations
  <2>3. pc'[f] = "pool" /\ \A g \in Frames \ {f} : pc'[g] = p[g]
    BY <2>1 DEF Placed
  <2>4. pc' \in [Frames -> WorkerLocations \cup ClientLocations \cup TaskLocations]
    BY <2>1 DEF Placed, ClientLocations
  <2>. QED
    BY <2>1, <2>2, <2>3, <2>4 DEF Placed, at
<1>. QED
  BY <1>1, <1>2, <1>3 DEF Settles, WakeOne

(* What a move of one frame is, in terms of at; wake-ups included. *)
LEMMA Moves ==
    ASSUME TypeOK, NEW f \in Frames, NEW l, Fits(f, l),
           Settles([pc EXCEPT ![f] = l])
    PROVE  /\ Placed(pc')
           /\ at'[f] = Awake(l)
           /\ \A g \in Frames \ {f} : at'[g] = at[g]
<1>. DEFINE p == [pc EXCEPT ![f] = l]
<1>1. p[f] = l /\ \A g \in Frames \ {f} : p[g] = pc[g]
  BY PlacedType DEF Placed
<1>2. l \in WorkerLocations \cup ClientLocations \cup TaskLocations
  BY DEF Fits, Frames
<1>3. Placed(p)
  BY <1>1, <1>2, PlacedType DEF Placed
<1>. HIDE DEF p
<1>4. Placed(pc') /\ \A g \in Frames : at'[g] = Awake(p[g])
  BY <1>3, Settled DEF p
<1>. QED
  BY <1>1, <1>4 DEF at

(* The same for an action that moves two. *)
LEMMA MovesTwo ==
    ASSUME TypeOK, NEW f \in Frames, NEW l, Fits(f, l), NEW h \in Frames \ {f}, NEW m, Fits(h, m),
           Settles([pc EXCEPT ![f] = l, ![h] = m])
    PROVE  /\ Placed(pc')
           /\ at'[f] = Awake(l) /\ at'[h] = Awake(m)
           /\ \A g \in Frames \ {f, h} : at'[g] = at[g]
<1>. DEFINE p == [pc EXCEPT ![f] = l, ![h] = m]
<1>1. p[f] = l /\ p[h] = m /\ \A g \in Frames \ {f, h} : p[g] = pc[g]
  BY PlacedType DEF Placed
<1>2. {l, m} \subseteq WorkerLocations \cup ClientLocations \cup TaskLocations
  BY DEF Fits, Frames
<1>3. p \in [Frames -> WorkerLocations \cup ClientLocations \cup TaskLocations]
  BY <1>2, PlacedType DEF Placed
<1>4. Placed(p)
  BY <1>1, <1>3, PlacedType DEF Placed
<1>. HIDE DEF p
<1>5. Placed(pc') /\ \A g \in Frames : at'[g] = Awake(p[g])
  BY <1>4, Settled DEF p
<1>. QED
  BY <1>1, <1>5 DEF at

(* Pending tasks are finitely many. *)
LEMMA PendingFinite == \A f : IsFiniteSet(Pending(f)) /\ Cardinality(Pending(f)) \in Nat
<1>1. \A f : Pending(f) \in SUBSET Tasks
  BY DEF Pending, Children
<1>. QED
  BY <1>1, PoolAssumption, FS_Subset, FS_CardinalityType

(* The initial state satisfies the invariant. *)
LEMMA InitInv == Init => Inv
<1>. SUFFICES ASSUME Init PROVE Inv
  OBVIOUS
<1>. USE DEF Init
<1>1. /\ \A w \in Workers : pc[w] = "dispatch"
      /\ \A c \in Clients : pc[c] = "enqueue"
      /\ \A x \in Tasks : pc[x] = "new"
  BY PoolAssumption DEF Frames
<1>2. TypeOK
  <2>1. pc \in [Frames -> WorkerLocations \cup ClientLocations \cup TaskLocations]
    BY DEF WorkerLocations, ClientLocations, TaskLocations
  <2>2. /\ \A w \in Workers : pc[w] \in WorkerLocations
        /\ \A c \in Clients : pc[c] \in ClientLocations
        /\ \A x \in Tasks : pc[x] \in TaskLocations
    BY <1>1 DEF WorkerLocations, ClientLocations, TaskLocations
  <2>. QED
    BY <2>1, <2>2 DEF TypeOK
<1>3. /\ \A w \in Workers : at[w] = "dispatch"
      /\ \A c \in Clients : at[c] = "enqueue"
      /\ \A x \in Tasks : at[x] = "new"
  BY <1>1, FrameSets DEF at, Awake, Frames
<1>4. Holds /\ Stack /\ Grounded
  BY <1>3, FrameSets DEF Holds, Stack, Grounded, Executing, Frames
<1>5. Counts
  <2>1. \A f : Pending(f) = {}
    BY DEF Pending
  <2>2. \A f \in Callers : at[f] # "pool"
    BY <1>3 DEF Callers
  <2>3. \A f \in Callers \ Direct : counter[f] = 0
    BY FrameSets DEF Callers
  <2>4. \A f : Cardinality(Pending(f)) = 0
    BY <2>1, FS_EmptySet
  <2>. HIDE DEF Init
  <2>. QED
    BY <2>2, <2>3, <2>4 DEF Counts
<1>6. Results /\ Stops
  BY <1>3, FrameSets DEF Results, Stops, Waits, Gone, Callers
<1>7. LastOut
  BY DEF LastOut
<1>. QED
  BY <1>2, <1>4, <1>5, <1>6, <1>7 DEF Inv

-----------------------------------------------------------------------------
(* A scheduler whose counter is zero, all tasks enqueued: the results are there. *)
LEMMA ZeroMeansDone ==
    ASSUME Inv, NEW f \in Callers \ Direct, at[f] = "wait", counter[f] = 0
    PROVE  Children(f) \subseteq combined /\ Children(f) \subseteq issued
<1>1. Cardinality(Pending(f)) = 0
  BY PendingFinite DEF Inv, Counts
<1>2. Pending(f) = {}
  BY <1>1, PendingFinite, FS_EmptySet
<1>3. \A x \in Children(f) : x \in Tasks /\ Parent[x] = f
  BY FrameSets
<1>. QED
  BY <1>2, <1>3 DEF Inv, Results, Waits, Pending

(* Where a frame may go without touching anything else. *)
Quiet(f, l) ==
    \/ l = at[f]
    \/ /\ at[f] = "enqueue" /\ f \in Callers /\ Children(f) \subseteq issued
       /\ l = IF f \in Direct THEN "returned" ELSE "wait"
    \/ at[f] = "wake" /\ hold[f] = None /\ l = "enqueue"
    \/ at[f] = "dispatch" /\ stop /\ current_task = None /\ l = "exited"
    \/ at[f] = "wait" /\ f \in Tasks /\ l = "poll"
    \/ at[f] = "wait" /\ f \in Tasks /\ l = "combine" /\ Children(f) \subseteq combined
    \/ at[f] = "poll" /\ l = "wait"
    \/ at[f] = "poll" /\ l = "combine" /\ stop
    \/ at[f] = "wait" /\ f \in Clients /\ l = "returned"
    \/ f = Owner /\ at[f] = "join" /\ l = "destroyed" /\ \A w \in Workers : at[w] = "exited"

LEMMA QuietStep ==
    ASSUME Inv, NEW f \in Frames, NEW l, Quiet(f, l),
           Placed(pc'), at'[f] = l, \A g \in Frames \ {f} : at'[g] = at[g],
           UNCHANGED <<current_task, hold, caller, issued, counter, combined, stop>>
    PROVE  Inv'
<1>1. TypeOK'
  BY PlacedNext DEF Inv, TypeOK, Callers
<1>2. \A x \in Tasks : /\ at'[x] = "new" <=> at[x] = "new"
                       /\ at'[x] = "done" <=> at[x] = "done"
                       /\ at'[x] = "notify" <=> at[x] = "notify"
                       /\ at'[x] = "decrement" <=> at[x] = "decrement"
  BY FrameSets, Kinds DEF Quiet, Inv, Gone
<1>3. \A g \in Frames : at'[g] = "call" <=> at[g] = "call"
  BY DEF Quiet
<1>4. \A g \in Callers : at'[g] = "pool" <=> at[g] = "pool"
  BY FrameSets DEF Quiet
<1>5. Holds'
  <2>1. \A g \in Frames : /\ hold[g] # None /\ at[g] \in {"run", "wake"} => at'[g] \in {"run", "wake"}
                          /\ at'[g] = "run" => at[g] = "run"
    BY DEF Quiet
  <2>2. \A g \in Frames : hold[g] # None => hold[g] \in Tasks
    BY DEF Inv, TypeOK
  <2>3. current_task # None => current_task \in Tasks
    BY DEF Inv, TypeOK
  <2>. QED
    BY <1>2, <2>1, <2>2, <2>3 DEF Inv, Holds
<1>6. Stack' /\ Grounded'
  <2>1. \A x \in Tasks : Executing(x)' <=> Executing(x)
    BY <1>2 DEF Executing
  <2>. QED
    BY <1>3, <2>1, FrameSets DEF Inv, Stack, Grounded, Frames
<1>7. Counts'
  <2>1. \A g : Pending(g)' = Pending(g)
    BY <1>2 DEF Pending, Children
  <2>. QED
    BY <1>4, <2>1 DEF Inv, Counts
<1>8. Results'
  <2>1. at'[f] \in Waits => Children(f) \subseteq issued
    <3>1. at[f] \in Waits => f \in Callers
      BY Kinds, FrameSets DEF Inv, Waits
    <3>2. at[f] \in Waits => Children(f) \subseteq issued
      BY <3>1 DEF Inv, Results
    <3>3. at'[f] \in Waits => at[f] \in Waits \/ Children(f) \subseteq issued
      BY DEF Quiet, Waits, Gone
    <3>. QED
      BY <3>2, <3>3
  <2>2. at'[f] = "combine" /\ f \in Tasks => stop \/ Children(f) \subseteq combined
    BY DEF Quiet, Inv, Results
  <2>3. combined \subseteq Tasks
    BY DEF Inv, TypeOK
  <2>. QED
    BY <1>2, <2>1, <2>2, <2>3, FrameSets DEF Inv, Results
<1>9. Stops'
  <2>1. \A c \in Clients : /\ at[c] \in Gone => at'[c] \in Gone
                           /\ at'[c] \in {"join", "destroyed"} <=> at[c] \in {"join", "destroyed"}
    BY FrameSets, Kinds DEF Quiet, Inv, Gone
  <2>2. \A w \in Workers : /\ at[w] = "exited" => at'[w] = "exited"
                           /\ at'[w] = "exited" => stop
    BY FrameSets, Kinds DEF Quiet, Inv, Stops
  <2>3. at'[Owner] = "destroyed" => \A w \in Workers : at[w] = "exited"
    BY FrameSets, Kinds DEF Quiet, Inv, Stops
  <2>. QED
    BY <2>1, <2>2, <2>3, FrameSets DEF Inv, Stops
<1>10. LastOut'
  <2>1. \A w \in Workers : at'[w] = "exited" => at[w] = "exited" \/ current_task = None
    BY FrameSets DEF Quiet
  <2>. QED
    BY <2>1 DEF Inv, LastOut
<1>. QED
  BY <1>1, <1>5, <1>6, <1>7, <1>8, <1>9, <1>10 DEF Inv
(* The actions that are quiet moves: the end of the loop of enqueues, a client that
   starts to wait for the slot, a wake-up after an Enqueue without a task to execute,
   DispatchTask without a task, the reads of the counter, the joins, and spurious
   wake-ups. *)
LEMMA QuietActions ==
    ASSUME Inv, NEW f \in Frames,
           \/ AllEnqueued(f) \/ PoolEnqueueWait(f)
           \/ PoolEnqueueWake(f) /\ hold[f] = None
           \/ DispatchTask(f) /\ current_task = None
           \/ ReadCounter(f)
           \/ Poll(f) /\ current_task = None
           \/ WaitForCompletion(f) \/ SpuriousWake(f)
           \/ Join /\ f = Owner
    PROVE  /\ UNCHANGED <<current_task, hold, caller, issued, counter, combined, stop>>
           /\ Placed(pc')
           /\ \A g \in Frames \ {f} : at'[g] = at[g]
           /\ Quiet(f, at'[f])
<1>. DEFINE Goes(l) == /\ Settles([pc EXCEPT ![f] = l])
                       /\ Fits(f, l)
                       /\ Quiet(f, Awake(l))
                       /\ UNCHANGED <<current_task, hold, caller, issued, counter, combined, stop>>
            Ok == \E l : Goes(l)
<1>1. TypeOK /\ at[f] = Awake(pc[f]) /\ Fits(f, pc[f])
  BY Kinds, PlacedType DEF Inv, Placed
<1>. USE DEF Awake, Fits, WorkerLocations, ClientLocations, TaskLocations
<1>2. ASSUME AllEnqueued(f) PROVE Ok
  <2>1. f \in Callers /\ (f \in Direct => f \in Clients) /\ f \notin Workers
    BY <1>1, <1>2, Kinds, FrameSets DEF AllEnqueued, Callers
  <2>2. Goes(IF f \in Direct THEN "returned" ELSE "wait")
    BY <1>1, <1>2, <2>1, FrameSets DEF AllEnqueued, Quiet, Settles
  <2>. QED
    BY <2>2
<1>3. ASSUME PoolEnqueueWait(f) PROVE Ok
  <2>1. Goes("pool_wait")
    BY <1>1, <1>3, FrameSets DEF PoolEnqueueWait, Quiet, Settles
  <2>. QED
    BY <2>1
<1>4. ASSUME PoolEnqueueWake(f) /\ hold[f] = None PROVE Ok
  <2>1. Goes("enqueue")
    BY <1>1, <1>4, FrameSets DEF PoolEnqueueWake, Quiet, Settles
  <2>. QED
    BY <2>1
<1>5. ASSUME DispatchTask(f) /\ current_task = None PROVE Ok
  <2>1. Goes(IF stop THEN "exited" ELSE "asleep")
    BY <1>1, <1>5, FrameSets DEF DispatchTask, Quiet, Settles
  <2>. QED
    BY <2>1
<1>6. ASSUME ReadCounter(f) PROVE Ok
  <2>1. counter[f] = 0 => Children(f) \subseteq combined
    BY <1>1, <1>6, ZeroMeansDone, FrameSets DEF ReadCounter
  <2>2. Goes(IF counter[f] = 0 THEN "combine" ELSE "poll")
    BY <1>1, <1>6, <2>1, FrameSets DEF ReadCounter, Quiet, Settles
  <2>. QED
    BY <2>2
<1>7. ASSUME Poll(f) /\ current_task = None PROVE Ok
  <2>1. Goes(IF stop THEN "combine" ELSE "wait")
    BY <1>1, <1>7, FrameSets DEF Poll, Quiet, Settles
  <2>. QED
    BY <2>1
<1>8. ASSUME WaitForCompletion(f) PROVE Ok
  <2>1. Goes(IF counter[f] = 0 THEN "returned" ELSE "cv_wait")
    BY <1>1, <1>8, FrameSets DEF WaitForCompletion, Quiet, Settles
  <2>. QED
    BY <2>1
<1>9. ASSUME SpuriousWake(f) PROVE Ok
  <2>1. Goes(Awake(pc[f]))
    BY <1>1, <1>9, FrameSets DEF SpuriousWake, Quiet, Settles
  <2>. QED
    BY <2>1
<1>10. ASSUME Join /\ f = Owner PROVE Ok
  <2>1. \A w \in Workers : at[w] = "exited"
    BY <1>10, FrameSets DEF Join, at
  <2>2. Goes("destroyed")
    BY <1>1, <1>10, <2>1, FrameSets DEF Join, Quiet, Settles
  <2>. QED
    BY <2>2
<1>11. Ok
  <2>. HIDE DEF Ok, Goes
  <2>. QED
    BY <1>2, <1>3, <1>4, <1>5, <1>6, <1>7, <1>8, <1>9, <1>10
<1>12. PICK l : Goes(l)
  BY <1>11
<1>13. Placed(pc') /\ at'[f] = Awake(l) /\ \A g \in Frames \ {f} : at'[g] = at[g]
  BY <1>1, <1>12, Moves
<1>. QED
  BY <1>12, <1>13

(* ~ThreadPool raises stop and wakes everybody. *)
LEMMA SetStopAt ==
    ASSUME Inv, SetStop
    PROVE  /\ Placed(pc')
           /\ \A c \in Clients : at[c] = "returned"
           /\ at'[Owner] = "join" /\ \A g \in Frames \ {Owner} : at'[g] = at[g]
<1>1. TypeOK /\ Placed(pc) /\ Owner \in Frames /\ Owner \in Clients
  BY PlacedType, FrameSets DEF Inv
<1>2. /\ pc'[Owner] = "join"
      /\ \A g \in Frames \ {Owner} : pc'[g] = IF pc[g] = "asleep" THEN "dispatch" ELSE pc[g]
  BY <1>1 DEF SetStop
<1>3. \A g \in Frames : Fits(g, pc'[g]) /\ pc'[g] \in WorkerLocations \cup ClientLocations \cup TaskLocations
  BY <1>1, <1>2, FrameSets DEF Placed, Fits, WorkerLocations, ClientLocations, TaskLocations
<1>4. pc' = [g \in Frames |-> pc'[g]]
  BY DEF SetStop
<1>5. Placed(pc')
  BY <1>3, <1>4 DEF Placed
<1>6. \A c \in Clients : at[c] = "returned"
  BY FrameSets DEF SetStop, at, Awake
<1>7. at'[Owner] = "join" /\ \A g \in Frames \ {Owner} : at'[g] = at[g]
  BY <1>1, <1>2 DEF at, Awake
<1>. QED
  BY <1>5, <1>6, <1>7

LEMMA SetStopStep ==
    ASSUME Inv, SetStop
    PROVE  Inv'
<1>1. /\ Placed(pc') /\ at[Owner] = "returned"
      /\ \A c \in Clients : at[c] = "returned"
      /\ at'[Owner] = "join" /\ \A g \in Frames \ {Owner} : at'[g] = at[g]
      /\ Owner \in Clients
  BY SetStopAt, FrameSets
<1>2. stop' = TRUE /\ UNCHANGED <<current_task, hold, caller, issued, counter, combined>>
  BY DEF SetStop
<1>3. TypeOK'
  BY <1>1, <1>2, PlacedNext DEF Inv, TypeOK, Callers
<1>4. \A x \in Tasks : at'[x] = at[x]
  BY <1>1, FrameSets
<1>5. Holds'
  <2>1. /\ \A g \in Frames : hold[g] # None => hold[g] \in Tasks /\ g # Owner
        /\ current_task # None => current_task \in Tasks
    BY <1>1 DEF Inv, TypeOK, Holds
  <2>. QED
    BY <1>1, <1>2, <1>4, <2>1 DEF Inv, Holds
<1>6. Stack' /\ Grounded'
  <2>1. \A x \in Tasks : Executing(x)' <=> Executing(x)
    BY <1>4 DEF Executing
  <2>. QED
    BY <1>1, <1>2, <2>1, FrameSets DEF Inv, Stack, Grounded, Frames
<1>7. Counts'
  <2>1. \A g : Pending(g)' = Pending(g)
    BY <1>2, <1>4 DEF Pending, Children
  <2>. QED
    BY <1>1, <1>2, <2>1, FrameSets DEF Inv, Counts
<1>8. Results'
  <2>1. combined \subseteq Tasks /\ Children(Owner) \subseteq issued
    BY <1>1, FrameSets DEF Inv, TypeOK, Results, Waits, Gone
  <2>. QED
    BY <1>1, <1>2, <1>4, <2>1, FrameSets DEF Inv, Results
<1>9. Stops' /\ LastOut'
  BY <1>1, <1>2, FrameSets DEF Inv, Stops, LastOut, Gone
<1>. QED
  BY <1>3, <1>5, <1>6, <1>7, <1>8, <1>9 DEF Inv
-----------------------------------------------------------------------------
(* Scheduler::Enqueue counts the task before it is in the slot. *)
LEMMA EnqueueStep ==
    ASSUME Inv, NEW f \in Frames, Enqueue(f)
    PROVE  Inv'
<1>1. at[f] = "enqueue" /\ f \in Callers /\ f \notin Workers /\ hold[f] = None
  BY Kinds, FrameSets DEF Enqueue, Inv, Awake, Holds, Callers
<1>2. Placed(pc') /\ at'[f] = "pool" /\ \A g \in Frames \ {f} : at'[g] = at[g]
  <2>1. Fits(f, "pool") /\ Settles([pc EXCEPT ![f] = "pool"]) /\ Awake("pool") = "pool"
    BY <1>1 DEF Enqueue, Fits, Settles, Awake, WorkerLocations, ClientLocations, TaskLocations
  <2>. QED
    BY <2>1, Moves DEF Inv
<1>3. /\ UNCHANGED <<current_task, hold, caller, issued, combined, stop>>
      /\ counter' = [counter EXCEPT ![f] = IF f \in Direct THEN @ ELSE @ + 1]
  BY <1>1 DEF Enqueue, Inv, TypeOK, Callers
<1>4. TypeOK'
  <2>1. counter' \in [Callers -> Nat]
    BY <1>1, <1>3 DEF Inv, TypeOK, Callers
  <2>. QED
    BY <1>2, <1>3, <2>1, PlacedNext DEF Inv, TypeOK
<1>5. \A x \in Tasks : /\ at'[x] = "new" <=> at[x] = "new"
                       /\ at'[x] = "done" <=> at[x] = "done"
                       /\ at'[x] = "notify" <=> at[x] = "notify"
                       /\ at'[x] = "decrement" <=> at[x] = "decrement"
                       /\ at'[x] = "combine" <=> at[x] = "combine"
  BY <1>1, <1>2, FrameSets
<1>6. Holds'
  <2>1. /\ \A g \in Frames : hold[g] # None => hold[g] \in Tasks /\ g # f
        /\ current_task # None => current_task \in Tasks
    BY <1>1 DEF Inv, TypeOK
  <2>. QED
    BY <1>1, <1>2, <1>3, <1>5, <2>1 DEF Inv, Holds
<1>7. Stack' /\ Grounded'
  <2>1. \A x \in Tasks : Executing(x)' <=> Executing(x)
    BY <1>5 DEF Executing
  <2>. QED
    BY <1>1, <1>2, <1>3, <2>1, FrameSets DEF Inv, Stack, Grounded, Frames
<1>8. Counts'
  <2>1. \A g : Pending(g)' = Pending(g)
    BY <1>3, <1>5 DEF Pending, Children
  <2>2. f \in Direct \/ counter'[f] = counter[f] + 1
    BY <1>1, <1>3 DEF Inv, TypeOK, Callers
  <2>3. \A g \in Callers \ {f} : counter'[g] = counter[g]
    BY <1>3 DEF Inv, TypeOK, Callers
  <2>4. \A g \in Callers \ Direct : counter'[g] = Cardinality(Pending(g)) + IF at'[g] = "pool" THEN 1 ELSE 0
    BY <1>1, <1>2, <2>2, <2>3, FrameSets, PendingFinite DEF Inv, Counts
  <2>. QED
    BY <2>1, <2>4 DEF Counts
<1>9. Results'
  <2>1. combined \subseteq Tasks
    BY DEF Inv, TypeOK
  <2>. QED
    BY <1>2, <1>3, <1>5, <2>1, FrameSets DEF Inv, Results, Waits, Gone
<1>10. Stops' /\ LastOut'
  BY <1>1, <1>2, <1>3, FrameSets DEF Inv, Stops, LastOut, Gone
<1>. QED
  BY <1>4, <1>6, <1>7, <1>8, <1>9, <1>10 DEF Inv

(* When the last worker has left, nothing executes and no client is in the pool. *)
LEMMA AllOut ==
    ASSUME Inv, Workers # {}, \A w \in Workers : at[w] = "exited"
    PROVE  /\ \A x \in Tasks : ~Executing(x)
           /\ \A c \in Clients : at[c] \in Gone
<1>1. \A c \in Clients : at[c] \in Gone
  BY DEF Inv, Stops
<1>. DEFINE S == {x \in Tasks : Executing(x)}
<1>2. S = {}
  <2>. SUFFICES ASSUME S # {} PROVE FALSE
    OBVIOUS
  <2>1. PICK x \in S : caller[x] \notin S
    BY DEF Inv, Grounded
  <2>2. caller[x] \in Workers \cup Tasks /\ at[caller[x]] = "call"
    BY <2>1 DEF Inv, Stack
  <2>. QED
    BY <2>1, <2>2 DEF Executing
<1>. QED
  BY <1>1, <1>2

(* ThreadPool::Enqueue puts the task into the slot and takes out the one that was
   there. *)
LEMMA PoolEnqueueStep ==
    ASSUME Inv, NEW f \in Frames, NEW x \in Tasks, PoolEnqueue(f, x)
    PROVE  Inv'
<1>1. /\ at[f] = "pool" /\ f \in Callers /\ f \notin Workers /\ hold[f] = None
      /\ Parent[x] = f /\ x \notin issued /\ x # None
      /\ f \in Clients => current_task = None
  BY Kinds, FrameSets DEF PoolEnqueue, Inv, Awake, Holds, Callers
<1>2. at[x] = "new" /\ x # f /\ x # current_task /\ \A g \in Frames : hold[g] # x
  BY <1>1 DEF Inv, Holds
<1>3. Placed(pc') /\ at'[f] = "wake" /\ \A g \in Frames \ {f} : at'[g] = at[g]
  <2>1. Fits(f, "wake") /\ Settles([pc EXCEPT ![f] = "wake"]) /\ Awake("wake") = "wake"
    BY <1>1 DEF PoolEnqueue, Fits, Settles, Awake, WorkerLocations, ClientLocations, TaskLocations
  <2>. QED
    BY <2>1, Moves DEF Inv
<1>4. /\ UNCHANGED <<caller, counter, combined, stop>>
      /\ hold' = [hold EXCEPT ![f] = current_task]
      /\ current_task' = x /\ issued' = issued \cup {x}
  BY DEF PoolEnqueue
<1>5. hold'[f] = current_task /\ \A g \in Frames \ {f} : hold'[g] = hold[g]
  BY <1>4 DEF Inv, TypeOK
<1>6. TypeOK'
  BY <1>3, <1>4, PlacedNext DEF Inv, TypeOK, Callers
<1>7. \A y \in Tasks : /\ at'[y] = "new" <=> at[y] = "new"
                       /\ at'[y] = "done" <=> at[y] = "done"
                       /\ at'[y] = "notify" <=> at[y] = "notify"
                       /\ at'[y] = "decrement" <=> at[y] = "decrement"
                       /\ at'[y] = "combine" <=> at[y] = "combine"
  BY <1>1, <1>3, FrameSets
<1>8. Holds'
  <2>1. /\ \A g \in Frames : hold[g] # None => hold[g] \in Tasks
        /\ current_task # None => current_task \in Tasks /\ \A g \in Frames : hold[g] # current_task
    BY DEF Inv, TypeOK, Holds
  <2>2. \A g \in Frames : hold'[g] # None =>
           /\ g \notin Clients /\ at'[g] \in {"run", "wake"}
           /\ hold'[g] \in issued' /\ at'[hold'[g]] = "new" /\ hold'[g] # x
    BY <1>1, <1>2, <1>3, <1>4, <1>5, <1>7, <2>1 DEF Inv, Holds
  <2>3. \A g \in Frames : at'[g] = "run" => hold'[g] # None
    BY <1>3, <1>5 DEF Inv, Holds
  <2>4. \A g, h \in Frames : hold'[g] # None /\ hold'[g] = hold'[h] => g = h
    BY <1>1, <1>5, <2>1 DEF Inv, Holds
  <2>5. \A y \in Tasks : y \in issued' /\ at'[y] = "new" => y = x \/ \E g \in Frames : hold'[g] = y
    <3>. SUFFICES ASSUME NEW y \in Tasks, y \in issued, at[y] = "new"
                  PROVE  \E g \in Frames : hold'[g] = y
      BY <1>4, <1>7
    <3>1. CASE y = current_task
      BY <1>5, <3>1
    <3>2. CASE \E g \in Frames : hold[g] = y
      BY <1>1, <1>5, <3>2, FrameSets DEF Callers
    <3>. QED
      BY <3>1, <3>2 DEF Inv, Holds
  <2>6. \A y \in Tasks : at'[y] # "new" => y \in issued'
    BY <1>4, <1>7 DEF Inv, Holds
  <2>. QED
    BY <1>2, <1>4, <1>7, <2>2, <2>3, <2>4, <2>5, <2>6 DEF Holds
<1>9. Stack' /\ Grounded'
  <2>1. \A y \in Tasks : Executing(y)' <=> Executing(y)
    BY <1>7 DEF Executing
  <2>. QED
    BY <1>1, <1>3, <1>4, <2>1, FrameSets DEF Inv, Stack, Grounded, Frames
<1>10. Counts'
  <2>1. Pending(f)' = Pending(f) \cup {x} /\ x \notin Pending(f)
    BY <1>1, <1>2, <1>4, <1>7, FrameSets DEF Pending
  <2>2. \A g \in Callers \ {f} : Pending(g)' = Pending(g)
    BY <1>1, <1>4, <1>7, FrameSets DEF Pending
  <2>3. Cardinality(Pending(f)') = Cardinality(Pending(f)) + 1 /\ Cardinality(Pending(f)) \in Nat
    BY <2>1, PendingFinite, FS_AddElement
  <2>4. \A g \in Callers \ Direct : counter'[g] = Cardinality(Pending(g)') + IF at'[g] = "pool" THEN 1 ELSE 0
    BY <1>1, <1>3, <1>4, <2>2, <2>3, FrameSets DEF Inv, Counts
  <2>. QED
    BY <2>4 DEF Counts
<1>11. Results'
  <2>1. combined \subseteq Tasks
    BY DEF Inv, TypeOK
  <2>. QED
    BY <1>3, <1>4, <1>7, <2>1, FrameSets DEF Inv, Results, Waits, Gone
<1>12. Stops'
  BY <1>1, <1>3, <1>4, FrameSets DEF Inv, Stops, Gone
<1>13. LastOut'
  <2>1. ASSUME Workers # {}, \A w \in Workers : at'[w] = "exited" PROVE FALSE
    <3>1. \A w \in Workers : at[w] = "exited"
      BY <1>1, <1>3, <2>1, FrameSets
    <3>. QED
      BY <1>1, <2>1, <3>1, AllOut DEF Callers, Executing, Gone
  <2>. QED
    BY <2>1 DEF LastOut
<1>. QED
  BY <1>6, <1>8, <1>9, <1>10, <1>11, <1>12, <1>13 DEF Inv

(* DispatchTask takes the task out of the slot. *)
LEMMA TakeStep ==
    ASSUME Inv, NEW f \in Frames, DispatchTask(f) \/ Poll(f), current_task # None
    PROVE  Inv'
<1>1. /\ at[f] \in {"dispatch", "poll"} /\ f \notin Clients /\ hold[f] = None
      /\ current_task \in Tasks
  BY Kinds, FrameSets DEF DispatchTask, Poll, Inv, TypeOK, Awake, Holds
<1>2. Placed(pc') /\ at'[f] = "run" /\ \A g \in Frames \ {f} : at'[g] = at[g]
  <2>1. Fits(f, "run") /\ Settles([pc EXCEPT ![f] = "run"]) /\ Awake("run") = "run"
    BY <1>1 DEF DispatchTask, Poll, Fits, Settles, Awake, WorkerLocations, ClientLocations, TaskLocations
  <2>. QED
    BY <2>1, Moves DEF Inv
<1>3. /\ UNCHANGED <<caller, issued, counter, combined, stop>>
      /\ hold' = [hold EXCEPT ![f] = current_task]
      /\ current_task' = None
  BY DEF DispatchTask, Poll
<1>4. hold'[f] = current_task /\ \A g \in Frames \ {f} : hold'[g] = hold[g]
  BY <1>3 DEF Inv, TypeOK
<1>5. TypeOK'
  BY <1>2, <1>3, PlacedNext DEF Inv, TypeOK, Callers
<1>6. \A y \in Tasks : /\ at'[y] = "new" <=> at[y] = "new"
                       /\ at'[y] = "done" <=> at[y] = "done"
                       /\ at'[y] = "notify" <=> at[y] = "notify"
                       /\ at'[y] = "decrement" <=> at[y] = "decrement"
                       /\ at'[y] = "combine" <=> at[y] = "combine"
                       /\ at'[y] \in Waits => at[y] \in Waits
  BY <1>1, <1>2, FrameSets DEF Waits, Gone
<1>7. Holds'
  <2>1. \A g \in Frames : hold[g] # None => hold[g] \in Tasks /\ hold[g] # current_task
    BY DEF Inv, TypeOK, Holds
  <2>2. \A g \in Frames : hold'[g] # None =>
           /\ g \notin Clients /\ at'[g] \in {"run", "wake"}
           /\ hold'[g] \in issued /\ at'[hold'[g]] = "new"
    BY <1>1, <1>2, <1>4, <1>6, <2>1 DEF Inv, Holds
  <2>3. \A g \in Frames : at'[g] = "run" => hold'[g] # None
    BY <1>2, <1>4 DEF Inv, Holds
  <2>4. \A g, h \in Frames : hold'[g] # None /\ hold'[g] = hold'[h] => g = h
    BY <1>1, <1>4, <2>1 DEF Inv, Holds
  <2>5. \A y \in Tasks : y \in issued /\ at'[y] = "new" => \E g \in Frames : hold'[g] = y
    <3>. SUFFICES ASSUME NEW y \in Tasks, y \in issued, at[y] = "new"
                  PROVE  \E g \in Frames : hold'[g] = y
      BY <1>6
    <3>1. CASE y = current_task
      BY <1>4, <3>1
    <3>2. CASE \E g \in Frames : hold[g] = y
      <4>1. y # None
        BY FrameSets
      <4>. QED
        BY <1>1, <1>4, <3>2, <4>1
    <3>. QED
      BY <3>1, <3>2 DEF Inv, Holds
  <2>6. \A y \in Tasks : at'[y] # "new" => y \in issued
    BY <1>6 DEF Inv, Holds
  <2>7. None \notin issued
    BY FrameSets DEF Inv, TypeOK
  <2>. QED
    BY <1>3, <1>6, <2>2, <2>3, <2>4, <2>5, <2>6, <2>7 DEF Holds
<1>8. Stack' /\ Grounded'
  <2>1. \A y \in Tasks : Executing(y)' <=> Executing(y)
    BY <1>6 DEF Executing
  <2>. QED
    BY <1>1, <1>2, <1>3, <2>1, FrameSets DEF Inv, Stack, Grounded, Frames
<1>9. Counts'
  <2>1. \A g : Pending(g)' = Pending(g)
    BY <1>3, <1>6 DEF Pending, Children
  <2>. QED
    BY <1>1, <1>2, <1>3, <2>1, FrameSets DEF Inv, Counts
<1>10. Results'
  <2>1. combined \subseteq Tasks
    BY DEF Inv, TypeOK
  <2>2. \A g \in Callers : at'[g] \in Waits => at[g] \in Waits
    BY <1>1, <1>2, FrameSets DEF Waits, Gone
  <2>. QED
    BY <1>3, <1>6, <2>1, <2>2, FrameSets DEF Inv, Results
<1>11. Stops' /\ LastOut'
  BY <1>1, <1>2, <1>3, FrameSets DEF Inv, Stops, LastOut, Gone
<1>. QED
  BY <1>5, <1>7, <1>8, <1>9, <1>10, <1>11 DEF Inv
(* A worker thread calls Execute of the task it has: the task is on top of the frame
   that called it, and the stack still has its bottom. *)
LEMMA ExecuteAt ==
    ASSUME Inv, NEW f \in Frames, RunDispatched(f) \/ (PoolEnqueueWake(f) /\ hold[f] # None)
    PROVE  /\ hold[f] \in Tasks /\ hold[f] # f /\ f \notin Clients /\ at[f] \in {"run", "wake"}
           /\ hold[f] \in issued /\ at[hold[f]] = "new" /\ hold[f] # current_task
           /\ Placed(pc')
           /\ at'[f] = "call" /\ at'[hold[f]] = "enqueue"
           /\ \A g \in Frames \ {f, hold[f]} : at'[g] = at[g]
           /\ caller' = [caller EXCEPT ![hold[f]] = f]
           /\ hold' = [hold EXCEPT ![f] = None]
           /\ UNCHANGED <<current_task, issued, counter, combined, stop>>
<1>. DEFINE x == hold[f]
<1>1. at[f] \in {"run", "wake"} /\ at[f] = Awake(pc[f]) /\ x # None
  BY Kinds DEF RunDispatched, PoolEnqueueWake, Inv, Holds, Awake
<1>2. /\ x \in Tasks /\ x # f /\ f \notin Clients
      /\ x \in issued /\ at[x] = "new" /\ x # current_task
  BY <1>1 DEF Inv, Holds, TypeOK
<1>3. x \in Frames /\ Fits(x, "enqueue") /\ Fits(f, "call")
  BY <1>2, FrameSets DEF Fits, Frames, WorkerLocations, TaskLocations
<1>4. Settles([pc EXCEPT ![f] = "call", ![x] = "enqueue"])
  BY <1>1 DEF RunDispatched, PoolEnqueueWake, Called, Settles
<1>. HIDE DEF x
<1>5. /\ Placed(pc')
      /\ at'[f] = Awake("call") /\ at'[x] = Awake("enqueue")
      /\ \A g \in Frames \ {f, x} : at'[g] = at[g]
  BY <1>2, <1>3, <1>4, MovesTwo DEF Inv
<1>6. at'[f] = "call" /\ at'[x] = "enqueue"
  BY <1>5 DEF Awake
<1>7. /\ caller' = [caller EXCEPT ![x] = f]
      /\ hold' = [hold EXCEPT ![f] = None]
      /\ UNCHANGED <<current_task, issued, counter, combined, stop>>
  BY <1>1 DEF RunDispatched, PoolEnqueueWake, Call, x
<1>. QED
  BY <1>1, <1>2, <1>5, <1>6, <1>7 DEF x

LEMMA ExecuteStep ==
    ASSUME Inv, NEW f \in Frames, RunDispatched(f) \/ (PoolEnqueueWake(f) /\ hold[f] # None)
    PROVE  Inv'
<1>. DEFINE x == hold[f]
<1>1. /\ x \in Tasks /\ x # f /\ f \notin Clients /\ at[f] \in {"run", "wake"}
      /\ x \in issued /\ at[x] = "new" /\ x # current_task
      /\ Placed(pc')
      /\ at'[f] = "call" /\ at'[x] = "enqueue" /\ \A g \in Frames \ {f, x} : at'[g] = at[g]
      /\ caller' = [caller EXCEPT ![x] = f]
      /\ hold' = [hold EXCEPT ![f] = None]
      /\ UNCHANGED <<current_task, issued, counter, combined, stop>>
  BY ExecuteAt
<1>. HIDE DEF x
<1>2. /\ hold'[f] = None /\ \A g \in Frames \ {f} : hold'[g] = hold[g]
      /\ caller'[x] = f /\ \A y \in Tasks \ {x} : caller'[y] = caller[y]
  BY <1>1 DEF Inv, TypeOK
<1>3. TypeOK'
  BY <1>1, PlacedNext DEF Inv, TypeOK, Callers
<1>4. \A y \in Tasks : /\ at'[y] = "new" <=> at[y] = "new" /\ y # x
                       /\ at'[y] = "done" <=> at[y] = "done"
                       /\ at'[y] = "notify" <=> at[y] = "notify"
                       /\ at'[y] = "decrement" <=> at[y] = "decrement"
                       /\ at'[y] = "combine" <=> at[y] = "combine"
  BY <1>1, FrameSets
<1>5. Holds'
  <2>1. /\ \A g \in Frames : hold[g] # None => hold[g] \in Tasks
        /\ \A g \in Frames \ {f} : hold[g] # x
        /\ x # None /\ hold[f] = x
        /\ current_task # None => current_task \in Tasks
    BY <1>1, FrameSets DEF Inv, TypeOK, Holds, x
  <2>2. \A g \in Frames : hold'[g] # None =>
           /\ g \notin Clients /\ at'[g] \in {"run", "wake"}
           /\ hold'[g] \in issued /\ at'[hold'[g]] = "new" /\ hold'[g] # current_task
    <3>. SUFFICES ASSUME NEW g \in Frames, hold'[g] # None
                  PROVE  /\ g \notin Clients /\ at'[g] \in {"run", "wake"}
                         /\ hold'[g] \in issued /\ at'[hold'[g]] = "new" /\ hold'[g] # current_task
      OBVIOUS
    <3>1. g # f /\ hold'[g] = hold[g] /\ hold[g] \in Tasks /\ hold[g] # x
      BY <1>2, <2>1
    <3>2. g # x
      BY <1>1, <3>1 DEF Inv, Holds
    <3>. QED
      BY <1>1, <1>4, <3>1, <3>2 DEF Inv, Holds
  <2>3. \A g \in Frames : at'[g] = "run" => hold'[g] # None
    BY <1>1, <1>2 DEF Inv, Holds
  <2>4. \A g, h \in Frames : hold'[g] # None /\ hold'[g] = hold'[h] => g = h
    BY <1>2 DEF Inv, Holds
  <2>5. \A y \in Tasks : y \in issued /\ at'[y] = "new" =>
           y = current_task \/ \E g \in Frames : hold'[g] = y
    <3>. SUFFICES ASSUME NEW y \in Tasks, y \in issued, at[y] = "new", y # x, y # current_task
                  PROVE  \E g \in Frames : hold'[g] = y
      BY <1>4
    <3>1. PICK g \in Frames : hold[g] = y
      BY DEF Inv, Holds
    <3>. QED
      BY <1>2, <2>1, <3>1
  <2>6. \A y \in Tasks : at'[y] # "new" => y \in issued
    BY <1>1, <1>4 DEF Inv, Holds
  <2>7. current_task # None => current_task \in issued /\ at'[current_task] = "new"
    BY <1>1, <1>4, <2>1 DEF Inv, Holds
  <2>. QED
    BY <1>1, <2>2, <2>3, <2>4, <2>5, <2>6, <2>7 DEF Holds
<1>6. \A y \in Tasks : Executing(y)' <=> Executing(y) \/ y = x
  BY <1>1, <1>4 DEF Executing
<1>7. Stack'
  <2>1. f \in Workers \cup Tasks
    BY <1>1 DEF Frames
  <2>2. \A y \in Tasks : Executing(y) => caller[y] # f /\ caller[y] # x /\ caller[y] \in Frames /\ y # x
    BY <1>1, FrameSets DEF Inv, Stack, Executing
  <2>. QED
    BY <1>1, <1>2, <1>6, <2>1, <2>2 DEF Inv, Stack
<1>8. Grounded'
  <2>. SUFFICES ASSUME NEW S \in SUBSET Tasks, S # {}, \A y \in S : Executing(y)'
                PROVE  \E y \in S : caller'[y] \notin S
    BY DEF Grounded
  <2>1. \A y \in Tasks : Executing(y) => caller[y] # x
    BY <1>1, FrameSets DEF Inv, Stack
  <2>2. CASE S \ {x} = {}
    BY <1>1, <1>2, <2>2
  <2>3. CASE S \ {x} # {}
    <3>1. \A y \in S \ {x} : Executing(y)
      BY <1>6
    <3>2. PICK y \in S \ {x} : caller[y] \notin S \ {x}
      <4>1. S \ {x} \in SUBSET Tasks
        OBVIOUS
      <4>. QED
        BY <2>3, <3>1, <4>1 DEF Inv, Grounded
    <3>. QED
      BY <1>2, <2>1, <3>1, <3>2
  <2>. QED
    BY <2>2, <2>3
<1>9. Counts'
  <2>1. \A g : Pending(g)' = Pending(g)
    BY <1>1, <1>4 DEF Pending, Children
  <2>. QED
    BY <1>1, <2>1, FrameSets DEF Inv, Counts
<1>10. Results'
  <2>1. combined \subseteq Tasks
    BY DEF Inv, TypeOK
  <2>2. \A g \in Callers : at'[g] \in Waits => at[g] \in Waits
    BY <1>1, FrameSets DEF Waits, Gone
  <2>. QED
    BY <1>1, <1>4, <2>1, <2>2, FrameSets DEF Inv, Results
<1>11. Stops' /\ LastOut'
  <2>1. \A c \in Clients : at'[c] = at[c]
    BY <1>1, FrameSets
  <2>2. \A w \in Workers : at'[w] = "exited" <=> at[w] = "exited"
    BY <1>1, FrameSets
  <2>. QED
    BY <1>1, <2>1, <2>2, FrameSets DEF Inv, Stops, LastOut
<1>. QED
  BY <1>3, <1>5, <1>7, <1>8, <1>9, <1>10, <1>11 DEF Inv
-----------------------------------------------------------------------------
(* Scheduler::ExecuteTask gives the result to the combiner. *)
LEMMA CombineStep ==
    ASSUME Inv, NEW x \in Frames, Combine(x), Parent[x] \notin Direct
    PROVE  Inv'
<1>1. at[x] = "combine" /\ x \in Tasks /\ x \in Callers /\ x \notin Clients
  BY Kinds, FrameSets DEF Combine, Inv, Awake
<1>2. Placed(pc') /\ at'[x] = "decrement" /\ \A g \in Frames \ {x} : at'[g] = at[g]
  <2>1. Fits(x, "decrement") /\ Settles([pc EXCEPT ![x] = "decrement"]) /\ Awake("decrement") = "decrement"
    BY <1>1, FrameSets DEF Combine, Fits, Settles, Awake, TaskLocations
  <2>. QED
    BY <2>1, Moves DEF Inv
<1>3. /\ UNCHANGED <<current_task, hold, caller, issued, counter, stop>>
      /\ combined' = combined \cup {x}
  BY DEF Combine
<1>4. TypeOK'
  BY <1>1, <1>2, <1>3, PlacedNext DEF Inv, TypeOK, Callers
<1>5. \A y \in Tasks : /\ at'[y] = "new" <=> at[y] = "new"
                       /\ at'[y] = "done" <=> at[y] = "done"
                       /\ at'[y] = "notify" <=> at[y] = "notify"
                       /\ y # x => at'[y] = at[y]
  BY <1>1, <1>2, FrameSets
<1>6. Holds'
  <2>1. /\ \A g \in Frames : hold[g] # None => hold[g] \in Tasks /\ g # x
        /\ current_task # None => current_task \in Tasks
    BY <1>1 DEF Inv, TypeOK, Holds
  <2>. QED
    BY <1>1, <1>2, <1>3, <1>5, <2>1 DEF Inv, Holds
<1>7. Stack' /\ Grounded'
  <2>1. \A y \in Tasks : Executing(y)' <=> Executing(y)
    BY <1>5 DEF Executing
  <2>. QED
    BY <1>1, <1>2, <1>3, <2>1, FrameSets DEF Inv, Stack, Grounded, Frames
<1>8. Counts'
  <2>1. \A g : Pending(g)' = Pending(g)
    BY <1>3, <1>5 DEF Pending, Children
  <2>. QED
    BY <1>1, <1>2, <1>3, <2>1, FrameSets DEF Inv, Counts
<1>9. Results'
  <2>1. combined \subseteq Tasks /\ Children(x) \subseteq issued
    BY <1>1 DEF Inv, TypeOK, Results, Waits
  <2>. QED
    BY <1>1, <1>2, <1>3, <1>5, <2>1, FrameSets DEF Inv, Results
<1>10. Stops' /\ LastOut'
  <2>1. \A g \in Workers \cup Clients : at'[g] = at[g]
    BY <1>1, <1>2, FrameSets
  <2>. QED
    BY <1>3, <2>1, FrameSets DEF Inv, Stops, LastOut
<1>. QED
  BY <1>4, <1>6, <1>7, <1>8, <1>9, <1>10 DEF Inv

(* ... and decrements the counter. *)
LEMMA DecrementStep ==
    ASSUME Inv, NEW x \in Frames, Decrement(x)
    PROVE  Inv'
<1>. DEFINE f == Parent[x]
<1>1. /\ at[x] = "decrement" /\ x \in Tasks /\ x \in Callers /\ x \notin Clients
      /\ f \in Callers /\ f \notin Direct /\ x \in combined /\ x \in issued
  BY Kinds, FrameSets DEF Decrement, Inv, Awake, Results, Holds
<1>2. Placed(pc') /\ at'[x] = "notify" /\ \A g \in Frames \ {x} : at'[g] = at[g]
  <2>1. Fits(x, "notify") /\ Settles([pc EXCEPT ![x] = "notify"]) /\ Awake("notify") = "notify"
    BY <1>1, FrameSets DEF Decrement, Fits, Settles, Awake, TaskLocations
  <2>. QED
    BY <2>1, Moves DEF Inv
<1>3. /\ UNCHANGED <<current_task, hold, caller, issued, combined, stop>>
      /\ counter' = [counter EXCEPT ![f] = @ - 1]
  BY DEF Decrement
<1>4. \A y \in Tasks : /\ at'[y] = "new" <=> at[y] = "new"
                       /\ at'[y] = "done" <=> at[y] = "done"
                       /\ y # x => at'[y] = at[y]
  BY <1>1, <1>2, FrameSets
<1>. HIDE DEF f
<1>5. /\ Pending(f)' = Pending(f) \ {x} /\ x \in Pending(f)
      /\ \A g \in Callers \ {f} : Pending(g)' = Pending(g)
  BY <1>1, <1>2, <1>3, <1>4, FrameSets DEF Pending, f
<1>6. /\ Cardinality(Pending(f)') = Cardinality(Pending(f)) - 1
      /\ Cardinality(Pending(f)) \in Nat /\ Cardinality(Pending(f)') \in Nat
  <2>1. Cardinality(Pending(f) \ {x}) = Cardinality(Pending(f)) - 1
    BY <1>5, PendingFinite, FS_RemoveElement
  <2>2. IsFiniteSet(Pending(f) \ {x})
    BY PendingFinite, FS_Subset
  <2>. QED
    BY <1>5, <2>1, <2>2, PendingFinite, FS_CardinalityType
<1>7. counter[f] - 1 \in Nat
  BY <1>1, <1>6 DEF Inv, Counts
<1>8. TypeOK'
  <2>1. counter' \in [Callers -> Nat]
    BY <1>1, <1>3, <1>7 DEF Inv, TypeOK, Callers
  <2>. QED
    BY <1>2, <1>3, <2>1, PlacedNext DEF Inv, TypeOK
<1>9. Holds'
  <2>1. /\ \A g \in Frames : hold[g] # None => hold[g] \in Tasks /\ g # x
        /\ current_task # None => current_task \in Tasks
    BY <1>1 DEF Inv, TypeOK, Holds
  <2>. QED
    BY <1>1, <1>2, <1>3, <1>4, <2>1 DEF Inv, Holds
<1>10. Stack' /\ Grounded'
  <2>1. \A y \in Tasks : Executing(y)' <=> Executing(y)
    BY <1>4 DEF Executing
  <2>. QED
    BY <1>1, <1>2, <1>3, <2>1, FrameSets DEF Inv, Stack, Grounded, Frames
<1>11. Counts'
  <2>1. counter'[f] = counter[f] - 1 /\ \A g \in Callers \ {f} : counter'[g] = counter[g]
    BY <1>1, <1>3 DEF Inv, TypeOK, Callers
  <2>2. \A g \in Callers : at'[g] = "pool" <=> at[g] = "pool"
    BY <1>1, <1>2, FrameSets
  <2>3. \A g \in Callers \ Direct : counter'[g] = Cardinality(Pending(g)') + IF at'[g] = "pool" THEN 1 ELSE 0
    BY <1>1, <1>5, <1>6, <2>1, <2>2 DEF Inv, Counts
  <2>. QED
    BY <2>3 DEF Counts
<1>12. Results'
  <2>1. combined \subseteq Tasks /\ Children(x) \subseteq issued
    BY <1>1 DEF Inv, TypeOK, Results, Waits
  <2>. QED
    BY <1>1, <1>2, <1>3, <1>4, <2>1, FrameSets DEF Inv, Results, f
<1>13. Stops' /\ LastOut'
  <2>1. \A g \in Workers \cup Clients : at'[g] = at[g]
    BY <1>1, <1>2, FrameSets
  <2>. QED
    BY <1>3, <2>1, FrameSets DEF Inv, Stops, LastOut
<1>. QED
  BY <1>8, <1>9, <1>10, <1>11, <1>12, <1>13 DEF Inv

(* The execution of a task ends and the frame under it goes on. *)
LEMMA ReturnAt ==
    ASSUME Inv, NEW x \in Frames, Notify(x) \/ (Combine(x) /\ Parent[x] \in Direct)
    PROVE  /\ x \in Tasks /\ caller[x] \in Frames \ {x} /\ caller[x] \notin Clients
           /\ at[caller[x]] = "call"
           /\ at[x] \in {"combine", "notify"} /\ (at[x] = "combine" => Parent[x] \in Direct)
           /\ Placed(pc') /\ at'[x] = "done"
           /\ at'[caller[x]] = IF caller[x] \in Workers THEN "dispatch" ELSE "enqueue"
           /\ \A g \in Frames \ {x, caller[x]} : at'[g] = at[g]
           /\ UNCHANGED <<current_task, hold, caller, issued, counter, combined, stop>>
<1>. DEFINE c == caller[x]
            l == IF c \in Workers THEN "dispatch" ELSE "enqueue"
            p == [pc EXCEPT ![x] = "done", ![c] = l]
<1>1. /\ at[x] \in {"combine", "notify"} /\ x \in Tasks
      /\ at[x] = "combine" => Parent[x] \in Direct
      /\ UNCHANGED <<current_task, hold, caller, issued, counter, combined, stop>>
  BY Kinds DEF Notify, Combine, Inv, Awake
<1>2. /\ c \in Frames \ {x} /\ c \notin Clients /\ at[c] = "call"
      /\ c \in Workers \/ c \in Tasks
  BY <1>1, FrameSets DEF Inv, Stack, Executing, Frames
<1>3. Fits(x, "done") /\ Fits(c, l) /\ Awake(l) = l /\ Awake("done") = "done"
  BY <1>1, <1>2, FrameSets DEF Fits, Awake, WorkerLocations, TaskLocations
<1>4. Returned(x) = p
  BY DEF Returned
<1>. HIDE DEF c, l, p
<1>5. CASE pc' = p
  <2>1. Settles([pc EXCEPT ![x] = "done", ![c] = l])
    BY <1>5 DEF Settles, p
  <2>2. /\ Placed(pc') /\ at'[x] = Awake("done") /\ at'[c] = Awake(l)
        /\ \A g \in Frames \ {x, c} : at'[g] = at[g]
    BY <1>2, <1>3, <2>1, MovesTwo DEF Inv
  <2>. QED
    BY <1>1, <1>2, <1>3, <2>2 DEF c, l
<1>6. CASE pc' = [p EXCEPT ![Parent[x]] = IF @ = "cv_wait" THEN "wait" ELSE @]
  <2>1. Placed(pc) /\ Parent[x] \in Frames
    BY <1>1, PlacedType, FrameSets DEF Inv
  <2>2. /\ p \in [Frames -> WorkerLocations \cup ClientLocations \cup TaskLocations]
        /\ p[x] = "done" /\ p[c] = l /\ \A g \in Frames \ {x, c} : p[g] = pc[g]
    <3>1. l \in WorkerLocations \cup ClientLocations \cup TaskLocations
      BY DEF l, WorkerLocations, TaskLocations
    <3>. QED
      BY <1>2, <2>1, <3>1 DEF p, Placed, TaskLocations
  <2>3. \A g \in Frames : Fits(g, p[g])
    BY <1>3, <2>1, <2>2 DEF Placed
  <2>4. \A g \in Frames : pc'[g] = p[g] \/ (pc'[g] = "wait" /\ p[g] = "cv_wait")
    BY <1>6, <2>1, <2>2
  <2>5. \A g \in Frames : Fits(g, pc'[g]) /\ pc'[g] \in WorkerLocations \cup ClientLocations \cup TaskLocations
    BY <2>2, <2>3, <2>4 DEF Fits, WorkerLocations, ClientLocations, TaskLocations
  <2>6. pc' = [g \in Frames |-> pc'[g]]
    BY <1>6, <2>2
  <2>7. Placed(pc')
    BY <2>5, <2>6 DEF Placed
  <2>8. \A g \in Frames : at'[g] = Awake(p[g])
    BY <2>4 DEF at, Awake
  <2>9. /\ at'[x] = "done" /\ at'[c] = l
        /\ \A g \in Frames \ {x, c} : at'[g] = at[g]
    BY <1>2, <1>3, <2>2, <2>8 DEF at
  <2>. QED
    BY <1>1, <1>2, <2>7, <2>9 DEF c, l
<1>7. pc' = p \/ pc' = [p EXCEPT ![Parent[x]] = IF @ = "cv_wait" THEN "wait" ELSE @]
  BY <1>4 DEF Notify, Combine
<1>. QED
  BY <1>5, <1>6, <1>7

LEMMA ReturnStep ==
    ASSUME Inv, NEW x \in Frames, Notify(x) \/ (Combine(x) /\ Parent[x] \in Direct)
    PROVE  Inv'
<1>. DEFINE c == caller[x]
<1>1. /\ x \in Tasks /\ c \in Frames \ {x} /\ c \notin Clients /\ at[c] = "call"
      /\ at[x] \in {"combine", "notify"} /\ (at[x] = "combine" => Parent[x] \in Direct)
      /\ Placed(pc') /\ at'[x] = "done"
      /\ at'[c] = IF c \in Workers THEN "dispatch" ELSE "enqueue"
      /\ \A g \in Frames \ {x, c} : at'[g] = at[g]
  BY ReturnAt
<1>2. UNCHANGED <<current_task, hold, caller, issued, counter, combined, stop>>
  BY ReturnAt
<1>3. x \in Callers /\ x \notin Clients /\ x \notin Workers /\ x \in issued
  BY <1>1, FrameSets DEF Inv, Holds
<1>4. \A y \in Tasks : Executing(y) /\ y # x => caller[y] # c /\ caller[y] # x
  BY <1>1 DEF Inv, Stack, Executing
<1>. HIDE DEF c
<1>5. TypeOK'
  BY <1>1, <1>2, PlacedNext DEF Inv, TypeOK, Callers
<1>6. \A y \in Tasks : /\ at'[y] = "new" <=> at[y] = "new"
                       /\ y # x => (at'[y] = "done" <=> at[y] = "done")
                       /\ y # x => (at'[y] = "notify" <=> at[y] = "notify")
                       /\ y # x => (at'[y] = "decrement" <=> at[y] = "decrement")
                       /\ y # x => (at'[y] = "combine" <=> at[y] = "combine")
  BY <1>1, FrameSets
<1>7. Holds'
  <2>1. /\ \A g \in Frames : hold[g] # None => hold[g] \in Tasks /\ g # x /\ g # c
        /\ current_task # None => current_task \in Tasks
    BY <1>1 DEF Inv, TypeOK, Holds
  <2>2. \A g \in Frames : at'[g] = "run" => at[g] = "run"
    BY <1>1
  <2>. QED
    BY <1>1, <1>2, <1>6, <2>1, <2>2 DEF Inv, Holds
<1>8. \A y \in Tasks : Executing(y)' <=> Executing(y) /\ y # x
  BY <1>1, <1>6 DEF Executing
<1>9. Stack' /\ Grounded'
  BY <1>1, <1>2, <1>4, <1>8, FrameSets DEF Inv, Stack, Grounded, Frames
<1>10. Counts'
  <2>1. \A g \in Callers \ Direct : Pending(g)' = Pending(g)
    BY <1>1, <1>2, <1>6, FrameSets DEF Pending
  <2>2. \A g \in Callers : at'[g] = "pool" <=> at[g] = "pool"
    BY <1>1, FrameSets
  <2>. QED
    BY <1>2, <2>1, <2>2 DEF Inv, Counts
<1>11. Results'
  <2>1. combined \subseteq Tasks /\ Children(x) \subseteq issued
    BY <1>1, <1>3 DEF Inv, TypeOK, Results, Waits
  <2>2. \A g \in Callers : at'[g] \in Waits => at[g] \in Waits
    BY <1>1, FrameSets DEF Waits, Gone
  <2>3. Parent[x] \notin Direct => x \in combined
    BY <1>1 DEF Inv, Results
  <2>. QED
    BY <1>1, <1>2, <1>6, <2>1, <2>2, <2>3, FrameSets DEF Inv, Results
<1>12. Stops' /\ LastOut'
  <2>1. \A g \in Clients : at'[g] = at[g]
    BY <1>1, <1>3, FrameSets
  <2>2. \A w \in Workers : at'[w] = "exited" <=> at[w] = "exited"
    BY <1>1, <1>3, FrameSets
  <2>. QED
    BY <1>2, <2>1, <2>2, FrameSets DEF Inv, Stops, LastOut
<1>. QED
  BY <1>5, <1>7, <1>9, <1>10, <1>11, <1>12 DEF Inv

-----------------------------------------------------------------------------
(* Every step preserves the invariant. *)
LEMMA NextInv ==
    ASSUME Inv, [Next]_vars
    PROVE  Inv'
<1>1. CASE UNCHANGED vars
  <2>1. at' = at /\ UNCHANGED <<pc, current_task, hold, caller, issued, counter, combined, stop>>
    BY <1>1 DEF vars, at
  <2>2. /\ \A x : Executing(x)' <=> Executing(x)
        /\ \A f : Pending(f)' = Pending(f)
    BY <2>1 DEF Executing, Pending
  <2>. QED
    BY <2>1, <2>2 DEF Inv, TypeOK, Holds, Stack, Grounded, Counts, Results, Stops, LastOut
<1>2. ASSUME NEW f \in Frames, FrameStep(f) \/ SpuriousWake(f) PROVE Inv'
  <2>1. CASE \/ AllEnqueued(f) \/ PoolEnqueueWait(f)
             \/ PoolEnqueueWake(f) /\ hold[f] = None
             \/ DispatchTask(f) /\ current_task = None
             \/ ReadCounter(f)
             \/ Poll(f) /\ current_task = None
             \/ WaitForCompletion(f) \/ SpuriousWake(f)
    BY <2>1, QuietActions, QuietStep
  <2>2. CASE (DispatchTask(f) \/ Poll(f)) /\ current_task # None
    BY <2>2, TakeStep
  <2>3. CASE RunDispatched(f) \/ (PoolEnqueueWake(f) /\ hold[f] # None)
    BY <2>3, ExecuteStep
  <2>4. CASE Enqueue(f)
    BY <2>4, EnqueueStep
  <2>5. CASE \E x \in Tasks : PoolEnqueue(f, x)
    BY <2>5, PoolEnqueueStep
  <2>6. CASE Combine(f) /\ Parent[f] \notin Direct
    BY <2>6, CombineStep
  <2>7. CASE Decrement(f)
    BY <2>7, DecrementStep
  <2>8. CASE Notify(f) \/ (Combine(f) /\ Parent[f] \in Direct)
    BY <2>8, ReturnStep
  <2>. QED
    BY <1>2, <2>1, <2>2, <2>3, <2>4, <2>5, <2>6, <2>7, <2>8 DEF FrameStep
<1>3. CASE SetStop
  BY <1>3, SetStopStep
<1>4. CASE Join
  BY <1>4, FrameSets, QuietActions, QuietStep
<1>. QED
  BY <1>1, <1>2, <1>3, <1>4 DEF Next

LEMMA Invariance == Spec => []Inv
<1>1. Inv /\ [Next]_vars => Inv'
  BY NextInv
<1>. QED
  BY InitInv, <1>1, PTL DEF Spec

(* The types of the state of the pool and of its schedulers. *)
THEOREM TypeCorrect == Spec => []TypeOK
<1>1. Inv => TypeOK
  BY DEF Inv
<1>. QED
  BY Invariance, <1>1, PTL

(* No task that was given to Enqueue is lost or executed twice, whichever thread
   executes it and by whichever way it came there. *)
THEOREM TasksNeverLost == Spec => []TasksConserved
<1>1. ASSUME Inv PROVE TasksConserved
  <2>1. \A x \in Tasks : pc[x] = "new" <=> at[x] = "new"
    BY <1>1, FrameSets DEF at, Awake
  <2>2. \A x \in Tasks : x # None /\ x \in Frames
    BY FrameSets
  <2>. QED
    BY <1>1, <2>1, <2>2 DEF Inv, Holds, TasksConserved, Held
<1>. QED
  BY Invariance, <1>1, PTL

(* Scheduler::counter is the number of tasks of the scheduler that have been announced
   and not yet been decremented; it never becomes negative. *)
THEOREM CounterCorrect == Spec => []CounterCounts
<1>1. ASSUME Inv PROVE CounterCounts
  <2>. SUFFICES ASSUME NEW f \in Callers \ Direct
                PROVE  counter[f] = Cardinality({x \in Children(f) \cap issued :
                                                     pc[x] \notin {"notify", "done"}})
                                    + IF pc[f] \in {"pool", "pool_wait"} THEN 1 ELSE 0
    BY DEF CounterCounts, Callers
  <2>1. pc[f] \in {"pool", "pool_wait"} <=> at[f] = "pool"
    BY FrameSets DEF at, Awake
  <2>2. \A x \in Tasks : pc[x] \notin {"notify", "done"} <=> at[x] \notin {"notify", "done"}
    BY FrameSets DEF at, Awake
  <2>3. {x \in Children(f) \cap issued : pc[x] \notin {"notify", "done"}} = Pending(f)
    BY <2>2, FrameSets DEF Pending
  <2>. QED
    BY <1>1, <2>1, <2>3 DEF Inv, Counts
<1>. QED
  BY Invariance, <1>1, PTL

(* When ~ThreadPool has joined the workers, of which there was at least one, every
   task that was enqueued has been executed. *)
THEOREM DestructorDrains ==
    ASSUME Workers # {}
    PROVE  Spec => []Drained
<1>1. ASSUME Inv PROVE Drained
  <2>. SUFFICES ASSUME pc[Owner] = "destroyed"
                PROVE  current_task = None /\ issued = Finished
    BY DEF Drained
  <2>1. \A w \in Workers : at[w] = "exited"
    BY <1>1, FrameSets DEF Inv, Stops, at, Awake
  <2>2. current_task = None
    BY <1>1, <2>1 DEF Inv, LastOut
  <2>3. \A x \in Tasks : at[x] \in {"new", "done"}
    BY <1>1, <2>1, AllOut DEF Executing
  <2>4. \A f \in Frames : hold[f] = None
    <3>. SUFFICES ASSUME NEW f \in Frames, hold[f] # None PROVE FALSE
      OBVIOUS
    <3>1. f \notin Clients /\ at[f] \in {"run", "wake"}
      BY <1>1 DEF Inv, Holds
    <3>. QED
      BY <2>1, <2>3, <3>1 DEF Frames
  <2>5. \A x \in Tasks : x \in issued <=> at[x] = "done"
    BY <1>1, <2>2, <2>3, <2>4, FrameSets DEF Inv, Holds
  <2>6. \A x \in Tasks : pc[x] = "done" <=> at[x] = "done"
    BY FrameSets DEF at, Awake
  <2>. QED
    BY <1>1, <2>2, <2>5, <2>6 DEF Inv, TypeOK, Finished
<1>. QED
  BY Invariance, <1>1, PTL
-----------------------------------------------------------------------------
(* The outcome of a client or task in terms of at. *)
View(f, l, I, C) ==
    IF f \in Clients
    THEN IF l \in Gone THEN "done" ELSE "running"
    ELSE IF f \notin I THEN "new"
    ELSE IF l = "new" THEN "queued"
    ELSE IF f \in C \/ l = "done" THEN "done" ELSE "running"

LEMMA OutcomeView ==
    ASSUME NEW f \in Callers
    PROVE  /\ Outcomes[f] = View(f, at[f], issued, combined)
           /\ Outcomes'[f] = View(f, at'[f], issued', combined')
<1>1. /\ pc[f] \in Gone <=> at[f] \in Gone
      /\ pc'[f] \in Gone <=> at'[f] \in Gone
      /\ pc[f] = "new" <=> at[f] = "new"
      /\ pc'[f] = "new" <=> at'[f] = "new"
      /\ pc[f] = "done" <=> at[f] = "done"
      /\ pc'[f] = "done" <=> at'[f] = "done"
  BY FrameSets DEF at, Awake, Gone
<1>2. Outcomes[f] = Outcome(f) /\ Outcomes'[f] = Outcome(f)'
  BY DEF Outcomes, Callers
<1>. QED
  BY <1>1, <1>2 DEF Outcome, View, Gone

(* When one outcome changes, Outcomes is updated there; when none does, it stays. *)
LEMMA OutcomeChanges ==
    ASSUME NEW f \in Callers, NEW o, Outcomes'[f] = o,
           \A g \in Callers \ {f} : Outcomes'[g] = Outcomes[g]
    PROVE  Outcomes' = [Outcomes EXCEPT ![f] = o]
BY DEF Outcomes, Callers

LEMMA OutcomesStay ==
    ASSUME \A g \in Callers : Outcomes'[g] = Outcomes[g]
    PROVE  Outcomes' = Outcomes
BY DEF Outcomes, Callers

(* ThreadPool::Enqueue is Enqueue of the abstract pool. *)
LEMMA EnqueueRefines ==
    ASSUME Inv, NEW f \in Frames, NEW x \in Tasks, PoolEnqueue(f, x)
    PROVE  Abstract!Enqueue(x)
<1>1. /\ at[f] = "pool" /\ f \in Callers /\ f \notin Workers
      /\ Parent[x] = f /\ x \notin issued /\ x \in Callers /\ x \notin Clients
  BY Kinds, FrameSets DEF PoolEnqueue, Inv, Awake, Callers
<1>2. at[x] = "new" /\ x # f /\ x \notin combined
  BY <1>1 DEF Inv, Holds, Results
<1>3. at'[f] = "wake" /\ \A g \in Frames \ {f} : at'[g] = at[g]
  <2>1. Fits(f, "wake") /\ Settles([pc EXCEPT ![f] = "wake"]) /\ Awake("wake") = "wake"
    BY <1>1 DEF PoolEnqueue, Fits, Settles, Awake, WorkerLocations, ClientLocations, TaskLocations
  <2>. QED
    BY <2>1, Moves DEF Inv
<1>4. UNCHANGED <<combined, stop>> /\ issued' = issued \cup {x}
  BY DEF PoolEnqueue
<1>5. Outcomes[x] = "new" /\ Outcomes'[x] = "queued"
  <2>1. at'[x] = "new"
    BY <1>1, <1>2, <1>3, FrameSets
  <2>. QED
    BY <1>1, <1>2, <1>4, <2>1, OutcomeView DEF View
<1>6. Outcomes[f] = "running"
  <2>1. f \in Tasks => f \in issued /\ f \notin combined
    BY <1>1 DEF Inv, Holds, Results
  <2>. QED
    BY <1>1, <2>1, OutcomeView DEF View, Callers, Gone
<1>7. ASSUME NEW g \in Callers \ {x} PROVE Outcomes'[g] = Outcomes[g]
  <2>1. /\ at'[g] = "new" <=> at[g] = "new"
        /\ at'[g] = "done" <=> at[g] = "done"
        /\ at'[g] \in Gone <=> at[g] \in Gone
    BY <1>1, <1>3, FrameSets DEF Gone
  <2>. QED
    BY <1>4, <2>1, OutcomeView DEF View
<1>8. Outcomes' = [Outcomes EXCEPT ![x] = "queued"]
  BY <1>1, <1>5, <1>7, OutcomeChanges
<1>. QED
  BY <1>1, <1>4, <1>5, <1>6, <1>8 DEF Abstract!Enqueue

(* A call of Execute is Start. *)
LEMMA StartRefines ==
    ASSUME Inv, NEW f \in Frames, RunDispatched(f) \/ (PoolEnqueueWake(f) /\ hold[f] # None)
    PROVE  hold[f] \in Tasks /\ Abstract!Start(hold[f])
<1>. DEFINE x == hold[f]
<1>1. /\ x \in Tasks /\ x # f /\ f \notin Clients /\ at[f] \in {"run", "wake"}
      /\ x \in issued /\ at[x] = "new"
      /\ at'[f] = "call" /\ at'[x] = "enqueue" /\ \A g \in Frames \ {f, x} : at'[g] = at[g]
      /\ UNCHANGED <<issued, combined, stop>>
  BY ExecuteAt
<1>. HIDE DEF x
<1>2. x \in Callers /\ x \notin Clients /\ x \notin combined
  BY <1>1, FrameSets DEF Inv, Results
<1>3. Outcomes[x] = "queued" /\ Outcomes'[x] = "running"
  BY <1>1, <1>2, OutcomeView DEF View
<1>4. ASSUME NEW g \in Callers \ {x} PROVE Outcomes'[g] = Outcomes[g]
  <2>1. /\ at'[g] = "new" <=> at[g] = "new"
        /\ at'[g] = "done" <=> at[g] = "done"
        /\ at'[g] \in Gone <=> at[g] \in Gone
    BY <1>1, FrameSets DEF Gone
  <2>. QED
    BY <1>1, <2>1, OutcomeView DEF View
<1>5. Outcomes' = [Outcomes EXCEPT ![x] = "running"]
  BY <1>2, <1>3, <1>4, OutcomeChanges
<1>6. Abstract!Start(x)
  BY <1>1, <1>3, <1>5 DEF Abstract!Start
<1>. QED
  BY <1>1, <1>6 DEF x

(* A step in which one client returns or one task finishes is Finish. *)
LEMMA FinishRefines ==
    ASSUME Inv, NEW f \in Callers, Outcomes[f] = "running", Outcomes'[f] = "done",
           \A g \in Callers \ {f} : Outcomes'[g] = Outcomes[g],
           stop' = stop, Children(f) \subseteq issued,
           f \in Direct \/ stop \/ Children(f) \subseteq combined
    PROVE  Abstract!Finish(f)
<1>1. Outcomes' = [Outcomes EXCEPT ![f] = "done"]
  BY OutcomeChanges
<1>2. \A x \in Children(f) : x \in Callers /\ x \in Tasks /\ x \notin Clients /\ x \in issued
  BY FrameSets
<1>3. \A x \in Children(f) : Outcomes[x] # "new"
  BY <1>2, OutcomeView DEF View
<1>4. f \in Direct \/ stop \/ \A x \in Children(f) : Outcomes[x] = "done"
  <2>1. \A x \in Children(f) \cap combined : at[x] # "new"
    BY DEF Inv, Results
  <2>. QED
    BY <1>2, <2>1, OutcomeView DEF View
<1>5. Abstract!Children(f) = Children(f)
  BY DEF Abstract!Children, Children
<1>. QED
  BY <1>1, <1>3, <1>4, <1>5 DEF Abstract!Finish

(* A quiet move of a client out of the pool is Finish, any other one shows nothing. *)
LEMMA QuietRefines ==
    ASSUME Inv, NEW f \in Frames, Quiet(f, at'[f]),
           \A g \in Frames \ {f} : at'[g] = at[g],
           UNCHANGED <<current_task, hold, caller, issued, counter, combined, stop>>,
           f \in Clients /\ at[f] = "wait" /\ at'[f] = "returned" => counter[f] = 0
    PROVE  (f \in Callers /\ Abstract!Finish(f)) \/ UNCHANGED <<Outcomes, stop>>
<1>1. ASSUME NEW g \in Callers \ {f} PROVE Outcomes'[g] = Outcomes[g]
  BY <1>1, FrameSets, OutcomeView
<1>2. CASE f \in Clients /\ at[f] \notin Gone /\ at'[f] \in Gone
  <2>1. at[f] \in {"enqueue", "wait"} /\ at'[f] = "returned"
    BY <1>2, FrameSets, Kinds DEF Quiet, Gone, Inv
  <2>2. Children(f) \subseteq issued /\ (f \in Direct \/ Children(f) \subseteq combined)
    <3>1. CASE at[f] = "enqueue"
      BY <2>1, <3>1 DEF Quiet
    <3>2. CASE at[f] = "wait"
      BY <1>2, <2>1, <3>2, ZeroMeansDone, FrameSets DEF Inv, Results, Waits
    <3>. QED
      BY <2>1, <3>1, <3>2
  <2>3. Outcomes[f] = "running" /\ Outcomes'[f] = "done" /\ f \in Callers
    BY <1>2, FrameSets, OutcomeView DEF View
  <2>4. Abstract!Finish(f)
    BY <1>1, <2>2, <2>3, FinishRefines
  <2>. QED
    BY <2>3, <2>4
<1>3. CASE ~(f \in Clients /\ at[f] \notin Gone /\ at'[f] \in Gone)
  <2>1. ASSUME f \in Callers PROVE Outcomes'[f] = Outcomes[f]
    <3>1. f \in Clients => (at'[f] \in Gone <=> at[f] \in Gone)
      BY <1>3 DEF Quiet, Gone
    <3>2. f \in Tasks => /\ at'[f] = "new" <=> at[f] = "new"
                         /\ at'[f] = "done" <=> at[f] = "done"
      BY FrameSets, Kinds DEF Quiet, Inv, Gone
    <3>. QED
      BY <2>1, <3>1, <3>2, FrameSets, OutcomeView DEF View, Callers
  <2>2. Outcomes' = Outcomes
    BY <1>1, <2>1, OutcomesStay
  <2>. QED
    BY <2>2
<1>. QED
  BY <1>2, <1>3

(* The result of a task in its combiner, or the end of a task without one, is Finish. *)
LEMMA CombineRefines ==
    ASSUME Inv, NEW x \in Frames, Combine(x)
    PROVE  x \in Callers /\ Abstract!Finish(x)
<1>1. /\ at[x] = "combine" /\ x \in Tasks /\ x \in Callers /\ x \notin Clients /\ x \notin Direct
      /\ x \in issued /\ x \notin combined
      /\ Children(x) \subseteq issued /\ (stop \/ Children(x) \subseteq combined)
  <2>1. at[x] = "combine" /\ x \in Tasks
    BY Kinds DEF Combine, Inv, Awake
  <2>. QED
    BY <2>1, FrameSets DEF Inv, Holds, Results, Waits
<1>2. UNCHANGED <<issued, stop>>
  BY DEF Combine
<1>3. CASE Parent[x] \notin Direct
  <2>1. at'[x] = "decrement" /\ \A g \in Frames \ {x} : at'[g] = at[g]
    <3>1. Fits(x, "decrement") /\ Settles([pc EXCEPT ![x] = "decrement"]) /\ Awake("decrement") = "decrement"
      BY <1>1, <1>3, FrameSets DEF Combine, Fits, Settles, Awake, TaskLocations
    <3>. QED
      BY <3>1, Moves DEF Inv
  <2>2. combined' = combined \cup {x}
    BY <1>3 DEF Combine
  <2>3. Outcomes[x] = "running" /\ Outcomes'[x] = "done"
    BY <1>1, <1>2, <2>1, <2>2, OutcomeView DEF View
  <2>4. \A g \in Callers \ {x} : Outcomes'[g] = Outcomes[g]
    BY <1>2, <2>1, <2>2, FrameSets, OutcomeView DEF View
  <2>. QED
    BY <1>1, <1>2, <2>3, <2>4, FinishRefines
<1>4. CASE Parent[x] \in Direct
  <2>1. /\ caller[x] \in Frames \ {x} /\ caller[x] \notin Clients /\ at[caller[x]] = "call"
        /\ at'[x] = "done"
        /\ at'[caller[x]] = IF caller[x] \in Workers THEN "dispatch" ELSE "enqueue"
        /\ \A g \in Frames \ {x, caller[x]} : at'[g] = at[g]
        /\ combined' = combined
    BY <1>4, ReturnAt
  <2>2. Outcomes[x] = "running" /\ Outcomes'[x] = "done"
    BY <1>1, <1>2, <2>1, OutcomeView DEF View
  <2>3. ASSUME NEW g \in Callers \ {x} PROVE Outcomes'[g] = Outcomes[g]
    <3>1. /\ at'[g] = "new" <=> at[g] = "new"
          /\ at'[g] = "done" <=> at[g] = "done"
          /\ g \in Clients => (at'[g] \in Gone <=> at[g] \in Gone)
      BY <2>1, FrameSets
    <3>. QED
      BY <1>2, <2>1, <3>1, OutcomeView DEF View
  <2>. QED
    BY <1>1, <1>2, <2>2, <2>3, FinishRefines
<1>. QED
  BY <1>1, <1>3, <1>4

(* Counting, taking a task out of the slot, decrementing and notifying show nothing. *)
LEMMA InnerRefines ==
    ASSUME Inv, NEW f \in Frames,
           \/ Enqueue(f) \/ Decrement(f) \/ Notify(f)
           \/ (DispatchTask(f) \/ Poll(f)) /\ current_task # None
    PROVE  UNCHANGED <<Outcomes, stop>>
<1>1. UNCHANGED <<issued, combined, stop>>
  BY DEF Enqueue, Decrement, Notify, DispatchTask, Poll
<1>2. ASSUME NEW g \in Callers
      PROVE  /\ at'[g] = "new" <=> at[g] = "new"
             /\ g \in Clients => (at'[g] \in Gone <=> at[g] \in Gone)
             /\ at'[g] = "done" /\ g \notin combined <=> at[g] = "done" /\ g \notin combined
  <2>1. CASE Notify(f)
    <3>1. /\ f \in Tasks /\ caller[f] \in Frames \ {f} /\ caller[f] \notin Clients /\ at[caller[f]] = "call"
          /\ at'[f] = "done" /\ at[f] \in {"combine", "notify"}
          /\ at'[caller[f]] = IF caller[f] \in Workers THEN "dispatch" ELSE "enqueue"
          /\ \A h \in Frames \ {f, caller[f]} : at'[h] = at[h]
      BY <2>1, ReturnAt
    <3>2. at[f] = "notify" /\ f \in combined /\ f \notin Clients
      BY <2>1, <3>1, Kinds, FrameSets DEF Notify, Inv, Results, Awake
    <3>. QED
      BY <3>1, <3>2, FrameSets
  <2>2. CASE \/ Enqueue(f) \/ Decrement(f)
             \/ (DispatchTask(f) \/ Poll(f)) /\ current_task # None
    <3>. DEFINE l == IF Enqueue(f) THEN "pool" ELSE IF Decrement(f) THEN "notify" ELSE "run"
    <3>1. pc' = [pc EXCEPT ![f] = l] /\ pc[f] \in {"enqueue", "decrement", "dispatch", "poll"}
      BY <2>2 DEF Enqueue, Decrement, DispatchTask, Poll
    <3>2. pc'[f] = l /\ \A h \in Frames \ {f} : pc'[h] = pc[h]
      BY <3>1 DEF Inv, TypeOK
    <3>3. at'[f] \in {"pool", "notify", "run"} /\ at[f] \in {"enqueue", "decrement", "dispatch", "poll"}
      BY <3>1, <3>2 DEF at, Awake
    <3>4. \A h \in Frames \ {f} : at'[h] = at[h]
      BY <3>2 DEF at
    <3>. QED
      BY <3>3, <3>4, FrameSets DEF Gone
  <2>. QED
    BY <2>1, <2>2
<1>3. \A g \in Callers : Outcomes'[g] = Outcomes[g]
  BY <1>1, <1>2, OutcomeView DEF View
<1>. QED
  BY <1>1, <1>3, OutcomesStay

(* The destructor is called: Close. *)
LEMMA CloseRefines ==
    ASSUME Inv, SetStop
    PROVE  Abstract!Close
<1>1. /\ \A c \in Clients : at[c] = "returned"
      /\ at'[Owner] = "join" /\ \A g \in Frames \ {Owner} : at'[g] = at[g]
      /\ Owner \in Clients /\ Owner \in Frames
  BY SetStopAt, FrameSets
<1>2. stop' = TRUE /\ UNCHANGED <<issued, combined>> /\ ~stop
  BY <1>1 DEF SetStop, Inv, Stops, TypeOK
<1>3. \A c \in Clients : Outcomes[c] = "done"
  BY <1>1, FrameSets, OutcomeView DEF View, Gone
<1>4. \A g \in Callers : Outcomes'[g] = Outcomes[g]
  BY <1>1, <1>2, FrameSets, OutcomeView DEF View, Gone
<1>5. Outcomes' = Outcomes
  BY <1>4, OutcomesStay
<1>. QED
  BY <1>2, <1>3, <1>5 DEF Abstract!Close

(* Every step of the pool is a step of the abstract pool or shows nothing. *)
LEMMA StepRefines ==
    ASSUME Inv, [Next]_vars
    PROVE  [Abstract!Next]_<<Outcomes, stop>>
<1>1. CASE UNCHANGED vars
  BY <1>1 DEF vars, Outcomes, Outcome
<1>2. ASSUME NEW f \in Frames, FrameStep(f) \/ SpuriousWake(f)
      PROVE  Abstract!Next \/ UNCHANGED <<Outcomes, stop>>
  <2>1. CASE \/ AllEnqueued(f) \/ PoolEnqueueWait(f)
             \/ PoolEnqueueWake(f) /\ hold[f] = None
             \/ DispatchTask(f) /\ current_task = None
             \/ ReadCounter(f)
             \/ Poll(f) /\ current_task = None
             \/ WaitForCompletion(f) \/ SpuriousWake(f)
    <3>1. /\ UNCHANGED <<current_task, hold, caller, issued, counter, combined, stop>>
          /\ \A g \in Frames \ {f} : at'[g] = at[g]
          /\ Quiet(f, at'[f])
      BY <2>1, QuietActions
    <3>2. f \in Clients /\ at[f] = "wait" /\ at'[f] = "returned" => counter[f] = 0
      <4>. SUFFICES ASSUME f \in Clients, at[f] = "wait", at'[f] = "returned" PROVE counter[f] = 0
        OBVIOUS
      <4>1. pc[f] \in {"wait", "cv_wait"} /\ pc'[f] = "returned" /\ pc \in [Frames -> WorkerLocations \cup ClientLocations \cup TaskLocations]
        BY DEF at, Awake, Inv, TypeOK
      <4>2. WaitForCompletion(f)
        BY <2>1, <4>1, FrameSets
           DEF AllEnqueued, PoolEnqueueWait, PoolEnqueueWake, DispatchTask, ReadCounter, Poll, SpuriousWake
      <4>. QED
        BY <4>1, <4>2 DEF WaitForCompletion
    <3>3. (f \in Callers /\ Abstract!Finish(f)) \/ UNCHANGED <<Outcomes, stop>>
      BY <3>1, <3>2, QuietRefines
    <3>. QED
      BY <3>3 DEF Abstract!Next, Callers
  <2>2. CASE \/ Enqueue(f) \/ Decrement(f) \/ Notify(f)
             \/ (DispatchTask(f) \/ Poll(f)) /\ current_task # None
    BY <2>2, InnerRefines
  <2>3. CASE RunDispatched(f) \/ (PoolEnqueueWake(f) /\ hold[f] # None)
    BY <2>3, StartRefines DEF Abstract!Next
  <2>4. CASE \E x \in Tasks : PoolEnqueue(f, x)
    BY <2>4, EnqueueRefines DEF Abstract!Next
  <2>5. CASE Combine(f)
    BY <2>5, CombineRefines DEF Abstract!Next, Callers
  <2>. QED
    BY <1>2, <2>1, <2>2, <2>3, <2>4, <2>5 DEF FrameStep
<1>3. CASE SetStop
  BY <1>3, CloseRefines DEF Abstract!Next
<1>4. CASE Join
  <2>1. /\ UNCHANGED <<current_task, hold, caller, issued, counter, combined, stop>>
        /\ \A g \in Frames \ {Owner} : at'[g] = at[g]
        /\ Quiet(Owner, at'[Owner]) /\ Owner \in Frames /\ at[Owner] = "join"
    BY <1>4, FrameSets, QuietActions DEF Join, at, Awake
  <2>2. (Owner \in Callers /\ Abstract!Finish(Owner)) \/ UNCHANGED <<Outcomes, stop>>
    BY <2>1, QuietRefines
  <2>. QED
    BY <2>2 DEF Abstract!Next, Callers
<1>. QED
  BY <1>1, <1>2, <1>3, <1>4 DEF Next

(* ThreadPool with condition variables implements the abstract pool: a task that was
   enqueued is executed once, and WaitForCompletion returns with the results of all
   tasks of the scheduler, unless a worker waits while the pool is destroyed. *)
THEOREM Refinement == Spec => ImplementsPool
<1>1. ASSUME Init PROVE Abstract!Init
  <2>1. Outcomes = [f \in Clients \cup Tasks |-> IF f \in Clients THEN "running" ELSE "new"]
    <3>1. \A c \in Clients : pc[c] = "enqueue"
      BY <1>1, PoolAssumption DEF Init, Frames
    <3>. QED
      BY <1>1, <3>1 DEF Init, Outcomes, Outcome
  <2>. QED
    BY <1>1, <2>1 DEF Init, Abstract!Init
<1>2. Inv /\ [Next]_vars => [Abstract!Next]_<<Outcomes, stop>>
  BY StepRefines
<1>. QED
  BY <1>1, <1>2, Invariance, PTL DEF Spec, Abstract!Spec, ImplementsPool
=============================================================================
