-------------------------- MODULE AtomicPoolProofs --------------------------
(***************************************************************************)
(* Proofs about AtomicPool, for any number of threads and of clients and   *)
(* any finite forest of tasks.                                             *)
(*                                                                         *)
(* None of the properties is inductive.  The protocol of busy is: who got  *)
(* from 0 to 1 by compare-exchange is alone with the slot until it stores  *)
(* 2 (Claims), and from then on the slot belongs to the thread until it    *)
(* stores 0 (SlotsFilled).  On top of it the invariant follows a task: it  *)
(* is in the hands of its parent or in one slot until it starts (OnePlace),*)
(* it executes on top of one frame (Stack), and it is counted by the       *)
(* scheduler of its parent until it is done (Counters).                    *)
(***************************************************************************)
EXTENDS AtomicPool, FiniteSetTheorems, TLAPS

Callers == Clients \cup Tasks

(* x has been enqueued and nobody executes it yet. *)
Unstarted(x) == x \in issued /\ pc[x] = "new"

(* The argument of the Enqueue that a frame is in. *)
Holds ==
    \A f \in Callers :
        /\ hold[f] # None <=> pc[f] \in {"scan", "move"}
        /\ hold[f] # None => Unstarted(hold[f]) /\ Parent[hold[f]] = f

(* Between the compare-exchange and the store of 2 a frame is alone with the slot,
   and what it has moved into it is the task it enqueues. *)
Claims ==
    /\ \A f \in Callers : pc[f] \in {"move", "store"} => scan[f] \in Threads /\ busy[scan[f]] = 1
    /\ \A f, g \in Callers :
          pc[f] \in {"move", "store"} /\ pc[g] \in {"move", "store"} /\ scan[f] = scan[g] => f = g
    /\ \A f \in Callers : pc[f] = "store" =>
          /\ slot[scan[f]] \in Tasks
          /\ Unstarted(slot[scan[f]])
          /\ Parent[slot[scan[f]]] = f

(* What a filled slot has for its thread. *)
SlotsFilled ==
    \A t \in Threads :
        /\ busy[t] = 2 => slot[t] \in Tasks /\ slot[t] \in issued
        /\ busy[t] = 2 /\ pc[t] \in {"loop", "look", "exited"} => pc[slot[t]] = "new"
        /\ pc[t] = "call" => busy[t] = 2 /\ Executing(slot[t]) /\ caller[slot[t]] = t
        /\ pc[t] = "free" => busy[t] = 2 /\ pc[slot[t]] = "done"

(* The slot of t has a task, published or about to be. *)
Kept(t) == busy[t] = 2 \/ \E f \in Callers : pc[f] = "store" /\ scan[f] = t

(* A task is in one slot, or in the hands of its parent, and nowhere else. *)
OnePlace ==
    /\ \A t, u \in Threads : Kept(t) /\ Kept(u) /\ slot[t] = slot[u] => t = u
    /\ \A t \in Threads, f \in Callers : Kept(t) /\ hold[f] # None => slot[t] # hold[f]
    /\ \A x \in Tasks : Unstarted(x) =>
          hold[Parent[x]] = x \/ \E t \in Threads : Kept(t) /\ slot[t] = x

(* A task executes on top of the thread that has it in its slot or on top of the
   task that enqueues it, and that frame executes nothing else. *)
Stack ==
    /\ \A c \in Clients : this_thread[c] = None
    /\ \A x \in Tasks : pc[x] # "new" => x \in issued
    /\ \A x \in Tasks : Executing(x) =>
          /\ caller[x] \in Threads \cup Tasks
          /\ pc[caller[x]] = "call"
          /\ caller[x] \in Threads => slot[caller[x]] = x /\ busy[caller[x]] = 2
          /\ caller[x] \in Tasks => caller[x] = Parent[x]
    /\ \A x, y \in Tasks : Executing(x) /\ Executing(y) /\ caller[x] = caller[y] => x = y

(* The tasks a scheduler waits for. *)
Pending(f) == {x \in Children(f) : x \in issued /\ pc[x] # "done"}

(* A scheduler counts its tasks from Enqueue until they are done, their results are
   combined before, and whoever waits has enqueued all its tasks. *)
Counters ==
    /\ \A f \in Callers \ Direct : counter[f] = Cardinality(Pending(f))
    /\ \A x \in Tasks : pc[x] = "decrement" => Parent[x] \notin Direct /\ x \in combined
    /\ \A x \in Tasks : pc[x] = "done" /\ Parent[x] \notin Direct => x \in combined
    /\ \A x \in combined : pc[x] \in {"decrement", "done"}
    /\ \A f \in Callers : pc[f] \in {"wait", "combine", "decrement", "done", "returned", "join",
                                     "destroyed"}
          => Children(f) \subseteq issued

(* The destructor runs after all clients have returned, and only it makes threads
   exit. *)
Closes ==
    /\ joined < Size \/ pc[Owner] = "destroyed"
    /\ \A t \in Threads : exit_request[t] \/ pc[t] = "exited" => Closing
    /\ Closing => \A c \in Clients : pc[c] \in {"returned", "join", "destroyed"}

Inv ==
    /\ TypeOK
    /\ Holds
    /\ Claims
    /\ SlotsFilled
    /\ OnePlace
    /\ Stack
    /\ Counters
    /\ WaitsUntilAllFinish
    /\ Closes
-----------------------------------------------------------------------------
(* The location of a frame tells what kind of frame it is. *)
LEMMA Kinds ==
    ASSUME TypeOK, NEW f \in Frames
    PROVE  /\ pc[f] \in {"loop", "look", "free", "exited"} => f \in Threads /\ f \notin Callers
           /\ pc[f] \in {"enqueue", "scan", "move", "store", "wait"} => f \in Callers /\ f \notin Threads
           /\ pc[f] \in {"new", "combine", "decrement", "done"} => f \in Tasks
           /\ pc[f] \in {"returned", "join", "destroyed"} => f \in Clients
           /\ f \in Threads => f \notin Callers
           /\ f \in Clients => f \notin Tasks
BY AtomicPoolAssumption DEF TypeOK, Frames, Callers, ThreadLocations, ClientLocations, TaskLocations

(* Tasks and clients are frames, as are the parents of tasks, and None is not. *)
LEMMA FrameSets ==
    /\ Threads \subseteq Frames /\ Callers \subseteq Frames /\ Tasks \subseteq Callers
    /\ Clients \subseteq Callers /\ Owner \in Clients
    /\ None \notin Frames
    /\ \A x \in Tasks : Parent[x] \in Callers
    /\ \A f : Children(f) = {x \in Tasks : Parent[x] = f}
    /\ Size \in Nat \ {0}
BY AtomicPoolAssumption DEF Frames, Callers, Children

(* The initial state satisfies the invariant. *)
LEMMA InitInv == Init => Inv
<1>. SUFFICES ASSUME Init PROVE Inv
  OBVIOUS
<1>. USE DEF Init
<1>1. /\ \A t \in Threads : pc[t] = "loop"
      /\ \A c \in Clients : pc[c] = "enqueue"
      /\ \A x \in Tasks : pc[x] = "new"
  BY AtomicPoolAssumption DEF Frames
<1>2. TypeOK
  <2>1. pc \in [Frames -> ThreadLocations \cup ClientLocations \cup TaskLocations]
    BY DEF ThreadLocations, ClientLocations, TaskLocations
  <2>2. /\ \A t \in Threads : pc[t] \in ThreadLocations
        /\ \A c \in Clients : pc[c] \in ClientLocations
        /\ \A x \in Tasks : pc[x] \in TaskLocations
    BY <1>1 DEF ThreadLocations, ClientLocations, TaskLocations
  <2>. QED
    BY <2>1, <2>2, FrameSets DEF TypeOK, Frames
<1>3. Holds /\ Claims /\ SlotsFilled
  BY <1>1, FrameSets DEF Holds, Claims, SlotsFilled, Callers
<1>4. OnePlace
  BY <1>1, FrameSets DEF OnePlace, Kept, Unstarted, Callers
<1>5. Stack
  BY <1>1, AtomicPoolAssumption DEF Stack, Executing, Frames
<1>6. Counters
  <2>1. \A f : Pending(f) = {}
    BY DEF Pending
  <2>. QED
    BY <1>1, <2>1, FS_EmptySet DEF Counters, Callers
<1>7. WaitsUntilAllFinish /\ Closes
  BY <1>1, FrameSets DEF WaitsUntilAllFinish, Closes, Closing
<1>. QED
  BY <1>2, <1>3, <1>4, <1>5, <1>6, <1>7 DEF Inv

(* Pending tasks are finitely many. *)
LEMMA PendingFinite == \A f : IsFiniteSet(Pending(f)) /\ Cardinality(Pending(f)) \in Nat
<1>1. \A f : Pending(f) \in SUBSET Tasks
  BY DEF Pending, Children
<1>. QED
  BY <1>1, AtomicPoolAssumption, FS_Subset, FS_CardinalityType

-----------------------------------------------------------------------------
(* Enqueue puts a task into the hands of its parent and counts it. *)
LEMMA EnqueueStep ==
    ASSUME Inv, NEW f \in Frames, NEW x \in Tasks, Enqueue(f, x)
    PROVE  Inv'
<1>1. /\ f \in Callers /\ f \notin Threads /\ f \in Frames /\ x # f
      /\ pc[f] = "enqueue" /\ pc[x] = "new" /\ x \notin issued /\ Parent[x] = f
      /\ hold[f] = None /\ x # None
  BY Kinds, FrameSets DEF Enqueue, Inv, Stack, Holds
<1>2. /\ pc' = [pc EXCEPT ![f] = "scan"]
      /\ hold' = [hold EXCEPT ![f] = x]
      /\ issued' = issued \cup {x}
      /\ scan' = [scan EXCEPT ![f] = 1]
      /\ counter' = [counter EXCEPT ![f] = IF f \in Direct THEN @ ELSE @ + 1]
      /\ UNCHANGED <<busy, slot, exit_request, joined, caller, this_thread, combined>>
  BY DEF Enqueue, Goto, jobs, stack
<1>3. /\ \A g \in Frames \ {f} : pc'[g] = pc[g] /\ hold'[g] = hold[g] /\ scan'[g] = scan[g]
      /\ pc'[f] = "scan" /\ hold'[f] = x
  BY <1>1, <1>2 DEF Inv, TypeOK
<1>4. TypeOK'
  BY <1>1, <1>2, FrameSets DEF Inv, TypeOK, Frames, Callers, ThreadLocations, ClientLocations, TaskLocations
<1>5. Holds'
  BY <1>1, <1>2, <1>3, FrameSets DEF Inv, TypeOK, Holds, Unstarted
<1>6. Claims'
  BY <1>1, <1>2, <1>3, FrameSets DEF Inv, Claims, Unstarted
<1>7. SlotsFilled'
  BY <1>1, <1>2, <1>3, FrameSets DEF Inv, TypeOK, SlotsFilled, Executing
<1>8. OnePlace'
  <2>1. \A t \in Threads : Kept(t)' <=> Kept(t)
    BY <1>1, <1>2, <1>3, FrameSets DEF Kept
  <2>2. \A t \in Threads : Kept(t) => slot[t] \in issued
    BY DEF Inv, Kept, SlotsFilled, Claims, Unstarted
  <2>. QED
    BY <1>1, <1>2, <1>3, <2>1, <2>2, FrameSets DEF Inv, OnePlace, Unstarted
<1>9. Stack'
  BY <1>1, <1>2, <1>3, FrameSets DEF Inv, Stack, Executing
<1>10. Counters'
  <2>1. Pending(f)' = Pending(f) \cup {x} /\ x \notin Pending(f)
    BY <1>1, <1>2, <1>3, FrameSets DEF Pending
  <2>2. \A g \in Callers \ {f} : Pending(g)' = Pending(g)
    BY <1>1, <1>2, <1>3, FrameSets DEF Pending
  <2>3. Cardinality(Pending(f)') = Cardinality(Pending(f)) + 1
    BY <2>1, PendingFinite, FS_AddElement
  <2>4. \A g \in Callers \ Direct : counter'[g] = Cardinality(Pending(g)')
    BY <1>1, <1>2, <2>2, <2>3 DEF Inv, TypeOK, Counters, Callers
  <2>. QED
    BY <1>1, <1>2, <1>3, <2>4, FrameSets DEF Inv, TypeOK, Counters
<1>11. WaitsUntilAllFinish'
  BY <1>1, <1>2, <1>3, FrameSets DEF Inv, WaitsUntilAllFinish, Callers
<1>12. Closes'
  BY <1>1, <1>2, <1>3, FrameSets DEF Inv, Closes, Closing
<1>. QED
  BY <1>4, <1>5, <1>6, <1>7, <1>8, <1>9, <1>10, <1>11, <1>12 DEF Inv
(* The end of the loop of enqueues, and a poll of exit_request or of an empty slot,
   move one frame and nothing else. *)
LEMMA QuietStep ==
    ASSUME Inv, NEW f \in Frames,
           \/ AllEnqueued(f) \/ ReadExitRequest(f)
           \/ ReadBusy(f) /\ busy[f] # 2
    PROVE  Inv'
<1>1. PICK l : /\ pc' = [pc EXCEPT ![f] = l]
               /\ \/ /\ pc[f] = "enqueue" /\ l \in {"wait", "returned"} /\ f \in Callers
                     /\ Children(f) \subseteq issued
                     /\ l = "returned" <=> f \in Direct
                  \/ /\ pc[f] \in {"loop", "look"} /\ l \in {"loop", "look", "exited"}
                     /\ f \in Threads /\ f \notin Callers
                     /\ l = "exited" => exit_request[f]
               /\ UNCHANGED <<jobs, search, stack, progress>>
  BY Kinds DEF AllEnqueued, ReadExitRequest, ReadBusy, Goto, Inv
<1>2. /\ \A g \in Frames \ {f} : pc'[g] = pc[g]
      /\ pc'[f] = l
  BY <1>1 DEF Inv, TypeOK
<1>3. UNCHANGED <<busy, slot, exit_request, joined, hold, scan, caller, this_thread, issued,
                  counter, combined>>
  BY <1>1 DEF jobs, search, stack, progress
<1>4. \A x \in Tasks : /\ pc'[x] = "new" <=> pc[x] = "new"
                       /\ pc'[x] = "done" <=> pc[x] = "done"
                       /\ pc'[x] = "combine" <=> pc[x] = "combine"
                       /\ pc'[x] = "decrement" <=> pc[x] = "decrement"
                       /\ pc'[x] = "returned" => FALSE
  <2>1. f \in Tasks => f \notin Direct
    BY AtomicPoolAssumption
  <2>. QED
    BY <1>1, <1>2, <2>1, FrameSets DEF Inv, TypeOK, TaskLocations
<1>5. TypeOK'
  BY <1>1, <1>3, <1>4, FrameSets, Kinds, AtomicPoolAssumption
     DEF Inv, TypeOK, Callers, ThreadLocations, ClientLocations, TaskLocations
<1>6. Holds' /\ Claims'
  BY <1>1, <1>2, <1>3, <1>4, FrameSets DEF Inv, TypeOK, Holds, Claims, Unstarted
<1>7. SlotsFilled'
  BY <1>1, <1>2, <1>3, <1>4, FrameSets, Kinds DEF Inv, TypeOK, SlotsFilled, Executing
<1>8. OnePlace'
  <2>1. \A t \in Threads : Kept(t)' <=> Kept(t)
    BY <1>1, <1>2, <1>3, FrameSets DEF Kept
  <2>. QED
    BY <1>3, <1>4, <2>1, FrameSets DEF Inv, OnePlace, Unstarted
<1>9. Stack'
  <2>1. \A x \in Tasks : Executing(x)' <=> Executing(x)
    BY <1>4 DEF Executing
  <2>2. \A x \in Tasks : Executing(x) => caller[x] # f /\ caller[x] \in Frames
    BY <1>1, FrameSets DEF Inv, Stack
  <2>. QED
    BY <1>2, <1>3, <1>4, <2>1, <2>2 DEF Inv, Stack
<1>10. Counters'
  <2>1. \A g : Pending(g)' = Pending(g)
    BY <1>3, <1>4 DEF Pending, Children
  <2>. QED
    BY <1>1, <1>2, <1>3, <1>4, <2>1, FrameSets DEF Inv, TypeOK, Counters
<1>11. WaitsUntilAllFinish'
  BY <1>1, <1>2, <1>3, <1>4, FrameSets DEF Inv, WaitsUntilAllFinish, Callers
<1>12. Closes'
  BY <1>1, <1>2, <1>3, FrameSets, Kinds DEF Inv, Closes, Closing
<1>. QED
  BY <1>5, <1>6, <1>7, <1>8, <1>9, <1>10, <1>11, <1>12 DEF Inv

(* The wait ends when the counter is zero: no task of the scheduler is pending. *)
LEMMA WaitStep ==
    ASSUME Inv, NEW f \in Frames, WaitForCompletion(f)
    PROVE  Inv'
<1>. DEFINE l == IF f \in Clients THEN "returned" ELSE "combine"
<1>1. /\ pc[f] = "wait" /\ counter[f] = 0 /\ pc' = [pc EXCEPT ![f] = l]
      /\ f \in Callers /\ f \notin Threads
  BY Kinds DEF WaitForCompletion, Goto, Inv
<1>2. /\ \A g \in Frames \ {f} : pc'[g] = pc[g]
      /\ pc'[f] = l
  BY <1>1 DEF Inv, TypeOK
<1>3. UNCHANGED <<busy, slot, exit_request, joined, hold, scan, caller, this_thread, issued,
                  counter, combined>>
  BY DEF WaitForCompletion, jobs, search, stack, progress
<1>4. \A x \in Tasks : /\ pc'[x] = "new" <=> pc[x] = "new"
                       /\ pc'[x] = "done" <=> pc[x] = "done"
                       /\ pc'[x] = "decrement" <=> pc[x] = "decrement"
  BY <1>1, <1>2, FrameSets
<1>5. TypeOK'
  BY <1>1, <1>3, FrameSets, Kinds DEF Inv, TypeOK, Callers, ThreadLocations, ClientLocations, TaskLocations
<1>6. Holds' /\ Claims'
  BY <1>1, <1>2, <1>3, <1>4, FrameSets DEF Inv, TypeOK, Holds, Claims, Unstarted
<1>7. SlotsFilled'
  BY <1>1, <1>2, <1>3, <1>4, FrameSets DEF Inv, TypeOK, SlotsFilled, Executing
<1>8. OnePlace'
  <2>1. \A t \in Threads : Kept(t)' <=> Kept(t)
    BY <1>1, <1>2, <1>3, FrameSets DEF Kept
  <2>. QED
    BY <1>3, <1>4, <2>1, FrameSets DEF Inv, OnePlace, Unstarted
<1>9. Stack'
  <2>1. \A x \in Tasks : Executing(x)' <=> Executing(x)
    BY <1>4 DEF Executing
  <2>2. \A x \in Tasks : Executing(x) => caller[x] # f /\ caller[x] \in Frames
    BY <1>1, FrameSets DEF Inv, Stack
  <2>. QED
    BY <1>2, <1>3, <1>4, <2>1, <2>2 DEF Inv, Stack
<1>10. Counters'
  <2>1. \A g : Pending(g)' = Pending(g)
    BY <1>3, <1>4 DEF Pending, Children
  <2>. QED
    BY <1>1, <1>2, <1>3, <1>4, <2>1, FrameSets DEF Inv, TypeOK, Counters
<1>11. WaitsUntilAllFinish'
  <2>1. ASSUME f \notin Direct, NEW x \in Children(f)
        PROVE  pc[x] = "done" /\ x \in combined
    <3>1. Cardinality(Pending(f)) = 0 /\ Children(f) \subseteq issued
      BY <1>1, <2>1 DEF Inv, Counters
    <3>2. Pending(f) = {}
      BY <3>1, PendingFinite, FS_EmptySet
    <3>3. x \in Tasks /\ Parent[x] \notin Direct
      BY <2>1, FrameSets
    <3>. QED
      BY <2>1, <3>1, <3>2, <3>3 DEF Inv, Counters, Pending
  <2>. QED
    BY <1>1, <1>2, <1>3, <1>4, <2>1, FrameSets DEF Inv, WaitsUntilAllFinish, Callers
<1>12. Closes'
  BY <1>1, <1>2, <1>3, FrameSets, Kinds DEF Inv, Closes, Closing
<1>. QED
  BY <1>5, <1>6, <1>7, <1>8, <1>9, <1>10, <1>11, <1>12 DEF Inv

(* SetTask: the compare-exchange makes the frame the only one with the slot. *)
LEMMA SetTaskStep ==
    ASSUME Inv, NEW f \in Frames, SetTask(f)
    PROVE  Inv'
<1>1. /\ pc[f] = "scan" /\ f \in Callers /\ f \notin Threads /\ scan[f] \in Threads
  BY Kinds DEF SetTask, Inv, TypeOK, Threads
<1>2. UNCHANGED <<slot, exit_request, joined, hold, caller, this_thread, issued, counter, combined>>
  BY DEF SetTask, stack, progress
<1>3. \/ /\ busy[scan[f]] = 0
         /\ busy' = [busy EXCEPT ![scan[f]] = 1]
         /\ pc' = [pc EXCEPT ![f] = "move"]
         /\ scan' = scan
      \/ scan' = [scan EXCEPT ![f] = @ + 1] /\ pc' = pc /\ busy' = busy
  BY DEF SetTask, Goto
<1>4. /\ \A g \in Frames \ {f} : pc'[g] = pc[g] /\ scan'[g] = scan[g]
      /\ pc'[f] \in {"scan", "move"}
      /\ \A t \in Threads : busy'[t] = 2 <=> busy[t] = 2
  BY <1>1, <1>3 DEF Inv, TypeOK
<1>5. TypeOK'
  <2>1. scan' \in [Frames -> 1 .. Size + 1]
    BY <1>1, <1>3, FrameSets DEF Inv, TypeOK, Threads
  <2>2. pc' \in [Frames -> ThreadLocations \cup ClientLocations \cup TaskLocations]
    BY <1>3 DEF Inv, TypeOK, ClientLocations
  <2>3. /\ \A t \in Threads : pc'[t] \in ThreadLocations
        /\ \A c \in Clients : pc'[c] \in ClientLocations
        /\ \A x \in Tasks : pc'[x] \in TaskLocations
    BY <1>1, <1>4, FrameSets DEF Inv, TypeOK, ClientLocations, TaskLocations
  <2>4. busy' \in [Threads -> 0 .. 2]
    BY <1>3 DEF Inv, TypeOK
  <2>. QED
    BY <1>2, <2>1, <2>2, <2>3, <2>4 DEF Inv, TypeOK
<1>6. Holds'
  BY <1>1, <1>2, <1>4, FrameSets DEF Inv, TypeOK, Holds, Unstarted
<1>7. Claims'
  <2>1. CASE pc' = pc /\ busy' = busy
    BY <1>1, <1>2, <1>4, <2>1, FrameSets DEF Inv, Claims, Unstarted
  <2>2. CASE ~(pc' = pc /\ busy' = busy)
    <3>1. /\ busy[scan[f]] = 0 /\ scan' = scan
          /\ busy'[scan[f]] = 1 /\ \A t \in Threads \ {scan[f]} : busy'[t] = busy[t]
          /\ pc'[f] = "move"
      BY <1>1, <1>3, <2>2 DEF Inv, TypeOK
    <3>2. \A g \in Callers : pc[g] \in {"move", "store"} => scan[g] # scan[f]
      BY <3>1 DEF Inv, Claims
    <3>3. \A x \in Tasks : pc[x] = "new" => pc'[x] = "new"
      BY <1>1, <1>4, FrameSets
    <3>. QED
      BY <1>1, <1>2, <1>4, <3>1, <3>2, <3>3, FrameSets DEF Inv, Claims, Unstarted
  <2>. QED
    BY <2>1, <2>2
<1>8. SlotsFilled'
  BY <1>1, <1>2, <1>4, FrameSets DEF Inv, TypeOK, SlotsFilled, Executing
<1>9. OnePlace'
  <2>1. \A t \in Threads : Kept(t)' <=> Kept(t)
    BY <1>1, <1>2, <1>4, FrameSets DEF Kept
  <2>. QED
    BY <1>1, <1>2, <1>4, <2>1, FrameSets DEF Inv, OnePlace, Unstarted
<1>10. Stack'
  <2>1. \A x \in Tasks : Executing(x)' <=> Executing(x)
    BY <1>1, <1>4, FrameSets DEF Executing
  <2>2. \A x \in Tasks : Executing(x) => caller[x] # f /\ caller[x] \in Frames
    BY <1>1, FrameSets DEF Inv, Stack
  <2>. QED
    BY <1>1, <1>2, <1>4, <2>1, <2>2, FrameSets DEF Inv, Stack
<1>11. Counters'
  <2>1. \A g : Pending(g)' = Pending(g)
    BY <1>1, <1>2, <1>4, FrameSets DEF Pending, Children
  <2>. QED
    BY <1>1, <1>2, <1>4, <2>1, FrameSets DEF Inv, TypeOK, Counters
<1>12. WaitsUntilAllFinish'
  BY <1>1, <1>2, <1>4, FrameSets DEF Inv, WaitsUntilAllFinish, Callers
<1>13. Closes'
  BY <1>1, <1>2, <1>4, FrameSets, Kinds DEF Inv, Closes, Closing
<1>. QED
  BY <1>5, <1>6, <1>7, <1>8, <1>9, <1>10, <1>11, <1>12, <1>13 DEF Inv
(* MoveTask: the task leaves the hands of the frame for the slot it has claimed. *)
LEMMA MoveTaskStep ==
    ASSUME Inv, NEW f \in Frames, MoveTask(f)
    PROVE  Inv'
<1>. DEFINE s == scan[f]
            x == hold[f]
<1>1. /\ pc[f] = "move" /\ f \in Callers /\ f \notin Threads
      /\ s \in Threads /\ busy[s] = 1
      /\ x \in Tasks /\ Unstarted(x) /\ Parent[x] = f
  BY Kinds DEF MoveTask, Inv, TypeOK, Claims, Holds
<1>2. /\ UNCHANGED <<busy, exit_request, joined, scan, caller, this_thread, issued, counter, combined>>
      /\ slot' = [slot EXCEPT ![s] = x]
      /\ hold' = [hold EXCEPT ![f] = None]
      /\ pc' = [pc EXCEPT ![f] = "store"]
  BY DEF MoveTask, Goto, stack, progress
<1>3. /\ \A g \in Frames \ {f} : pc'[g] = pc[g] /\ hold'[g] = hold[g]
      /\ pc'[f] = "store" /\ hold'[f] = None
      /\ \A t \in Threads \ {s} : slot'[t] = slot[t]
      /\ slot'[s] = x
  BY <1>1, <1>2 DEF Inv, TypeOK
<1>4. TypeOK'
  BY <1>1, <1>2, FrameSets, Kinds
     DEF Inv, TypeOK, Callers, ThreadLocations, ClientLocations, TaskLocations
<1>5. \A y \in Tasks : pc'[y] = "new" <=> pc[y] = "new"
  BY <1>1, <1>3, FrameSets
<1>. HIDE DEF s, x
<1>6. Holds'
  BY <1>1, <1>2, <1>3, <1>5, FrameSets DEF Inv, TypeOK, Holds, Unstarted
<1>7. Claims'
  <2>1. \A g \in Callers \ {f} : pc[g] \in {"move", "store"} => scan[g] # s
    BY <1>1 DEF Inv, Claims, s
  <2>2. scan'[f] = s
    BY <1>2 DEF s
  <2>. QED
    BY <1>1, <1>2, <1>3, <1>5, <2>1, <2>2, FrameSets DEF Inv, Claims, Unstarted
<1>8. SlotsFilled'
  BY <1>1, <1>2, <1>3, FrameSets DEF Inv, TypeOK, SlotsFilled, Executing
<1>9. OnePlace'
  <2>1. \A t \in Threads \ {s} : Kept(t)' <=> Kept(t)
    BY <1>1, <1>2, <1>3, FrameSets DEF Kept, s
  <2>2. \A t \in Threads : Kept(t) => slot[t] # x
    BY <1>1, FrameSets DEF Inv, OnePlace, x
  <2>3. \A g \in Callers : hold'[g] # None => hold'[g] # x
    BY <1>1, <1>3, FrameSets DEF Inv, Holds
  <2>4. \A t \in Threads : t = s => Kept(t)'
    BY <1>1, <1>2, <1>3 DEF Kept, s
  <2>5. ~Kept(s)
    BY <1>1 DEF Inv, Kept, Claims, s
  <2>6. ASSUME NEW t \in Threads, NEW u \in Threads, Kept(t)', Kept(u)', slot'[t] = slot'[u]
        PROVE  t = u
    BY <1>3, <2>1, <2>2, <2>6 DEF Inv, OnePlace
  <2>7. ASSUME NEW t \in Threads, NEW g \in Callers, Kept(t)', hold'[g] # None
        PROVE  slot'[t] # hold'[g]
    BY <1>3, <2>1, <2>3, <2>7, FrameSets DEF Inv, OnePlace
  <2>8. ASSUME NEW y \in Tasks, Unstarted(y)'
        PROVE  hold'[Parent[y]] = y \/ \E t \in Threads : Kept(t)' /\ slot'[t] = y
    <3>1. CASE y = x
      BY <1>1, <1>3, <2>4, <3>1
    <3>2. CASE y # x
      <4>1. Unstarted(y)
        BY <1>2, <1>5, <2>8 DEF Unstarted
      <4>2. CASE hold[Parent[y]] = y
        BY <1>3, <3>2, <4>2, FrameSets DEF x
      <4>3. CASE \E t \in Threads : Kept(t) /\ slot[t] = y
        BY <1>3, <2>1, <2>5, <4>3
      <4>. QED
        BY <4>1, <4>2, <4>3 DEF Inv, OnePlace
    <3>. QED
      BY <3>1, <3>2
  <2>. QED
    BY <2>6, <2>7, <2>8 DEF OnePlace
<1>10. Stack'
  <2>1. \A y \in Tasks : Executing(y)' <=> Executing(y)
    BY <1>1, <1>3, FrameSets DEF Executing
  <2>2. \A y \in Tasks : Executing(y) => caller[y] # f /\ caller[y] # s /\ caller[y] \in Frames
    BY <1>1, FrameSets DEF Inv, Stack
  <2>. QED
    BY <1>1, <1>2, <1>3, <2>1, <2>2, FrameSets DEF Inv, Stack
<1>11. Counters'
  <2>1. \A g : Pending(g)' = Pending(g)
    BY <1>1, <1>2, <1>3, FrameSets DEF Pending, Children
  <2>. QED
    BY <1>1, <1>2, <1>3, <2>1, FrameSets DEF Inv, TypeOK, Counters
<1>12. WaitsUntilAllFinish'
  BY <1>1, <1>2, <1>3, FrameSets DEF Inv, WaitsUntilAllFinish, Callers
<1>13. Closes'
  BY <1>1, <1>2, <1>3, FrameSets, Kinds DEF Inv, Closes, Closing
<1>. QED
  BY <1>4, <1>6, <1>7, <1>8, <1>9, <1>10, <1>11, <1>12, <1>13 DEF Inv

(* StoreBusy publishes the slot: its thread is not executing anything, since the
   slot was not filled. *)
LEMMA StoreBusyStep ==
    ASSUME Inv, NEW f \in Frames, StoreBusy(f)
    PROVE  Inv'
<1>. DEFINE s == scan[f]
<1>1. /\ pc[f] = "store" /\ f \in Callers /\ f \notin Threads
      /\ s \in Threads /\ busy[s] = 1
      /\ slot[s] \in Tasks /\ Unstarted(slot[s])
  BY Kinds DEF StoreBusy, Inv, Claims
<1>2. /\ UNCHANGED <<slot, exit_request, joined, hold, caller, this_thread, issued, counter, combined>>
      /\ busy' = [busy EXCEPT ![s] = 2]
      /\ scan' = [scan EXCEPT ![f] = 1]
      /\ pc' = [pc EXCEPT ![f] = "enqueue"]
  BY DEF StoreBusy, Goto, stack, progress
<1>3. /\ \A g \in Frames \ {f} : pc'[g] = pc[g] /\ scan'[g] = scan[g]
      /\ pc'[f] = "enqueue"
      /\ \A t \in Threads \ {s} : busy'[t] = busy[t]
      /\ busy'[s] = 2
  BY <1>1, <1>2 DEF Inv, TypeOK
<1>4. TypeOK'
  BY <1>1, <1>2, FrameSets, Kinds
     DEF Inv, TypeOK, Callers, ThreadLocations, ClientLocations, TaskLocations
<1>5. \A y \in Tasks : pc'[y] = "new" <=> pc[y] = "new"
  BY <1>1, <1>3, FrameSets
<1>6. \A g \in Callers \ {f} : pc[g] \in {"move", "store"} => scan[g] # s
  BY <1>1 DEF Inv, Claims
<1>7. Kept(s)
  BY <1>1 DEF Kept
<1>. HIDE DEF s
<1>8. Holds'
  BY <1>1, <1>2, <1>3, <1>5, FrameSets DEF Inv, TypeOK, Holds, Unstarted
<1>9. Claims'
  BY <1>1, <1>2, <1>3, <1>5, <1>6, FrameSets DEF Inv, Claims, Unstarted
<1>10. SlotsFilled'
  <2>1. pc[s] \in {"loop", "look", "exited"}
    BY <1>1 DEF Inv, TypeOK, SlotsFilled, ThreadLocations
  <2>. QED
    BY <1>1, <1>2, <1>3, <1>5, <2>1, FrameSets DEF Inv, TypeOK, SlotsFilled, Executing, Unstarted
<1>11. OnePlace'
  <2>1. \A t \in Threads : Kept(t)' <=> Kept(t)
    BY <1>1, <1>2, <1>3, <1>7, FrameSets DEF Kept, s
  <2>. QED
    BY <1>2, <1>5, <2>1, FrameSets DEF Inv, OnePlace, Unstarted
<1>12. Stack'
  <2>1. \A y \in Tasks : Executing(y)' <=> Executing(y)
    BY <1>1, <1>3, FrameSets DEF Executing
  <2>2. \A y \in Tasks : Executing(y) => caller[y] # f /\ caller[y] # s /\ caller[y] \in Frames
    BY <1>1, FrameSets DEF Inv, Stack
  <2>. QED
    BY <1>1, <1>2, <1>3, <2>1, <2>2, FrameSets DEF Inv, Stack
<1>13. Counters'
  <2>1. \A g : Pending(g)' = Pending(g)
    BY <1>1, <1>2, <1>3, FrameSets DEF Pending, Children
  <2>. QED
    BY <1>1, <1>2, <1>3, <2>1, FrameSets DEF Inv, TypeOK, Counters
<1>14. WaitsUntilAllFinish'
  BY <1>1, <1>2, <1>3, FrameSets DEF Inv, WaitsUntilAllFinish, Callers
<1>15. Closes'
  BY <1>1, <1>2, <1>3, FrameSets, Kinds DEF Inv, Closes, Closing
<1>. QED
  BY <1>4, <1>8, <1>9, <1>10, <1>11, <1>12, <1>13, <1>14, <1>15 DEF Inv

(* StoreFree: the task in the slot is done, so the slot is given away with nothing
   in it that is still needed. *)
LEMMA StoreFreeStep ==
    ASSUME Inv, NEW t \in Frames, StoreFree(t)
    PROVE  Inv'
<1>1. /\ pc[t] = "free" /\ t \in Threads /\ t \notin Callers
      /\ busy[t] = 2 /\ pc[slot[t]] = "done" /\ slot[t] \in Tasks
  BY Kinds DEF StoreFree, Inv, SlotsFilled
<1>2. /\ UNCHANGED <<slot, exit_request, joined, hold, scan, caller, this_thread, issued, counter, combined>>
      /\ busy' = [busy EXCEPT ![t] = 0]
      /\ pc' = [pc EXCEPT ![t] = "loop"]
  BY DEF StoreFree, Goto, search, stack, progress
<1>3. /\ \A g \in Frames \ {t} : pc'[g] = pc[g]
      /\ pc'[t] = "loop"
      /\ \A u \in Threads \ {t} : busy'[u] = busy[u]
      /\ busy'[t] = 0
      /\ \A g \in Callers : pc'[g] = pc[g]
  BY <1>1, <1>2, FrameSets DEF Inv, TypeOK
<1>4. TypeOK'
  BY <1>1, <1>2, FrameSets, Kinds
     DEF Inv, TypeOK, Callers, ThreadLocations, ClientLocations, TaskLocations
<1>5. Holds' /\ Claims'
  BY <1>1, <1>2, <1>3, FrameSets DEF Inv, TypeOK, Holds, Claims, Unstarted
<1>6. SlotsFilled'
  BY <1>1, <1>2, <1>3, FrameSets DEF Inv, TypeOK, SlotsFilled, Executing
<1>7. OnePlace'
  <2>1. \A u \in Threads \ {t} : Kept(u)' <=> Kept(u)
    BY <1>2, <1>3 DEF Kept
  <2>2. ~Kept(t)'
    BY <1>1, <1>2, <1>3 DEF Inv, Claims, Kept
  <2>3. \A x \in Tasks : Unstarted(x)' <=> Unstarted(x)
    BY <1>2, <1>3, FrameSets DEF Unstarted
  <2>4. ~Unstarted(slot[t])
    BY <1>1 DEF Unstarted
  <2>. QED
    BY <1>2, <2>1, <2>2, <2>3, <2>4 DEF Inv, OnePlace
<1>8. Stack'
  <2>1. \A y \in Tasks : Executing(y)' <=> Executing(y)
    BY <1>1, <1>3, FrameSets DEF Executing
  <2>2. \A y \in Tasks : Executing(y) => caller[y] # t /\ caller[y] \in Frames
    BY <1>1, FrameSets DEF Inv, Stack
  <2>. QED
    BY <1>1, <1>2, <1>3, <2>1, <2>2, FrameSets DEF Inv, Stack
<1>9. Counters'
  <2>1. \A g : Pending(g)' = Pending(g)
    BY <1>1, <1>2, <1>3, FrameSets DEF Pending, Children
  <2>. QED
    BY <1>1, <1>2, <1>3, <2>1, FrameSets DEF Inv, TypeOK, Counters
<1>10. WaitsUntilAllFinish'
  BY <1>1, <1>2, <1>3, FrameSets DEF Inv, WaitsUntilAllFinish, Callers
<1>11. Closes'
  BY <1>1, <1>2, <1>3, FrameSets, Kinds DEF Inv, Closes, Closing
<1>. QED
  BY <1>4, <1>5, <1>6, <1>7, <1>8, <1>9, <1>10, <1>11 DEF Inv

(* A frame begins to execute an unstarted task: its thread the one in its slot, or a
   frame of a thread of the pool the one that nobody accepted. *)
LEMMA ExecuteStep ==
    ASSUME Inv, NEW f \in Frames, NEW x \in Tasks, Unstarted(x), Execute(f, x),
           \/ /\ f \in Threads /\ pc[f] = "look" /\ busy[f] = 2 /\ slot[f] = x
              /\ UNCHANGED <<hold, scan>>
           \/ /\ f \in Tasks /\ pc[f] = "scan" /\ hold[f] = x
              /\ hold' = [hold EXCEPT ![f] = None]
              /\ scan' = [scan EXCEPT ![f] = 1],
           UNCHANGED <<jobs, progress>>
    PROVE  Inv'
<1>1. /\ UNCHANGED <<busy, slot, exit_request, joined, issued, counter, combined>>
      /\ caller' = [caller EXCEPT ![x] = f]
      /\ this_thread' = [this_thread EXCEPT ![x] = this_thread[f]]
      /\ pc' = [pc EXCEPT ![f] = "call", ![x] = "enqueue"]
      /\ pc[x] = "new" /\ x \in issued /\ x # f /\ x \notin Threads /\ x \in Callers /\ x \notin Clients
      /\ f \in Threads \cup Tasks /\ f \notin Clients /\ (f \in Threads <=> f \notin Callers)
      /\ pc[f] \in {"look", "scan"}
  BY FrameSets, Kinds DEF Execute, jobs, progress, Unstarted, Inv
<1>2. /\ \A g \in Frames \ {f, x} : pc'[g] = pc[g]
      /\ pc'[f] = "call" /\ pc'[x] = "enqueue"
      /\ \A y \in Tasks \ {x} : caller'[y] = caller[y]
      /\ caller'[x] = f
  BY <1>1, FrameSets DEF Inv, TypeOK
<1>3. /\ hold' \in [Frames -> Tasks \cup {None}]
      /\ scan' \in [Frames -> 1 .. Size + 1]
      /\ \A g \in Frames \ {f} : hold'[g] = hold[g] /\ scan'[g] = scan[g]
      /\ f \in Callers => hold'[f] = None /\ hold[f] = x
      /\ hold[x] = None
  BY <1>1, FrameSets DEF Inv, TypeOK, Holds
<1>4. TypeOK'
  <2>1. pc' \in [Frames -> ThreadLocations \cup ClientLocations \cup TaskLocations]
    BY <1>1 DEF Inv, TypeOK, TaskLocations
  <2>2. /\ \A t \in Threads : pc'[t] \in ThreadLocations
        /\ \A c \in Clients : pc'[c] \in ClientLocations
        /\ \A y \in Tasks : pc'[y] \in TaskLocations
    BY <1>1, <1>2, FrameSets DEF Inv, TypeOK, ThreadLocations, TaskLocations
  <2>3. caller' \in [Tasks -> Frames \cup {None}] /\ this_thread' \in [Frames -> Threads \cup {None}]
    BY <1>1 DEF Inv, TypeOK
  <2>. QED
    BY <1>1, <1>3, <2>1, <2>2, <2>3 DEF Inv, TypeOK
<1>4m. \A g \in Callers :
          /\ pc'[g] = "move" <=> pc[g] = "move"
          /\ pc'[g] = "store" <=> pc[g] = "store"
          /\ pc[g] \in {"move", "store"} => scan'[g] = scan[g]
  BY <1>1, <1>2, <1>3, FrameSets
<1>5. Holds'
  <2>1. \A g \in Callers : hold[g] = x => g = f
    BY <1>1, <1>2, <1>3, FrameSets DEF Inv, Holds, SlotsFilled, OnePlace, Kept
  <2>. QED
    BY <1>1, <1>2, <1>3, <2>1, FrameSets DEF Inv, TypeOK, Holds, Unstarted
<1>6. Claims'
  <2>1. \A g \in Callers : pc[g] = "store" => slot[scan[g]] # x
    BY <1>1, <1>3, FrameSets DEF Inv, Claims, OnePlace, Kept
  <2>2. \A y \in Tasks \ {x} : Unstarted(y) => Unstarted(y)'
    BY <1>1, <1>2, FrameSets DEF Unstarted
  <2>3. \A g \in Callers : pc'[g] = "store" =>
           slot'[scan'[g]] \in Tasks /\ slot'[scan'[g]] \in issued'
           /\ pc'[slot'[scan'[g]]] = "new" /\ Parent[slot'[scan'[g]]] = g
    <3>. SUFFICES ASSUME NEW g \in Callers, pc'[g] = "store"
                  PROVE  slot'[scan'[g]] \in Tasks /\ slot'[scan'[g]] \in issued'
                         /\ pc'[slot'[scan'[g]]] = "new" /\ Parent[slot'[scan'[g]]] = g
      OBVIOUS
    <3>1. pc[g] = "store" /\ slot'[scan'[g]] = slot[scan[g]]
      BY <1>1, <1>4m
    <3>2. slot[scan[g]] \in Tasks \ {x} /\ Unstarted(slot[scan[g]]) /\ Parent[slot[scan[g]]] = g
      BY <2>1, <3>1 DEF Inv, Claims
    <3>. QED
      BY <1>1, <2>2, <3>1, <3>2 DEF Unstarted
  <2>4. \A g \in Callers : pc'[g] \in {"move", "store"} => scan'[g] \in Threads /\ busy'[scan'[g]] = 1
    BY <1>1, <1>4m DEF Inv, Claims
  <2>5. \A g, h \in Callers :
           pc'[g] \in {"move", "store"} /\ pc'[h] \in {"move", "store"} /\ scan'[g] = scan'[h] => g = h
    BY <1>4m DEF Inv, Claims
  <2>. QED
    BY <2>3, <2>4, <2>5 DEF Claims, Unstarted
<1>7. \A t \in Threads : busy[t] = 2 /\ slot[t] = x => t = f
  BY <1>1, <1>3, FrameSets DEF Inv, OnePlace, Kept
<1>8. SlotsFilled'
  BY <1>1, <1>2, <1>7, FrameSets, Kinds DEF Inv, TypeOK, SlotsFilled, Executing
<1>9. OnePlace'
  <2>1. \A t \in Threads : Kept(t)' <=> Kept(t)
    BY <1>1, <1>4m DEF Kept
  <2>2. \A y \in Tasks : Unstarted(y)' => Unstarted(y) /\ y # x
    BY <1>1, <1>2, FrameSets DEF Unstarted
  <2>3. \A g \in Callers : hold'[g] # None => hold'[g] = hold[g]
    BY <1>3, FrameSets
  <2>4. \A y \in Tasks : y # x /\ hold[Parent[y]] = y => hold'[Parent[y]] = y
    BY <1>1, <1>3, FrameSets
  <2>. QED
    BY <1>1, <2>1, <2>2, <2>3, <2>4, FrameSets DEF Inv, OnePlace
<1>10. Stack'
  <2>1. \A y \in Tasks \ {x} : Executing(y)' <=> Executing(y)
    BY <1>1, <1>2, FrameSets DEF Executing
  <2>2. Executing(x)' /\ ~Executing(x)
    BY <1>1, <1>2 DEF Executing
  <2>3. \A y \in Tasks : Executing(y) => caller[y] # f /\ caller[y] # x /\ caller[y] \in Frames
    BY <1>1, FrameSets DEF Inv, Stack
  <2>4. f \in Tasks => f = Parent[x]
    BY <1>1, <1>3, FrameSets DEF Inv, Holds
  <2>5. \A c \in Clients : this_thread'[c] = this_thread[c]
    BY <1>1, FrameSets DEF Inv, TypeOK
  <2>6. \A y \in Tasks : pc'[y] # "new" => y \in issued'
    BY <1>1, <1>2, FrameSets DEF Inv, Stack
  <2>7. ASSUME NEW y \in Tasks, Executing(y)'
        PROVE  /\ caller'[y] \in Threads \cup Tasks
               /\ pc'[caller'[y]] = "call"
               /\ caller'[y] \in Threads => slot'[caller'[y]] = y /\ busy'[caller'[y]] = 2
               /\ caller'[y] \in Tasks => caller'[y] = Parent[y]
    <3>1. CASE y = x
      BY <1>1, <1>2, <2>4, <3>1, FrameSets
    <3>2. CASE y # x
      <4>1. Executing(y) /\ caller'[y] = caller[y] /\ pc'[caller[y]] = pc[caller[y]]
        BY <1>2, <2>1, <2>3, <2>7, <3>2
      <4>. QED
        BY <1>1, <4>1 DEF Inv, Stack
    <3>. QED
      BY <3>1, <3>2
  <2>8. ASSUME NEW y \in Tasks, NEW z \in Tasks, Executing(y)', Executing(z)', caller'[y] = caller'[z]
        PROVE  y = z
    BY <1>2, <2>1, <2>3, <2>8 DEF Inv, Stack
  <2>. QED
    BY <2>5, <2>6, <2>7, <2>8 DEF Inv, Stack
<1>11. Counters'
  <2>1. \A g : Pending(g)' = Pending(g)
    <3>1. \A y \in Tasks : pc'[y] = "done" <=> pc[y] = "done"
      BY <1>1, <1>2, FrameSets
    <3>2. UNCHANGED issued
      BY <1>1
    <3>. QED
      BY <3>1, <3>2 DEF Pending, Children
  <2>2. \A g \in Callers : pc'[g] \notin {"call", "enqueue"} => pc'[g] = pc[g]
    BY <1>1, <1>2, FrameSets
  <2>3. \A y \in Tasks : pc[y] \in {"decrement", "done"} => pc'[y] = pc[y]
    BY <1>1, <1>2, FrameSets
  <2>4. \A y \in combined : y \in Tasks
    BY DEF Inv, TypeOK
  <2>5. UNCHANGED <<counter, combined, issued>>
    BY <1>1
  <2>6. \A g \in Callers \ Direct : counter'[g] = Cardinality(Pending(g)')
    BY <2>1, <2>5 DEF Inv, Counters
  <2>7. \A y \in Tasks : /\ pc'[y] = "decrement" => Parent[y] \notin Direct /\ y \in combined'
                         /\ pc'[y] = "done" /\ Parent[y] \notin Direct => y \in combined'
    BY <2>2, <2>5 DEF Inv, Counters, Callers
  <2>8. \A y \in combined' : pc'[y] \in {"decrement", "done"}
    BY <2>3, <2>4, <2>5 DEF Inv, Counters
  <2>9. \A g \in Callers : pc'[g] \in {"wait", "combine", "decrement", "done", "returned", "join",
                                        "destroyed"}
           => Children(g) \subseteq issued'
    BY <2>2, <2>5 DEF Inv, Counters
  <2>. QED
    BY <2>6, <2>7, <2>8, <2>9 DEF Counters
<1>12. WaitsUntilAllFinish'
  <2>1. \A y \in Tasks : pc[y] = "done" => pc'[y] = "done"
    BY <1>1, <1>2, FrameSets
  <2>2. \A g \in Callers : pc'[g] \notin {"call", "enqueue"} => pc'[g] = pc[g]
    BY <1>1, <1>2, FrameSets
  <2>3. \A g : \A y \in Children(g) : y \in Tasks
    BY DEF Children
  <2>4. UNCHANGED combined
    BY <1>1
  <2>. QED
    BY <2>1, <2>2, <2>3, <2>4 DEF Inv, WaitsUntilAllFinish, Callers
<1>13. Closes'
  <2>1. \A c \in Clients : pc'[c] = pc[c]
    BY <1>1, <1>2, FrameSets
  <2>2. \A t \in Threads : pc'[t] = "exited" => pc[t] = "exited"
    BY <1>1, <1>2, FrameSets
  <2>. QED
    BY <1>1, <2>1, <2>2, FrameSets DEF Inv, Closes, Closing
<1>. QED
  BY <1>4, <1>5, <1>6, <1>8, <1>9, <1>10, <1>11, <1>12, <1>13 DEF Inv

(* ScanEnd: a client scans again, a thread of the pool executes the task. *)
LEMMA ScanEndStep ==
    ASSUME Inv, NEW f \in Frames, ScanEnd(f)
    PROVE  Inv'
<1>1. pc[f] = "scan" /\ f \in Callers /\ f \notin Threads /\ hold[f] # None
  BY Kinds DEF ScanEnd, Inv, Holds
<1>2. hold[f] \in Tasks /\ Unstarted(hold[f])
  BY <1>1 DEF Inv, TypeOK, Holds
<1>3. CASE this_thread[f] \in Threads
  <2>1. f \in Tasks
    BY <1>1, <1>3, FrameSets DEF Inv, Stack, Callers
  <2>2. /\ Execute(f, hold[f]) /\ hold' = [hold EXCEPT ![f] = None]
        /\ scan' = [scan EXCEPT ![f] = 1] /\ UNCHANGED <<jobs, progress>>
    BY <1>3 DEF ScanEnd
  <2>. QED
    BY <1>1, <1>2, <2>1, <2>2, ExecuteStep
<1>4. CASE this_thread[f] \notin Threads
  <2>1. /\ scan' = [scan EXCEPT ![f] = 1]
        /\ UNCHANGED <<pc, busy, slot, exit_request, joined, hold, caller, this_thread, issued,
                       counter, combined>>
    BY <1>4 DEF ScanEnd, jobs, stack, progress
  <2>2. \A g \in Callers : pc[g] \in {"move", "store"} => scan'[g] = scan[g]
    BY <1>1, <2>1, FrameSets DEF Inv, TypeOK
  <2>3. TypeOK'
    BY <2>1, FrameSets DEF Inv, TypeOK
  <2>4. Holds' /\ Claims' /\ SlotsFilled'
    BY <2>1, <2>2 DEF Inv, Holds, Claims, SlotsFilled, Unstarted, Executing
  <2>5. OnePlace'
    BY <2>1, <2>2 DEF Inv, OnePlace, Kept, Unstarted
  <2>6. Stack' /\ Counters' /\ WaitsUntilAllFinish' /\ Closes'
    BY <2>1 DEF Inv, Stack, Executing, Counters, Pending, Children, WaitsUntilAllFinish, Closes, Closing
  <2>. QED
    BY <2>3, <2>4, <2>5, <2>6 DEF Inv
<1>. QED
  BY <1>3, <1>4

(* ReadBusy: a filled slot of a thread that looks at it has an unstarted task. *)
LEMMA ReadBusyStep ==
    ASSUME Inv, NEW t \in Frames, ReadBusy(t)
    PROVE  Inv'
<1>1. pc[t] = "look" /\ t \in Threads
  BY Kinds DEF ReadBusy, Inv
<1>2. CASE busy[t] = 2
  <2>1. slot[t] \in Tasks /\ Unstarted(slot[t])
    BY <1>1, <1>2 DEF Inv, SlotsFilled, Unstarted
  <2>2. Execute(t, slot[t]) /\ UNCHANGED <<hold, scan>> /\ UNCHANGED <<jobs, progress>>
    BY <1>2 DEF ReadBusy, search
  <2>. QED
    BY <1>1, <1>2, <2>1, <2>2, ExecuteStep
<1>. QED
  BY <1>2, QuietStep

(* The execution of x returns to the frame under it, whose turn it is again. *)
LEMMA ReturnStep ==
    ASSUME Inv, NEW x \in Tasks, pc' = Returned(x), UNCHANGED <<jobs, search, stack, issued, combined>>,
           \/ pc[x] = "combine" /\ Parent[x] \in Direct /\ counter' = counter
           \/ pc[x] = "decrement" /\ counter' = [counter EXCEPT ![Parent[x]] = @ - 1]
    PROVE  Inv'
<1>. DEFINE f == caller[x]
            l == IF f \in Threads THEN "free" ELSE "enqueue"
<1>. pc[x] \in {"combine", "decrement"}
  OBVIOUS
<1>1. UNCHANGED <<busy, slot, exit_request, joined, hold, scan, caller, this_thread, issued, combined>>
  BY DEF jobs, search, stack
<1>2. /\ x \in issued /\ Executing(x)
      /\ f \in Threads \cup Tasks /\ pc[f] = "call"
      /\ f \in Threads => slot[f] = x /\ busy[f] = 2
      /\ f \in Tasks => f = Parent[x]
  BY DEF Inv, Stack, Executing
<1>3. /\ f # x /\ f \in Frames /\ f \notin Clients /\ (f \in Threads <=> f \notin Callers)
      /\ x \in Callers /\ x \in Frames /\ x \notin Threads /\ x \notin Clients
  BY <1>1, <1>2, FrameSets, Kinds DEF Inv
<1>4. /\ \A g \in Frames \ {f, x} : pc'[g] = pc[g]
      /\ pc'[f] = l /\ pc'[x] = "done"
  BY <1>3 DEF Inv, TypeOK, Returned
<1>5. counter' \in [Clients \cup Tasks -> Nat]
  <2>1. CASE counter' = counter
    BY <2>1 DEF Inv, TypeOK
  <2>2. CASE pc[x] = "decrement" /\ counter' = [counter EXCEPT ![Parent[x]] = @ - 1]
    <3>1. Parent[x] \in Callers \ Direct /\ x \in Pending(Parent[x])
      BY <1>2, <2>2, FrameSets DEF Inv, Counters, Pending
    <3>2. counter[Parent[x]] # 0
      BY <3>1, PendingFinite, FS_EmptySet DEF Inv, Counters
    <3>3. counter[Parent[x]] - 1 \in Nat
      BY <3>1, <3>2 DEF Inv, TypeOK, Callers
    <3>. QED
      BY <2>2, <3>3 DEF Inv, TypeOK
  <2>. QED
    BY <2>1, <2>2
<1>. HIDE DEF f
<1>6. TypeOK'
  <2>1. pc' \in [Frames -> ThreadLocations \cup ClientLocations \cup TaskLocations]
    BY DEF Inv, TypeOK, TaskLocations, ThreadLocations, Returned
  <2>2. /\ \A t \in Threads : pc'[t] \in ThreadLocations
        /\ \A c \in Clients : pc'[c] \in ClientLocations
        /\ \A y \in Tasks : pc'[y] \in TaskLocations
    BY <1>3, <1>4, FrameSets, Kinds DEF Inv, TypeOK, ThreadLocations, TaskLocations
  <2>. QED
    BY <1>1, <1>5, <2>1, <2>2 DEF Inv, TypeOK
<1>7. /\ \A y \in Tasks : pc'[y] = "new" <=> pc[y] = "new"
      /\ \A y \in Tasks \ {x} : pc'[y] = "done" <=> pc[y] = "done"
      /\ \A g \in Callers : pc'[g] \in {"scan", "move", "store"} \/ pc[g] \in {"scan", "move", "store"}
            => pc'[g] = pc[g]
  BY <1>1, <1>2, <1>3, <1>4, FrameSets
<1>8. Holds'
  BY <1>1, <1>7, FrameSets DEF Inv, TypeOK, Holds, Unstarted
<1>9. Claims'
  <2>1. \A g \in Callers : pc'[g] \in {"move", "store"} => scan[g] \in Threads /\ busy[scan[g]] = 1
    BY <1>7 DEF Inv, Claims
  <2>2. \A g, h \in Callers :
           pc'[g] \in {"move", "store"} /\ pc'[h] \in {"move", "store"} /\ scan[g] = scan[h] => g = h
    BY <1>7 DEF Inv, Claims
  <2>3. \A g \in Callers : pc'[g] = "store" =>
           /\ slot[scan[g]] \in Tasks /\ slot[scan[g]] \in issued
           /\ pc'[slot[scan[g]]] = "new" /\ Parent[slot[scan[g]]] = g
    BY <1>7 DEF Inv, Claims, Unstarted
  <2>. QED
    BY <1>1, <2>1, <2>2, <2>3 DEF Claims, Unstarted
<1>10. \A y \in Tasks : Executing(y)' <=> Executing(y) /\ y # x
  BY <1>4, <1>7 DEF Executing
<1>11. \A y \in Tasks : Executing(y) /\ y # x => caller[y] # f /\ caller[y] # x
  BY <1>1, <1>2 DEF Inv, Stack, f
<1>12. SlotsFilled'
  <2>. SUFFICES ASSUME NEW t \in Threads
                PROVE  /\ busy[t] = 2 => slot[t] \in Tasks /\ slot[t] \in issued
                       /\ busy[t] = 2 /\ pc'[t] \in {"loop", "look", "exited"} => pc'[slot[t]] = "new"
                       /\ pc'[t] = "call" => busy[t] = 2 /\ Executing(slot[t])' /\ caller[slot[t]] = t
                       /\ pc'[t] = "free" => busy[t] = 2 /\ pc'[slot[t]] = "done"
    BY <1>1 DEF SlotsFilled
  <2>1. CASE t = f
    BY <1>2, <1>4, <2>1 DEF Inv, SlotsFilled
  <2>2. CASE t # f
    <3>1. pc'[t] = pc[t]
      BY <1>3, <1>4, <2>2, FrameSets
    <3>2. pc[t] = "call" => slot[t] # x
      BY <2>2 DEF Inv, SlotsFilled, f
    <3>. QED
      BY <1>1, <1>7, <3>1, <3>2 DEF Inv, SlotsFilled, Executing
  <2>. QED
    BY <2>1, <2>2
<1>13. OnePlace'
  <2>1. \A t \in Threads : Kept(t)' <=> Kept(t)
    BY <1>1, <1>7 DEF Kept
  <2>. QED
    BY <1>1, <1>7, <2>1 DEF Inv, OnePlace, Unstarted
<1>14. Stack'
  <2>1. \A y \in Tasks : Executing(y) /\ y # x => pc'[caller[y]] = pc[caller[y]]
    BY <1>4, <1>11, FrameSets DEF Inv, Stack
  <2>. QED
    BY <1>1, <1>7, <1>10, <2>1 DEF Inv, Stack
<1>15. Counters'
  <2>1. \A g \in Callers \ {Parent[x]} : Pending(g)' = Pending(g)
    BY <1>1, <1>7, FrameSets DEF Pending
  <2>2. ASSUME Parent[x] \notin Direct
        PROVE  counter'[Parent[x]] = Cardinality(Pending(Parent[x])')
    <3>1. Pending(Parent[x])' = Pending(Parent[x]) \ {x} /\ x \in Pending(Parent[x])
      BY <1>1, <1>2, <1>4, <1>7, FrameSets, pc[x] # "done" DEF Pending
    <3>2. Cardinality(Pending(Parent[x])') = Cardinality(Pending(Parent[x])) - 1
      BY <3>1, PendingFinite, FS_RemoveElement
    <3>3. counter'[Parent[x]] = counter[Parent[x]] - 1
      BY <2>2, FrameSets DEF Inv, TypeOK, Callers
    <3>. QED
      BY <2>2, <3>2, <3>3, FrameSets DEF Inv, Counters
  <2>3. \A g \in Callers \ {Parent[x]} : counter'[g] = counter[g]
    BY DEF Inv, TypeOK, Callers
  <2>4. \A g \in Callers \ Direct : counter'[g] = Cardinality(Pending(g)')
    BY <2>1, <2>2, <2>3 DEF Inv, Counters
  <2>5. pc[x] = "decrement" => x \in combined
    BY DEF Inv, Counters
  <2>6. \A g \in Callers : pc'[g] \in {"wait", "combine", "decrement", "returned", "join", "destroyed"}
           => pc'[g] = pc[g]
    BY <1>3, <1>4, FrameSets
  <2>7. \A y \in Tasks : pc'[y] = "done" /\ Parent[y] \notin Direct => y \in combined
    BY <1>7, <2>5 DEF Inv, Counters
  <2>8. \A y \in combined : pc'[y] \in {"decrement", "done"}
    BY <1>2, <1>4, FrameSets DEF Inv, TypeOK, Counters
  <2>9. \A g \in Callers : pc'[g] \in {"wait", "combine", "decrement", "done", "returned", "join",
                                     "destroyed"}
          => Children(g) \subseteq issued
    <3>1. \A g \in Callers : pc'[g] = "done" => pc[g] \in {"combine", "decrement", "done"}
      BY <1>3, <1>4, FrameSets
    <3>. QED
      BY <2>6, <3>1 DEF Inv, Counters
  <2>10. \A y \in Tasks : pc'[y] = "decrement" => Parent[y] \notin Direct /\ y \in combined
    BY <2>6, FrameSets DEF Inv, Counters
  <2>. QED
    BY <1>1, <2>4, <2>7, <2>8, <2>9, <2>10 DEF Counters
<1>16. WaitsUntilAllFinish'
  <2>1. \A g \in Callers : pc'[g] \in {"combine", "decrement", "done", "returned", "join", "destroyed"}
           => pc[g] \in {"combine", "decrement", "done", "returned", "join", "destroyed"}
    BY <1>1, <1>3, <1>4, FrameSets
  <2>. QED
    BY <1>1, <1>4, <1>7, <2>1, FrameSets DEF Inv, WaitsUntilAllFinish, Callers
<1>17. Closes'
  BY <1>1, <1>3, <1>4, FrameSets, Kinds DEF Inv, Closes, Closing
<1>. QED
  BY <1>6, <1>8, <1>9, <1>12, <1>13, <1>14, <1>15, <1>16, <1>17 DEF Inv

(* ExecuteTask: combine, then count off; or nothing of the kind for a task that was
   enqueued without a scheduler. *)
LEMMA CombineStep ==
    ASSUME Inv, NEW x \in Frames, Combine(x)
    PROVE  Inv'
<1>1. pc[x] = "combine" /\ x \in Tasks /\ x \in Callers /\ x \notin Threads /\ x \notin Clients
  BY Kinds, FrameSets DEF Combine, Inv
<1>2. CASE Parent[x] \in Direct
  BY <1>1, <1>2, ReturnStep DEF Combine
<1>3. CASE Parent[x] \notin Direct
  <2>1. /\ UNCHANGED <<busy, slot, exit_request, joined, hold, scan, caller, this_thread, issued, counter>>
        /\ combined' = combined \cup {x}
        /\ pc' = [pc EXCEPT ![x] = "decrement"]
    BY <1>3 DEF Combine, Goto, jobs, search, stack
  <2>2. /\ \A g \in Frames \ {x} : pc'[g] = pc[g]
        /\ pc'[x] = "decrement"
        /\ \A y \in Tasks : (pc'[y] = "new" <=> pc[y] = "new") /\ (pc'[y] = "done" <=> pc[y] = "done")
    BY <1>1, <2>1, FrameSets DEF Inv, TypeOK
  <2>3. TypeOK'
    BY <1>1, <2>1, FrameSets, Kinds DEF Inv, TypeOK, ThreadLocations, ClientLocations, TaskLocations
  <2>4. Holds' /\ Claims'
    BY <1>1, <2>1, <2>2, FrameSets DEF Inv, TypeOK, Holds, Claims, Unstarted
  <2>5. SlotsFilled'
    BY <1>1, <2>1, <2>2, FrameSets DEF Inv, TypeOK, SlotsFilled, Executing
  <2>6. OnePlace'
    <3>1. \A t \in Threads : Kept(t)' <=> Kept(t)
      BY <1>1, <2>1, <2>2, FrameSets DEF Kept
    <3>. QED
      BY <2>1, <2>2, <3>1, FrameSets DEF Inv, OnePlace, Unstarted
  <2>7. Stack'
    <3>1. \A y \in Tasks : Executing(y)' <=> Executing(y)
      BY <2>2 DEF Executing
    <3>2. \A y \in Tasks : Executing(y) => caller[y] # x /\ caller[y] \in Frames
      BY <1>1, FrameSets DEF Inv, Stack
    <3>. QED
      BY <1>1, <2>1, <2>2, <3>1, <3>2, FrameSets DEF Inv, Stack
  <2>8. Counters'
    <3>1. \A g : Pending(g)' = Pending(g)
      BY <2>1, <2>2 DEF Pending, Children
    <3>. QED
      BY <1>1, <1>3, <2>1, <2>2, <3>1, FrameSets DEF Inv, TypeOK, Counters
  <2>9. WaitsUntilAllFinish'
    BY <1>1, <2>1, <2>2, FrameSets DEF Inv, WaitsUntilAllFinish, Callers
  <2>10. Closes'
    BY <1>1, <2>1, <2>2, FrameSets DEF Inv, Closes, Closing
  <2>. QED
    BY <2>3, <2>4, <2>5, <2>6, <2>7, <2>8, <2>9, <2>10 DEF Inv
<1>. QED
  BY <1>2, <1>3

LEMMA DecrementStep ==
    ASSUME Inv, NEW x \in Frames, Decrement(x)
    PROVE  Inv'
<1>1. pc[x] = "decrement" /\ x \in Tasks
  BY Kinds DEF Decrement, Inv
<1>. QED
  BY <1>1, ReturnStep DEF Decrement

(* The destructor of the pool moves its owner only. *)
LEMMA DestroyStep ==
    ASSUME Inv, RequestExit \/ Join
    PROVE  Inv'
<1>1. PICK l \in {"join", "destroyed"} :
         /\ pc' = [pc EXCEPT ![Owner] = l]
         /\ \A c \in Clients : pc[c] \in {"returned", "join", "destroyed"}
         /\ exit_request' \in [Threads -> BOOLEAN]
         /\ joined' \in 0 .. Size
         /\ joined' < Size \/ l = "destroyed"
  <2>1. CASE RequestExit
    BY <2>1, FrameSets DEF RequestExit, Goto, Inv, TypeOK, Closes, Closing
  <2>2. CASE Join
    <3>1. joined < Size /\ joined \in 0 .. Size /\ joined + 1 \in 0 .. Size
      BY <2>2, FrameSets DEF Join, Inv, Closes, TypeOK
    <3>2. pc' = [pc EXCEPT ![Owner] = IF joined + 1 = Size THEN "destroyed" ELSE "join"]
          /\ joined' = joined + 1 /\ exit_request' = exit_request
          /\ \A c \in Clients : pc[c] \in {"returned", "join", "destroyed"}
      BY <2>2 DEF Join, Goto, Inv, Closes, Closing
    <3>3. joined + 1 < Size \/ joined + 1 = Size
      BY <3>1, FrameSets
    <3>. QED
      BY <3>1, <3>2, <3>3 DEF Inv, TypeOK
  <2>. QED
    BY <2>1, <2>2
<1>2. UNCHANGED <<busy, slot, hold, scan, caller, this_thread, issued, counter, combined>>
  BY DEF RequestExit, Join, search, stack, progress
<1>3. /\ \A g \in Frames \ {Owner} : pc'[g] = pc[g]
      /\ pc'[Owner] = l /\ pc[Owner] \in {"returned", "join", "destroyed"}
      /\ Owner \in Callers /\ Owner \notin Threads /\ Owner \notin Tasks
  BY <1>1, FrameSets, Kinds DEF Inv, TypeOK
<1>4. TypeOK'
  BY <1>1, <1>2, <1>3, FrameSets DEF Inv, TypeOK, ClientLocations
<1>5. Holds' /\ Claims'
  BY <1>2, <1>3, FrameSets DEF Inv, TypeOK, Holds, Claims, Unstarted
<1>6. SlotsFilled'
  BY <1>2, <1>3, FrameSets DEF Inv, TypeOK, SlotsFilled, Executing
<1>7. OnePlace'
  <2>1. \A t \in Threads : Kept(t)' <=> Kept(t)
    BY <1>2, <1>3, FrameSets DEF Kept
  <2>. QED
    BY <1>2, <1>3, <2>1, FrameSets DEF Inv, OnePlace, Unstarted
<1>8. Stack'
  BY <1>2, <1>3, FrameSets DEF Inv, Stack, Executing
<1>9. Counters'
  <2>1. \A g : Pending(g)' = Pending(g)
    BY <1>2, <1>3, FrameSets DEF Pending, Children
  <2>. QED
    BY <1>2, <1>3, <2>1, FrameSets DEF Inv, TypeOK, Counters
<1>10. WaitsUntilAllFinish'
  BY <1>2, <1>3, FrameSets DEF Inv, WaitsUntilAllFinish, Callers
<1>11. Closes'
  BY <1>1, <1>3, FrameSets DEF Closes, Closing
<1>. QED
  BY <1>4, <1>5, <1>6, <1>7, <1>8, <1>9, <1>10, <1>11 DEF Inv

-----------------------------------------------------------------------------
(* Every step preserves the invariant. *)
LEMMA NextInv ==
    ASSUME Inv, [Next]_vars
    PROVE  Inv'
<1>1. CASE UNCHANGED vars
  <2>. USE <1>1 DEF vars, jobs, search, stack, progress, Inv
  <2>1. TypeOK' /\ Holds' /\ Claims' /\ SlotsFilled' /\ Stack'
    BY DEF TypeOK, Holds, Claims, SlotsFilled, Stack, Unstarted, Executing
  <2>2. OnePlace'
    BY DEF OnePlace, Kept, Unstarted
  <2>3. Counters' /\ WaitsUntilAllFinish' /\ Closes'
    BY DEF Counters, Pending, Children, WaitsUntilAllFinish, Closes, Closing
  <2>. QED
    BY <2>1, <2>2, <2>3
<1>2. CASE Next
  BY <1>2, EnqueueStep, QuietStep, SetTaskStep, ScanEndStep, MoveTaskStep, StoreBusyStep, ReadBusyStep,
     StoreFreeStep, WaitStep, CombineStep, DecrementStep, DestroyStep DEF Next, FrameStep
<1>. QED
  BY <1>1, <1>2

(* The invariant holds in every state. *)
LEMMA Invariance == Spec => []Inv
<1>1. Inv /\ [Next]_vars => Inv'
  BY NextInv
<1>. QED
  BY InitInv, <1>1, PTL DEF Spec

(* The variables of the specification have the values their declaration allows. *)
THEOREM TypeCorrect == Spec => []TypeOK
<1>1. Inv => TypeOK
  BY DEF Inv
<1>. QED
  BY Invariance, <1>1, PTL

(* WaitForCompletion returns when all tasks of the scheduler are done and combined:
   none of them uses the scheduler afterwards, when its owner may destroy it. *)
THEOREM SchedulerOutlivesTasks == Spec => []WaitsUntilAllFinish
<1>1. Inv => WaitsUntilAllFinish
  BY DEF Inv
<1>. QED
  BY Invariance, <1>1, PTL

(* The task that a thread of the pool executes stays in the slot of the thread and
   is not overwritten by another SetTask. *)
THEOREM ExecutedTaskSafe == Spec => []ExecutedTaskKept
<1>1. Inv => ExecutedTaskKept
  BY DEF Inv, Stack, ExecutedTaskKept
<1>. QED
  BY Invariance, <1>1, PTL

(* An enqueued task is in exactly one place until it starts: it is not lost and not
   executed twice. *)
THEOREM TasksNeverLost == Spec => []TasksConserved
<1>1. Inv => TasksConserved
  <2>. SUFFICES ASSUME Inv, NEW x \in Tasks
                PROVE  Cardinality(BeingMoved(x)) + Cardinality(SlotsWith(x))
                           = IF pc[x] = "new" /\ x \in issued \ Dropped THEN 1 ELSE 0
    BY DEF TasksConserved
  <2>1. \A f \in BeingMoved(x) : f = Parent[x] /\ Unstarted(x)
    BY FrameSets DEF BeingMoved, Inv, Holds, Claims, Callers
  <2>2. \A t \in SlotsWith(x) : Kept(t) /\ slot[t] = x /\ Unstarted(x)
    BY DEF SlotsWith, Inv, SlotsFilled, Kept, Unstarted
  <2>3. BeingMoved(x) # {} => SlotsWith(x) = {} /\ x \notin Dropped
    <3>. SUFFICES ASSUME NEW f \in BeingMoved(x), NEW t \in Threads, busy[t] = 2, slot[t] = x PROVE FALSE
      BY DEF SlotsWith, Dropped
    <3>1. f \in Callers /\ (hold[f] = x \/ (pc[f] = "store" /\ slot[scan[f]] = x))
      BY DEF BeingMoved, Callers
    <3>2. CASE hold[f] = x
      BY <3>1, <3>2, FrameSets DEF Inv, OnePlace, Kept
    <3>3. CASE pc[f] = "store" /\ slot[scan[f]] = x
      BY <3>1, <3>3 DEF Inv, OnePlace, Kept, Claims
    <3>. QED
      BY <3>1, <3>2, <3>3
  <2>4. \A t, u \in SlotsWith(x) : t = u
    BY DEF SlotsWith, Inv, OnePlace, Kept
  <2>5. SlotsWith(x) # {} => x \notin Dropped
    BY DEF SlotsWith, Dropped, Inv, OnePlace, Kept
  <2>6. Unstarted(x) /\ x \notin Dropped => BeingMoved(x) # {} \/ SlotsWith(x) # {}
    <3>. SUFFICES ASSUME Unstarted(x), x \notin Dropped PROVE BeingMoved(x) # {} \/ SlotsWith(x) # {}
      OBVIOUS
    <3>1. CASE hold[Parent[x]] = x
      BY <3>1, FrameSets DEF BeingMoved, Callers
    <3>2. ASSUME NEW t \in Threads, Kept(t), slot[t] = x
          PROVE  BeingMoved(x) # {} \/ SlotsWith(x) # {}
      <4>1. CASE busy[t] = 2
        <5>1. pc[t] \in {"loop", "look"}
          BY <3>2, <4>1 DEF Inv, TypeOK, SlotsFilled, Unstarted, Executing, Dropped, ThreadLocations
        <5>. QED
          BY <3>2, <4>1, <5>1 DEF SlotsWith
      <4>2. CASE \E f \in Callers : pc[f] = "store" /\ scan[f] = t
        BY <3>2, <4>2 DEF BeingMoved, Callers
      <4>. QED
        BY <3>2, <4>1, <4>2 DEF Kept
    <3>. QED
      BY <3>1, <3>2 DEF Inv, OnePlace
  <2>7. BeingMoved(x) = {} \/ BeingMoved(x) = {Parent[x]}
    BY <2>1
  <2>8. SlotsWith(x) = {} \/ \E t : SlotsWith(x) = {t}
    BY <2>4
  <2>9. /\ \A S : S = {} => Cardinality(S) = 0
        /\ \A S : (\E t : S = {t}) => Cardinality(S) = 1
    BY FS_EmptySet, FS_Singleton
  <2>10. CASE BeingMoved(x) # {}
    <3>1. Cardinality(BeingMoved(x)) = 1 /\ Cardinality(SlotsWith(x)) = 0
      BY <2>3, <2>7, <2>9, <2>10
    <3>2. pc[x] = "new" /\ x \in issued \ Dropped
      BY <2>1, <2>3, <2>10 DEF Unstarted
    <3>. QED
      BY <3>1, <3>2
  <2>11. CASE SlotsWith(x) # {}
    <3>1. Cardinality(BeingMoved(x)) = 0 /\ Cardinality(SlotsWith(x)) = 1
      BY <2>3, <2>8, <2>9, <2>11
    <3>2. pc[x] = "new" /\ x \in issued \ Dropped
      BY <2>2, <2>5, <2>11 DEF Unstarted
    <3>. QED
      BY <3>1, <3>2
  <2>12. CASE BeingMoved(x) = {} /\ SlotsWith(x) = {}
    <3>1. Cardinality(BeingMoved(x)) = 0 /\ Cardinality(SlotsWith(x)) = 0
      BY <2>9, <2>12
    <3>2. ~(pc[x] = "new" /\ x \in issued \ Dropped)
      BY <2>6, <2>12 DEF Unstarted
    <3>. QED
      BY <3>1, <3>2
  <2>. QED
    BY <2>10, <2>11, <2>12
<1>. QED
  BY Invariance, <1>1, PTL

-----------------------------------------------------------------------------
(* The refinement of Pool.  What a step does to the abstract state is what it does
   to the outcomes; the lemmas say when an outcome stays and what is left to do when
   the destructor runs. *)
Returns == {"returned", "join", "destroyed"}

(* Whoever has enqueued a task has been started itself. *)
ParentsStarted == \A x \in issued : pc[Parent[x]] # "new"

LEMMA ParentsStartedStep ==
    ASSUME Inv, ParentsStarted, [Next]_vars
    PROVE  ParentsStarted'
<1>1. CASE UNCHANGED vars
  BY <1>1 DEF vars, progress, ParentsStarted
<1>2. ASSUME NEW f \in Frames, NEW x \in Tasks, Enqueue(f, x)
      PROVE  ParentsStarted'
  <2>1. Parent[x] = f /\ issued' = issued \cup {x} /\ pc' = [pc EXCEPT ![f] = "scan"]
    BY <1>2, FrameSets DEF Enqueue, Goto
  <2>. QED
    BY <2>1 DEF Inv, TypeOK, ParentsStarted
<1>3. ASSUME issued' = issued, \A g \in Callers : pc[g] # "new" => pc'[g] # "new"
      PROVE  ParentsStarted'
  BY <1>3, FrameSets DEF Inv, TypeOK, ParentsStarted
<1>4. ASSUME NEW f \in Frames,
             \/ AllEnqueued(f) \/ SetTask(f) \/ MoveTask(f) \/ StoreBusy(f) \/ ReadExitRequest(f)
             \/ StoreFree(f) \/ WaitForCompletion(f)
      PROVE  ParentsStarted'
  <2>1. issued' = issued
    BY <1>4 DEF AllEnqueued, SetTask, MoveTask, StoreBusy, ReadExitRequest, StoreFree,
       WaitForCompletion, progress
  <2>2. \E l : l # "new" /\ (pc' = [pc EXCEPT ![f] = l] \/ pc' = pc)
    BY <1>4 DEF AllEnqueued, SetTask, MoveTask, StoreBusy, ReadExitRequest, StoreFree,
       WaitForCompletion, Goto
  <2>. QED
    BY <1>3, <2>1, <2>2, FrameSets DEF Inv, TypeOK
<1>5. ASSUME NEW f \in Frames, ScanEnd(f) \/ ReadBusy(f) \/ Combine(f) \/ Decrement(f)
      PROVE  ParentsStarted'
  <2>1. issued' = issued
    BY <1>5 DEF ScanEnd, ReadBusy, Combine, Decrement, progress
  <2>2. \A g \in Callers : pc[g] # "new" => pc'[g] # "new"
    <3>1. ASSUME NEW x, Execute(f, x) PROVE \A g \in Callers : pc[g] # "new" => pc'[g] # "new"
      BY <3>1, FrameSets DEF Execute, Inv, TypeOK
    <3>2. CASE ScanEnd(f) \/ ReadBusy(f)
      BY <3>1, <3>2, FrameSets DEF ScanEnd, ReadBusy, Goto, Inv, TypeOK
    <3>3. ASSUME pc' = Returned(f) PROVE \A g \in Callers : pc[g] # "new" => pc'[g] # "new"
      BY <3>3, FrameSets DEF Returned, Inv, TypeOK
    <3>4. CASE Combine(f) \/ Decrement(f)
      BY <3>3, <3>4, FrameSets DEF Combine, Decrement, Goto, Inv, TypeOK
    <3>. QED
      BY <1>5, <3>2, <3>4
  <2>. QED
    BY <1>3, <2>1, <2>2
<1>6. CASE RequestExit \/ Join
  <2>1. issued' = issued
    BY <1>6 DEF RequestExit, Join, progress
  <2>2. \E l : l # "new" /\ pc' = [pc EXCEPT ![Owner] = l]
    BY <1>6 DEF RequestExit, Join, Goto
  <2>. QED
    BY <1>3, <2>1, <2>2, FrameSets DEF Inv, TypeOK
<1>. QED
  BY <1>1, <1>2, <1>4, <1>5, <1>6 DEF Next, FrameStep

(* Once the destructor runs, only tasks of direct clients can be unfinished: every
   other task has an ancestor that would still be waiting for it. *)
LEMMA ClosingLeavesDirect ==
    ASSUME Inv, ParentsStarted, Closing, NEW x \in issued, pc[x] # "done"
    PROVE  Parent[x] \in Direct
<1>. DEFINE Live == {y \in Tasks : y \in issued /\ pc[y] # "done" /\ Parent[y] \notin Direct}
<1>1. ASSUME NEW y \in Live
      PROVE  Parent[y] \in Live
  <2>1. Parent[y] \in Callers \ Direct /\ y \in Tasks /\ pc[y] # "done" /\ y \in Children(Parent[y])
    BY FrameSets
  <2>2. pc[Parent[y]] \notin Returns \cup {"combine", "decrement", "done"}
    BY <2>1 DEF Inv, WaitsUntilAllFinish, Callers, Returns
  <2>3. Parent[y] \in Tasks
    BY <2>1, <2>2 DEF Inv, Closes, Returns, Callers
  <2>4. Parent[y] \in issued
    BY <2>3 DEF Inv, Stack, ParentsStarted
  <2>5. Parent[Parent[y]] \notin Direct
    BY <2>1, <2>3, DirectTasksAreLeaves
  <2>. QED
    BY <2>2, <2>3, <2>4, <2>5
<1>2. Live \in SUBSET Tasks
  OBVIOUS
<1>. HIDE DEF Live
<1>3. Live = {}
  BY <1>1, <1>2, ParentWellFounded
<1>. USE DEF Live
<1>. QED
  BY <1>3 DEF Inv, TypeOK

(* An outcome stays if nothing changes that it looks at. *)
LEMMA OutcomeStays ==
    ASSUME NEW y \in Callers,
           y \in Clients => (pc'[y] \in Returns <=> pc[y] \in Returns),
           y \notin Clients =>
              /\ y \in issued' <=> y \in issued
              /\ y \in Dropped' <=> y \in Dropped
              /\ y \in combined' \/ pc'[y] = "done" <=> y \in combined \/ pc[y] = "done"
              /\ pc'[y] = "new" <=> pc[y] = "new"
    PROVE  Outcome(y)' = Outcome(y)
<1>1. CASE y \in Clients
  BY <1>1 DEF Outcome, Returns
<1>2. CASE y \notin Clients
  BY <1>2 DEF Outcome
<1>. QED
  BY <1>1, <1>2

(* What the outcome of a caller is. *)
LEMMA OutcomeIs ==
    ASSUME Inv, NEW y \in Callers
    PROVE  /\ y \in Clients => Outcome(y) = IF pc[y] \in Returns THEN "done" ELSE "running"
           /\ y \in Tasks /\ y \notin issued => Outcome(y) = "new"
           /\ y \in Tasks /\ Unstarted(y) /\ y \in Dropped => Outcome(y) = "dropped"
           /\ y \in Tasks /\ Unstarted(y) /\ y \notin Dropped => Outcome(y) = "queued"
           /\ y \in Tasks /\ Executing(y) /\ y \notin combined => Outcome(y) = "running"
           /\ y \in Tasks /\ (y \in combined \/ pc[y] = "done") => Outcome(y) = "done"
<1>1. y \in Tasks => y \notin Clients
  BY AtomicPoolAssumption
<1>2. y \in combined => pc[y] \in {"decrement", "done"}
  BY DEF Inv, Counters
<1>3. y \in Tasks => (pc[y] # "new" => y \in issued)
  BY DEF Inv, Stack
<1>4. y \in Dropped => pc[y] = "new"
  BY DEF Dropped
<1>5. CASE y \in Clients
  BY <1>1, <1>5 DEF Outcome, Returns
<1>6. CASE y \in Tasks
  <2>1. y \notin issued => Outcome(y) = "new"
    BY <1>1, <1>6 DEF Outcome
  <2>2. Unstarted(y) /\ y \in Dropped => Outcome(y) = "dropped"
    BY <1>1, <1>6 DEF Outcome, Unstarted
  <2>3. Unstarted(y) /\ y \notin Dropped => Outcome(y) = "queued"
    BY <1>1, <1>2, <1>6 DEF Outcome, Unstarted
  <2>4. Executing(y) /\ y \notin combined => Outcome(y) = "running"
    BY <1>1, <1>3, <1>4, <1>6 DEF Outcome, Executing
  <2>5. y \in combined \/ pc[y] = "done" => Outcome(y) = "done"
    BY <1>1, <1>2, <1>3, <1>4, <1>6 DEF Outcome
  <2>. QED
    BY <1>1, <1>6, <2>1, <2>2, <2>3, <2>4, <2>5
<1>. QED
  BY <1>5, <1>6 DEF Callers

(* One outcome changes. *)
LEMMA OutcomeChanges ==
    ASSUME NEW y \in Callers, \A g \in Callers \ {y} : Outcome(g)' = Outcome(g)
    PROVE  Outcomes' = [Outcomes EXCEPT ![y] = Outcome(y)']
BY DEF Outcomes, Callers

(* All stay. *)
LEMMA OutcomesStay ==
    ASSUME \A g \in Callers : Outcome(g)' = Outcome(g), Closing' <=> Closing
    PROVE  UNCHANGED <<Outcomes, Closing>>
BY DEF Outcomes, Callers, Closing

(* A task is dropped at the exit of a thread only, so the others keep what they have
   as long as nobody touches the slot of a thread that has exited. *)
LEMMA DroppedStays ==
    ASSUME Inv,
           \A y \in Tasks : pc'[y] = "new" <=> pc[y] = "new",
           \A t \in Threads : pc'[t] = "exited" <=> pc[t] = "exited",
           \A t \in Threads : pc[t] = "exited" =>
              /\ busy'[t] = 2 <=> busy[t] = 2
              /\ busy[t] = 2 => slot'[t] = slot[t]
    PROVE  Dropped' = Dropped
BY DEF Dropped

-----------------------------------------------------------------------------
(* Enqueue implements the abstract one. *)
LEMMA EnqueueRefines ==
    ASSUME Inv, Inv', NEW f \in Frames, NEW x \in Tasks, Enqueue(f, x)
    PROVE  Abstract!Enqueue(x)
<1>1. /\ f \in Callers /\ f \notin Threads /\ x # f
      /\ pc[f] = "enqueue" /\ x \notin issued /\ Parent[x] = f
      /\ pc' = [pc EXCEPT ![f] = "scan"] /\ issued' = issued \cup {x}
      /\ UNCHANGED <<busy, slot, combined>>
  BY Kinds, FrameSets DEF Enqueue, Goto, Inv, Stack, jobs
<1>2. \A g \in Frames \ {f} : pc'[g] = pc[g]
  BY <1>1 DEF Inv, TypeOK
<1>3. pc'[f] = "scan" /\ pc[x] = "new" /\ pc'[x] = "new"
  BY <1>1, <1>2, FrameSets DEF Inv, Stack, TypeOK
<1>4. Dropped' = Dropped
  BY <1>1, <1>2, <1>3, FrameSets, DroppedStays
<1>5. ASSUME NEW g \in Callers \ {x} PROVE Outcome(g)' = Outcome(g)
  BY <1>1, <1>2, <1>3, <1>4, FrameSets, OutcomeStays DEF Returns
<1>6. x \notin Dropped
  BY <1>1 DEF Dropped, Inv, SlotsFilled
<1>7. Outcome(x) = "new" /\ Outcome(f) = "running"
  <2>1. f \in Tasks => Executing(f) /\ f \notin combined
    BY <1>1 DEF Executing, Inv, Counters
  <2>. QED
    BY <1>1, <2>1, FrameSets, OutcomeIs DEF Callers, Returns
<1>8. Outcome(x)' = "queued"
  <2>1. x \notin Clients /\ x \notin combined
    BY <1>3, FrameSets, AtomicPoolAssumption DEF Inv, Counters
  <2>. QED
    BY <1>1, <1>3, <1>4, <1>6, <2>1 DEF Outcome
<1>9. Closing' <=> Closing
  BY <1>1, <1>2, <1>3, FrameSets DEF Closing
<1>10. Outcomes' = [Outcomes EXCEPT ![x] = "queued"]
  BY <1>5, <1>8, FrameSets, OutcomeChanges
<1>11. Outcomes[x] = "new" /\ Outcomes[Parent[x]] = "running"
  BY <1>1, <1>7, FrameSets DEF Outcomes, Callers
<1>. QED
  BY <1>9, <1>10, <1>11 DEF Abstract!Enqueue, Closing

(* The steps that only move a frame on its way change no outcome. *)
LEMMA InnerRefines ==
    ASSUME Inv, Inv', ParentsStarted, NEW f \in Frames,
           \/ AllEnqueued(f) /\ f \notin Direct
           \/ SetTask(f) \/ MoveTask(f) \/ StoreBusy(f) \/ StoreFree(f)
           \/ ScanEnd(f) /\ this_thread[f] \notin Threads
           \/ ReadExitRequest(f) /\ ~(exit_request[f] /\ busy[f] = 2)
           \/ ReadBusy(f) /\ busy[f] # 2
           \/ WaitForCompletion(f) /\ f \notin Clients
    PROVE  UNCHANGED <<Outcomes, Closing>>
<1>1. UNCHANGED <<issued, combined>>
  BY DEF AllEnqueued, SetTask, MoveTask, StoreBusy, StoreFree, ScanEnd, ReadExitRequest, ReadBusy,
     WaitForCompletion, progress
<1>. DEFINE Moved(l) == /\ l \notin Returns \cup {"new", "done"}
                        /\ \/ pc' = pc
                           \/ pc' = [pc EXCEPT ![f] = l] /\ pc[f] \notin Returns \cup {"new", "done"}
            Moves == \E l : Moved(l)
<1>2. Moves
  <2>1. CASE AllEnqueued(f) /\ f \notin Direct
    BY <2>1 DEF AllEnqueued, Goto, Returns
  <2>2. CASE SetTask(f) \/ MoveTask(f) \/ StoreBusy(f) \/ StoreFree(f)
    BY <2>2 DEF SetTask, MoveTask, StoreBusy, StoreFree, Goto, Returns
  <2>3. CASE ScanEnd(f) /\ this_thread[f] \notin Threads
    BY <2>3 DEF ScanEnd, Returns
  <2>4. CASE ReadExitRequest(f) \/ (ReadBusy(f) /\ busy[f] # 2)
    BY <2>4 DEF ReadExitRequest, ReadBusy, Goto, Returns
  <2>5. CASE WaitForCompletion(f) /\ f \notin Clients
    BY <2>5 DEF WaitForCompletion, Goto, Returns
  <2>. HIDE DEF Moves
  <2>. QED
    BY <2>1, <2>2, <2>3, <2>4, <2>5
<1>3. \A g \in Callers : /\ pc'[g] \in Returns <=> pc[g] \in Returns
                         /\ pc'[g] = "new" <=> pc[g] = "new"
                         /\ pc'[g] = "done" <=> pc[g] = "done"
  BY <1>2, FrameSets DEF Inv, TypeOK
<1>4. Closing' <=> Closing
  BY <1>2, FrameSets DEF Inv, TypeOK, Closing, Returns
<1>5. Dropped' = Dropped
  <2>1. CASE MoveTask(f)
    <3>1. /\ scan[f] \in Threads /\ busy[scan[f]] = 1 /\ f \notin Threads
          /\ slot' = [slot EXCEPT ![scan[f]] = hold[f]] /\ busy' = busy
          /\ pc' = [pc EXCEPT ![f] = "store"]
      BY <2>1, Kinds DEF MoveTask, Goto, Inv, Claims
    <3>. QED
      BY <1>3, <3>1, FrameSets, DroppedStays DEF Inv, TypeOK
  <2>2. CASE StoreBusy(f)
    <3>1. /\ scan[f] \in Threads /\ f \in Callers /\ f \notin Threads /\ pc[f] = "store"
          /\ slot[scan[f]] \in Tasks /\ Unstarted(slot[scan[f]]) /\ Parent[slot[scan[f]]] = f
          /\ busy' = [busy EXCEPT ![scan[f]] = 2] /\ slot' = slot
          /\ pc' = [pc EXCEPT ![f] = "enqueue"]
      BY <2>2, Kinds DEF StoreBusy, Goto, Inv, Claims
    <3>2. pc[scan[f]] # "exited"
      <4>. SUFFICES ASSUME pc[scan[f]] = "exited" PROVE FALSE
        OBVIOUS
      <4>1. Closing
        BY <3>1 DEF Inv, Closes
      <4>2. f \in Direct
        BY <3>1, <4>1, ClosingLeavesDirect DEF Unstarted
      <4>. QED
        BY <3>1, <4>1, <4>2, AtomicPoolAssumption DEF Inv, Closes
    <3>. QED
      BY <1>3, <3>1, <3>2, FrameSets, DroppedStays DEF Inv, TypeOK
  <2>3. CASE StoreFree(f)
    <3>1. f \in Threads /\ f \notin Callers /\ pc[f] = "free" /\ busy' = [busy EXCEPT ![f] = 0]
          /\ slot' = slot /\ pc' = [pc EXCEPT ![f] = "loop"]
      BY <2>3, Kinds DEF StoreFree, Goto, Inv
    <3>. QED
      BY <1>3, <3>1, FrameSets, DroppedStays DEF Inv, TypeOK
  <2>4. CASE SetTask(f)
    <3>1. /\ scan[f] \in Threads /\ f \notin Threads /\ slot' = slot
          /\ pc' = pc \/ pc' = [pc EXCEPT ![f] = "move"]
          /\ busy' = busy \/ (busy' = [busy EXCEPT ![scan[f]] = 1] /\ busy[scan[f]] = 0)
      BY <2>4, Kinds DEF SetTask, Goto, Inv, TypeOK, Threads
    <3>. QED
      BY <1>3, <3>1, FrameSets, DroppedStays DEF Inv, TypeOK
  <2>5. CASE ReadExitRequest(f)
    <3>1. /\ f \in Threads /\ f \notin Callers /\ slot' = slot /\ busy' = busy /\ pc[f] = "loop"
          /\ pc' = [pc EXCEPT ![f] = IF exit_request[f] THEN "exited" ELSE "look"]
      BY <2>5, Kinds DEF ReadExitRequest, Goto, Inv, jobs
    <3>2. CASE exit_request[f]
      <4>1. busy[f] # 2
        BY <2>5, <3>1, <3>2 DEF AllEnqueued, SetTask, MoveTask, StoreBusy, StoreFree, ScanEnd, ReadBusy,
           WaitForCompletion
      <4>2. \A t \in Threads : busy[t] = 2 => pc'[t] = pc[t]
        BY <3>1, <4>1, FrameSets DEF Inv, TypeOK
      <4>. QED
        BY <1>3, <3>1, <4>2, FrameSets DEF Dropped
    <3>3. CASE ~exit_request[f]
      BY <1>3, <3>1, <3>3, FrameSets, DroppedStays DEF Inv, TypeOK
    <3>. QED
      BY <3>2, <3>3
  <2>6. CASE \/ AllEnqueued(f) /\ f \notin Direct
             \/ ScanEnd(f) /\ this_thread[f] \notin Threads
             \/ ReadBusy(f) /\ busy[f] # 2
             \/ WaitForCompletion(f) /\ f \notin Clients
    <3>1. busy' = busy /\ slot' = slot
      BY <2>6 DEF AllEnqueued, ScanEnd, ReadBusy, WaitForCompletion, jobs
    <3>2. \E l : l # "exited" /\ (pc' = pc \/ (pc' = [pc EXCEPT ![f] = l] /\ pc[f] # "exited"))
      BY <2>6 DEF AllEnqueued, ScanEnd, ReadBusy, WaitForCompletion, Goto
    <3>3. \A t \in Threads : pc'[t] = "exited" <=> pc[t] = "exited"
      BY <3>2, FrameSets DEF Inv, TypeOK
    <3>. QED
      BY <1>3, <3>1, <3>3, FrameSets, DroppedStays
  <2>. QED
    BY <2>1, <2>2, <2>3, <2>4, <2>5, <2>6
<1>6. ASSUME NEW g \in Callers PROVE Outcome(g)' = Outcome(g)
  BY <1>1, <1>3, <1>5, OutcomeStays
<1>. QED
  BY <1>4, <1>6, OutcomesStay

(* A client that has nothing to wait for returns, a client that waits returns when
   its tasks are done, and a task finishes when it gives its result away. *)
LEMMA FinishRefines ==
    ASSUME Inv, Inv', NEW f \in Callers,
           Outcome(f) = "running", Outcome(f)' = "done",
           \A g \in Callers \ {f} : Outcome(g)' = Outcome(g),
           Closing' <=> Closing,
           Children(f) \subseteq issued,
           f \in Direct \/ \A x \in Children(f) : pc[x] = "done" /\ x \in combined
    PROVE  Abstract!Finish(f)
<1>1. Outcomes' = [Outcomes EXCEPT ![f] = "done"] /\ Outcomes[f] = "running"
  BY OutcomeChanges DEF Outcomes, Callers
<1>2. \A x \in Children(f) : x \in Callers /\ Outcomes[x] = Outcome(x)
  BY FrameSets DEF Outcomes, Callers
<1>3. \A x \in Children(f) : x \notin Clients /\ x \in issued
  BY FrameSets, AtomicPoolAssumption
<1>4. \A x \in Children(f) : Outcomes[x] # "new"
  BY <1>2, <1>3 DEF Outcome
<1>5. f \in Direct \/ \A x \in Children(f) : Outcomes[x] = "done"
  BY <1>2, FrameSets, OutcomeIs
<1>6. Abstract!Children(f) = Children(f)
  BY DEF Abstract!Children, Children
<1>. QED
  BY <1>1, <1>4, <1>5, <1>6 DEF Abstract!Finish, Closing

LEMMA ClientReturns ==
    ASSUME Inv, Inv', NEW f \in Frames,
           (AllEnqueued(f) /\ f \in Direct) \/ (WaitForCompletion(f) /\ f \in Clients)
    PROVE  Abstract!Finish(f)
<1>1. /\ f \in Clients /\ f \in Callers /\ f \notin Threads /\ pc[f] \notin Returns
      /\ pc' = [pc EXCEPT ![f] = "returned"]
      /\ UNCHANGED <<busy, slot, issued, combined>>
  BY AtomicPoolAssumption, FrameSets, Kinds
     DEF AllEnqueued, WaitForCompletion, Goto, jobs, progress, Inv, Returns
<1>2. /\ \A g \in Frames \ {f} : pc'[g] = pc[g]
      /\ pc'[f] = "returned" /\ pc'[f] \in Returns
  BY <1>1 DEF Inv, TypeOK, Returns
<1>3. Dropped' = Dropped
  BY <1>1, <1>2, FrameSets, Kinds, DroppedStays DEF Inv
<1>4. ASSUME NEW g \in Callers \ {f} PROVE Outcome(g)' = Outcome(g)
  BY <1>1, <1>2, <1>3, FrameSets, OutcomeStays
<1>5. Outcome(f) = "running" /\ Outcome(f)' = "done"
  BY <1>1, <1>2 DEF Outcome, Returns
<1>6. Closing' <=> Closing
  BY <1>1, <1>2, FrameSets DEF Closing, Returns
<1>7. Children(f) \subseteq issued /\ (f \in Direct \/ \A x \in Children(f) : pc[x] = "done" /\ x \in combined)
  <2>1. CASE AllEnqueued(f) /\ f \in Direct
    BY <2>1 DEF AllEnqueued
  <2>2. CASE WaitForCompletion(f) /\ f \notin Direct
    <3>1. \A x \in Children(f) : pc'[x] = "done" /\ x \in combined'
      BY <1>1, <1>2, <2>2 DEF Inv, WaitsUntilAllFinish, Callers
    <3>2. Children(f) \subseteq issued
      BY <1>1, <2>2 DEF WaitForCompletion, Inv, Counters
    <3>3. \A x \in Children(f) : x # f /\ x \in Frames
      BY <1>1, FrameSets, AtomicPoolAssumption
    <3>. QED
      BY <1>1, <1>2, <3>1, <3>2, <3>3
  <2>3. CASE WaitForCompletion(f) /\ f \in Direct
    BY <1>1, <2>3 DEF WaitForCompletion, Inv, Counters
  <2>. QED
    BY <2>1, <2>2, <2>3
<1>. QED
  BY <1>1, <1>4, <1>5, <1>6, <1>7, FinishRefines

LEMMA TaskFinishes ==
    ASSUME Inv, Inv', NEW x \in Frames, Combine(x)
    PROVE  Abstract!Finish(x)
<1>1. pc[x] = "combine" /\ x \in Tasks /\ x \in Callers /\ x \notin Threads /\ x \notin Clients
  BY Kinds, FrameSets DEF Combine, Inv
<1>2. /\ Executing(x) /\ x \notin combined /\ x \in issued /\ x \notin Dropped
      /\ caller[x] \in Threads \cup Tasks /\ pc[caller[x]] = "call"
  BY <1>1 DEF Executing, Inv, Counters, Stack, Dropped
<1>3. /\ UNCHANGED <<busy, slot, issued>>
      /\ combined \subseteq combined' /\ combined' \subseteq combined \cup {x}
      /\ x \in combined' \/ pc'[x] = "done"
      /\ \A g \in Frames \ {x} : \/ pc'[g] = pc[g]
                                 \/ pc[g] = "call" /\ pc'[g] \in {"free", "enqueue"}
      /\ pc'[x] \in {"decrement", "done"}
  <2>1. CASE Parent[x] \in Direct
    BY <1>1, <1>2, <2>1, FrameSets DEF Combine, Returned, jobs, Inv, TypeOK
  <2>2. CASE Parent[x] \notin Direct
    BY <1>1, <2>2, FrameSets DEF Combine, Goto, jobs, Inv, TypeOK
  <2>. QED
    BY <2>1, <2>2
<1>4. \A g \in Frames : /\ pc'[g] = "new" <=> pc[g] = "new"
                        /\ pc'[g] = "exited" <=> pc[g] = "exited"
                        /\ pc'[g] \in Returns <=> pc[g] \in Returns
                        /\ g # x => (pc'[g] = "done" <=> pc[g] = "done")
  BY <1>1, <1>3 DEF Returns
<1>5. Dropped' = Dropped
  BY <1>3, <1>4, FrameSets, DroppedStays
<1>6. ASSUME NEW g \in Callers \ {x} PROVE Outcome(g)' = Outcome(g)
  BY <1>3, <1>4, <1>5, FrameSets, OutcomeStays
<1>7. Outcome(x) = "running"
  BY <1>1, <1>2, OutcomeIs
<1>8. Outcome(x)' = "done"
  BY <1>1, <1>2, <1>3, <1>5 DEF Outcome
<1>9. Closing' <=> Closing
  <2>1. Owner # x /\ Owner \in Frames
    BY <1>1, FrameSets
  <2>. QED
    BY <1>3, <2>1 DEF Closing
<1>10. /\ Children(x) \subseteq issued
       /\ x \notin Direct /\ \A y \in Children(x) : pc[y] = "done" /\ y \in combined
  BY <1>1, AtomicPoolAssumption DEF Inv, Counters, WaitsUntilAllFinish
<1>. QED
  BY <1>1, <1>6, <1>7, <1>8, <1>9, <1>10, FinishRefines

(* After that the task only counts itself off. *)
LEMMA DecrementRefines ==
    ASSUME Inv, Inv', NEW x \in Frames, Decrement(x)
    PROVE  UNCHANGED <<Outcomes, Closing>>
<1>1. pc[x] = "decrement" /\ x \in Tasks /\ x \in Callers /\ x \notin Threads /\ x \notin Clients
  BY Kinds, FrameSets DEF Decrement, Inv
<1>2. x \in combined /\ caller[x] \in Threads \cup Tasks /\ pc[caller[x]] = "call"
  BY <1>1 DEF Executing, Inv, Counters, Stack
<1>3. /\ UNCHANGED <<busy, slot, issued, combined>>
      /\ \A g \in Frames \ {x} : \/ pc'[g] = pc[g]
                                 \/ pc[g] = "call" /\ pc'[g] \in {"free", "enqueue"}
      /\ pc'[x] = "done"
  BY <1>1, <1>2, FrameSets DEF Decrement, Returned, jobs, Inv, TypeOK
<1>4. \A g \in Frames : /\ pc'[g] = "new" <=> pc[g] = "new"
                        /\ pc'[g] = "exited" <=> pc[g] = "exited"
                        /\ pc'[g] \in Returns <=> pc[g] \in Returns
                        /\ g # x => (pc'[g] = "done" <=> pc[g] = "done")
  BY <1>1, <1>3 DEF Returns
<1>5. Dropped' = Dropped
  BY <1>3, <1>4, FrameSets, DroppedStays
<1>6. ASSUME NEW g \in Callers PROVE Outcome(g)' = Outcome(g)
  BY <1>2, <1>3, <1>4, <1>5, FrameSets, OutcomeStays
<1>7. Closing' <=> Closing
  <2>1. Owner # x /\ Owner \in Frames
    BY <1>1, FrameSets
  <2>. QED
    BY <1>3, <2>1 DEF Closing
<1>. QED
  BY <1>6, <1>7, OutcomesStay

(* A thread takes a task out of its slot, or executes the one nobody accepted: the
   task starts. *)
LEMMA StartRefines ==
    ASSUME Inv, Inv', NEW f \in Frames,
           \/ ReadBusy(f) /\ busy[f] = 2
           \/ ScanEnd(f) /\ this_thread[f] \in Threads
    PROVE  \E x \in Tasks : Abstract!Start(x)
<1>1. PICK x \in Tasks :
        /\ Execute(f, x) /\ Unstarted(x)
        /\ \/ f \in Threads /\ pc[f] = "look" /\ busy[f] = 2 /\ slot[f] = x
           \/ f \in Callers /\ f \notin Threads /\ pc[f] = "scan" /\ hold[f] = x
        /\ UNCHANGED <<busy, slot, issued, combined>>
  <2>1. CASE ReadBusy(f) /\ busy[f] = 2
    BY <2>1, Kinds DEF ReadBusy, Inv, SlotsFilled, Unstarted, jobs, progress
  <2>2. CASE ScanEnd(f) /\ this_thread[f] \in Threads
    BY <2>2, Kinds DEF ScanEnd, Inv, TypeOK, Holds, jobs, progress
  <2>. QED
    BY <2>1, <2>2
<1>2. /\ x \in Callers /\ x \in Frames /\ x \notin Clients /\ x \notin Threads /\ x # f
      /\ pc[x] = "new" /\ x \in issued /\ x \notin combined
  BY <1>1, FrameSets, AtomicPoolAssumption DEF Unstarted, Frames, Inv, Counters
<1>3. /\ \A g \in Frames \ {f, x} : pc'[g] = pc[g]
      /\ pc'[f] = "call" /\ pc'[x] = "enqueue"
  BY <1>1, <1>2, FrameSets DEF Execute, Inv, TypeOK
<1>4. x \notin Dropped
  <2>1. \A t \in Threads : busy[t] = 2 /\ slot[t] = x => t = f
    BY <1>1, FrameSets DEF Inv, OnePlace, Kept
  <2>. QED
    BY <1>1, <2>1 DEF Dropped
<1>5. \A y : y \in Dropped' <=> y \in Dropped
  BY <1>1, <1>2, <1>3, <1>4, FrameSets DEF Dropped
<1>6. ASSUME NEW g \in Callers \ {x} PROVE Outcome(g)' = Outcome(g)
  <2>1. /\ pc'[g] = "new" <=> pc[g] = "new"
        /\ pc'[g] = "done" <=> pc[g] = "done"
        /\ pc'[g] \in Returns <=> pc[g] \in Returns
    BY <1>1, <1>3, FrameSets DEF Returns
  <2>. QED
    BY <1>1, <1>5, <2>1, OutcomeStays
<1>7. Outcome(x) = "queued"
  BY <1>1, <1>2, <1>4, OutcomeIs
<1>8. Outcome(x)' = "running"
  BY <1>1, <1>2, <1>3, <1>4, <1>5 DEF Outcome
<1>9. Closing' <=> Closing
  <2>1. Owner # x /\ Owner \in Frames /\ pc[f] \in {"look", "scan"}
    BY <1>1, <1>2, FrameSets
  <2>. QED
    BY <1>3, <2>1 DEF Closing
<1>10. Outcomes' = [Outcomes EXCEPT ![x] = "running"] /\ Outcomes[x] = "queued"
  BY <1>2, <1>6, <1>7, <1>8, OutcomeChanges DEF Outcomes, Callers
<1>11. Abstract!Start(x)
  BY <1>9, <1>10 DEF Abstract!Start, Closing
<1>. QED
  BY <1>11

(* A thread exits with a task in its slot: nobody waits for that task. *)
LEMMA DropRefines ==
    ASSUME Inv, Inv', ParentsStarted, NEW t \in Frames, ReadExitRequest(t), exit_request[t], busy[t] = 2
    PROVE  \E x \in Tasks : Abstract!Drop(x)
<1>. DEFINE x == slot[t]
<1>1. /\ t \in Threads /\ t \notin Callers /\ pc[t] = "loop"
      /\ pc' = [pc EXCEPT ![t] = "exited"]
      /\ UNCHANGED <<busy, slot, issued, combined>>
  BY Kinds DEF ReadExitRequest, Goto, Inv, jobs, progress
<1>2. x \in Tasks /\ x \in issued /\ pc[x] = "new" /\ x \in Callers /\ x \notin Clients
  BY <1>1, FrameSets, AtomicPoolAssumption DEF Inv, SlotsFilled
<1>3. Closing
  BY <1>1 DEF Inv, Closes
<1>4. Parent[x] \in Direct
  BY <1>2, <1>3, ClosingLeavesDirect
<1>5. /\ \A g \in Frames \ {t} : pc'[g] = pc[g]
      /\ pc'[t] = "exited"
  BY <1>1 DEF Inv, TypeOK
<1>6. x \notin Dropped
  BY <1>1 DEF Dropped, Inv, OnePlace, Kept
<1>7. \A y : y \in Dropped' <=> y \in Dropped \/ y = x
  BY <1>1, <1>2, <1>5, FrameSets DEF Dropped
<1>. HIDE DEF x
<1>8. ASSUME NEW g \in Callers \ {x} PROVE Outcome(g)' = Outcome(g)
  BY <1>1, <1>5, <1>7, FrameSets, OutcomeStays
<1>9. Outcome(x) = "queued"
  BY <1>2, <1>6, OutcomeIs DEF Unstarted
<1>10. \A y : y = x => Outcome(y)' = "dropped"
  BY <1>1, <1>2, <1>7 DEF Outcome
<1>11. Closing' <=> Closing
  BY <1>1, <1>5, FrameSets DEF Closing
<1>12. Outcomes' = [Outcomes EXCEPT ![x] = "dropped"] /\ Outcomes[x] = "queued"
  BY <1>2, <1>8, <1>9, <1>10, OutcomeChanges DEF Outcomes, Callers
<1>. QED
  BY <1>2, <1>3, <1>4, <1>11, <1>12 DEF Abstract!Drop, Closing

(* The destructor closes the abstract pool with its first step. *)
LEMMA DestroyRefines ==
    ASSUME Inv, Inv', RequestExit \/ Join
    PROVE  Abstract!Close \/ UNCHANGED <<Outcomes, Closing>>
<1>1. /\ \E l \in {"join", "destroyed"} : pc' = [pc EXCEPT ![Owner] = l]
      /\ \A c \in Clients : pc[c] \in Returns
      /\ UNCHANGED <<busy, slot, issued, combined>>
  <2>1. CASE RequestExit
    BY <2>1, FrameSets DEF RequestExit, Goto, progress, Inv, Closes, Closing, Returns
  <2>2. CASE Join
    BY <2>2, FrameSets DEF Join, Goto, progress, Inv, Closes, Closing, Returns
  <2>. QED
    BY <2>1, <2>2
<1>2. /\ \A g \in Frames \ {Owner} : pc'[g] = pc[g]
      /\ pc'[Owner] \in {"join", "destroyed"} /\ pc[Owner] \in Returns
      /\ Owner \in Callers /\ Owner \notin Threads /\ Owner \notin Tasks
  BY <1>1, FrameSets, Kinds DEF Inv, TypeOK
<1>3. Dropped' = Dropped
  BY <1>1, <1>2, FrameSets, DroppedStays
<1>4. ASSUME NEW g \in Callers PROVE Outcome(g)' = Outcome(g)
  BY <1>1, <1>2, <1>3, FrameSets, AtomicPoolAssumption, OutcomeStays DEF Returns
<1>5. Closing'
  BY <1>2 DEF Closing
<1>6. CASE Closing
  BY <1>4, <1>5, <1>6, OutcomesStay
<1>7. CASE ~Closing
  <2>1. \A c \in Clients : Outcomes[c] = "done"
    BY <1>1, FrameSets, OutcomeIs DEF Outcomes, Callers
  <2>2. Outcomes' = Outcomes
    BY <1>4 DEF Outcomes, Callers
  <2>3. Closing' = TRUE
    BY <1>2 DEF Closing
  <2>. QED
    BY <1>7, <2>1, <2>2, <2>3 DEF Abstract!Close
<1>. QED
  BY <1>6, <1>7

(* Every step is a step of the abstract pool or leaves it alone. *)
LEMMA StepRefines ==
    ASSUME Inv, Inv', ParentsStarted, [Next]_vars
    PROVE  [Abstract!Next]_<<Outcomes, Closing>>
<1>1. CASE UNCHANGED vars
  BY <1>1 DEF vars, jobs, search, stack, progress, Outcomes, Outcome, Dropped, Closing
<1>2. ASSUME NEW f \in Frames, FrameStep(f)
      PROVE  [Abstract!Next]_<<Outcomes, Closing>>
  <2>1. CASE \E x \in Tasks : Enqueue(f, x)
    BY <2>1, EnqueueRefines DEF Abstract!Next
  <2>2. CASE AllEnqueued(f) \/ WaitForCompletion(f)
    <3>1. f \in Callers
      BY <2>2, Kinds DEF AllEnqueued, WaitForCompletion, Inv
    <3>. QED
      BY <2>2, <3>1, ClientReturns, InnerRefines DEF Abstract!Next, Callers
  <2>3. CASE ScanEnd(f) \/ ReadBusy(f)
    BY <2>3, StartRefines, InnerRefines DEF Abstract!Next
  <2>4. CASE ReadExitRequest(f)
    BY <2>4, DropRefines, InnerRefines DEF Abstract!Next
  <2>5. CASE SetTask(f) \/ MoveTask(f) \/ StoreBusy(f) \/ StoreFree(f)
    BY <2>5, InnerRefines
  <2>6. CASE Combine(f)
    <3>1. f \in Callers
      BY <2>6, Kinds, FrameSets DEF Combine, Inv
    <3>. QED
      BY <2>6, <3>1, TaskFinishes DEF Abstract!Next, Callers
  <2>7. CASE Decrement(f)
    BY <2>7, DecrementRefines
  <2>. QED
    BY <1>2, <2>1, <2>2, <2>3, <2>4, <2>5, <2>6, <2>7 DEF FrameStep
<1>3. CASE RequestExit \/ Join
  BY <1>3, DestroyRefines DEF Abstract!Next
<1>. QED
  BY <1>1, <1>2, <1>3 DEF Next

(* The pool with atomics implements the abstract pool: a task is executed once and
   only after it was enqueued, WaitForCompletion returns when the tasks are done, and
   only the destructor drops tasks, of direct clients. *)
THEOREM Refinement == Spec => ImplementsPool
<1>1. Init => Abstract!Init
  <2>. SUFFICES ASSUME Init PROVE Abstract!Init
    OBVIOUS
  <2>1. \A c \in Clients : pc[c] = "enqueue"
    BY AtomicPoolAssumption DEF Init, Frames
  <2>2. \A f \in Callers : Outcome(f) = IF f \in Clients THEN "running" ELSE "new"
    BY <2>1, FrameSets DEF Init, Outcome, Callers
  <2>3. Closing = FALSE
    BY <2>1, FrameSets DEF Closing
  <2>. QED
    BY <2>2, <2>3 DEF Abstract!Init, Outcomes, Callers
<1>2. Init => ParentsStarted
  BY DEF Init, ParentsStarted
<1>3. Inv /\ ParentsStarted /\ [Next]_vars => ParentsStarted'
  BY ParentsStartedStep
<1>4. Inv /\ Inv' /\ ParentsStarted /\ [Next]_vars => [Abstract!Next]_<<Outcomes, Closing>>
  BY StepRefines
<1>. QED
  BY <1>1, <1>2, <1>3, <1>4, Invariance, PTL DEF Spec, Abstract!Spec, ImplementsPool
=============================================================================
