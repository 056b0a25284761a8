----------------------------- MODULE SharedPtr ------------------------------
(***************************************************************************)
(* ut::SharedPtr, ut::WeakPtr and their reference controller in the        *)
(* thread-safe mode (include/pointers/ut_ref_counter.h, ut_shared_ptr.h,   *)
(* ut_weak_ptr.h).                                                         *)
(*                                                                         *)
(* Threads create, copy, move, assign, pin and destroy pointers that share *)
(* reference controllers.  A pointer (a slot) is used by one thread; the   *)
(* controllers are shared.  Each interlocked operation on a count is one   *)
(* action, and so are the two destructions, so threads interleave between  *)
(* a decrement and the destruction it leads to, and between the read and   *)
(* the compare-exchange of ConditionallyAddStrongRef.                      *)
(***************************************************************************)
EXTENDS Integers, FiniteSets

CONSTANTS
    Threads,
    Strong,       \* slots that hold a SharedPtr
    Weak,         \* slots that hold a WeakPtr
    User,         \* User[s]: the thread that uses slot s
    Controllers,  \* reference controllers, each with the object it manages
    First,        \* the controller that exists in the initial state
    SelfAssign,   \* whether programs assign a pointer to itself
    Null

Slots == Strong \cup Weak

ASSUME PtrAssumption ==
    /\ IsFiniteSet(Slots) /\ IsFiniteSet(Controllers) /\ IsFiniteSet(Threads)
    /\ Strong \cap Weak = {}
    /\ User \in [Slots -> Threads]
    /\ First \in Controllers
    /\ SelfAssign \in BOOLEAN
    /\ Null \notin Controllers

VARIABLES
    built,         \* built[s]: slot s holds a constructed pointer
    ref,           \* ref[s]: referencer.controller in the memory of slot s
    obj,           \* obj[s]: object, named by the controller that manages it
    strong_count,  \* strong_count[c]
    weak_count,    \* weak_count[c]
    object,        \* object[c]: state of the managed object
    controller,    \* controller[c]: state of the controller itself
    pc,            \* pc[t]: where thread t is in an operation
    dst,           \* dst[t]: the slot it changes
    src,           \* src[t]: the slot it copies or pins
    next,          \* next[t]: what follows the release of the old reference
    seen           \* seen[t]: original_count in ConditionallyAddStrongRef

slots == <<built, ref, obj>>
counts == <<strong_count, weak_count>>
lives == <<object, controller>>
locals == <<pc, dst, src, next, seen>>
vars == <<slots, counts, lives, locals>>

Locations == {"idle", "release_strong", "destroy_object", "release_weak",
              "destroy_controller", "construct", "pin_read", "pin_exchange"}
Life == {"none", "alive", "destroyed"}

TypeOK ==
    /\ built \in [Slots -> BOOLEAN]
    /\ ref \in [Slots -> Controllers \cup {Null}]
    /\ obj \in [Slots -> Controllers \cup {Null}]
    /\ strong_count \in [Controllers -> Nat]
    /\ weak_count \in [Controllers -> Nat]
    /\ object \in [Controllers -> Life]
    /\ controller \in [Controllers -> Life]
    /\ pc \in [Threads -> Locations]
    /\ dst \in [Threads -> Slots \cup {Null}]
    /\ src \in [Threads -> Slots \cup {Null}]
    /\ next \in [Threads -> {"end", "copy", "null", "new"}]
    /\ seen \in [Threads -> Nat]

(* The first object has been created and its pointers handed out to the threads
   (before they were started): some slots hold a reference, at least one of them
   a strong one. *)
Init ==
    \E given \in SUBSET Slots :
        /\ given \cap Strong # {}
        /\ built = [s \in Slots |-> s \in given]
        /\ ref = [s \in Slots |-> IF s \in given THEN First ELSE Null]
        /\ obj = ref
        /\ strong_count = [c \in Controllers |->
               IF c = First THEN Cardinality(given \cap Strong) ELSE 0]
        /\ weak_count = [c \in Controllers |->
               IF c = First THEN Cardinality(given \cap Weak) + 1 ELSE 0]
        /\ object = [c \in Controllers |-> IF c = First THEN "alive" ELSE "none"]
        /\ controller = object
        /\ pc = [t \in Threads |-> "idle"]
        /\ dst = [t \in Threads |-> Null]
        /\ src = [t \in Threads |-> Null]
        /\ next = [t \in Threads |-> "end"]
        /\ seen = [t \in Threads |-> 0]

Idle(t, s) == pc[t] = "idle" /\ User[s] = t

-----------------------------------------------------------------------------
(* The constructor of a referencer adds a reference of the kind of slot d. *)
AddRef(d, c) ==
    /\ strong_count' = IF d \in Strong /\ c # Null
                       THEN [strong_count EXCEPT ![c] = @ + 1] ELSE strong_count
    /\ weak_count' = IF d \in Weak /\ c # Null
                     THEN [weak_count EXCEPT ![c] = @ + 1] ELSE weak_count

(* Faulty form: a WeakPtr constructed from a SharedPtr is not counted. *)
Copy_Uncounted(t, d, s) ==
    /\ Idle(t, d) /\ User[s] = t
    /\ ~built[d] /\ built[s]
    /\ d \in Weak \/ s \in Strong
    /\ built' = [built EXCEPT ![d] = TRUE]
    /\ ref' = [ref EXCEPT ![d] = ref[s]]
    /\ obj' = [obj EXCEPT ![d] = obj[s]]
    /\ IF d \in Weak /\ s \in Strong THEN UNCHANGED counts ELSE AddRef(d, ref[s])
    /\ UNCHANGED <<lives, locals>>

(* SharedPtr(const SharedPtr&), WeakPtr(const WeakPtr&), WeakPtr(const
   SharedPtr&): construct slot d from slot s. *)
Copy(t, d, s) ==
    /\ Idle(t, d) /\ User[s] = t
    /\ ~built[d] /\ built[s]
    /\ d \in Weak \/ s \in Strong
    /\ built' = [built EXCEPT ![d] = TRUE]
    /\ ref' = [ref EXCEPT ![d] = ref[s]]
    /\ obj' = [obj EXCEPT ![d] = obj[s]]
    /\ AddRef(d, ref[s])
    /\ UNCHANGED <<lives, locals>>

(* Faulty form: the moved-from referencer keeps its controller. *)
MoveTo_KeepsController(t, d, s) ==
    /\ Idle(t, d) /\ User[s] = t
    /\ ~built[d] /\ built[s]
    /\ d \in Weak <=> s \in Weak
    /\ built' = [built EXCEPT ![d] = TRUE]
    /\ ref' = [ref EXCEPT ![d] = ref[s]]
    /\ obj' = [obj EXCEPT ![d] = obj[s]]
    /\ UNCHANGED <<counts, lives, locals>>

(* The move constructors.  The source loses its controller and keeps its
   object. *)
MoveTo(t, d, s) ==
    /\ Idle(t, d) /\ User[s] = t
    /\ ~built[d] /\ built[s]
    /\ d \in Weak <=> s \in Weak
    /\ built' = [built EXCEPT ![d] = TRUE]
    /\ ref' = [ref EXCEPT ![d] = ref[s], ![s] = Null]
    /\ obj' = [obj EXCEPT ![d] = obj[s]]
    /\ UNCHANGED <<counts, lives, locals>>

(* A controller is created with both counts at one. *)
Unborn == {c \in Controllers : controller[c] = "none"}
CreateController(c) ==
    /\ c \in Unborn
    /\ strong_count' = [strong_count EXCEPT ![c] = 1]
    /\ weak_count' = [weak_count EXCEPT ![c] = 1]
    /\ object' = [object EXCEPT ![c] = "alive"]
    /\ controller' = [controller EXCEPT ![c] = "alive"]

(* The bound on Controllers: a thread that is going to create one keeps it
   reserved. *)
CanCreate == Cardinality(Unborn) > Cardinality({t \in Threads : next[t] = "new"})

(* SharedPtr(), WeakPtr(): a pointer to nothing. *)
CreateEmpty(t, d) ==
    /\ Idle(t, d)
    /\ ~built[d]
    /\ built' = [built EXCEPT ![d] = TRUE]
    /\ ref' = [ref EXCEPT ![d] = Null]
    /\ obj' = [obj EXCEPT ![d] = Null]
    /\ UNCHANGED <<counts, lives, locals>>

(* MakeShared, SharedPtr(ObjectType* ). *)
Create(t, d, c) ==
    /\ Idle(t, d)
    /\ d \in Strong /\ ~built[d]
    /\ CanCreate
    /\ CreateController(c)
    /\ built' = [built EXCEPT ![d] = TRUE]
    /\ ref' = [ref EXCEPT ![d] = c]
    /\ obj' = [obj EXCEPT ![d] = c]
    /\ UNCHANGED locals

-----------------------------------------------------------------------------
(* DestructReferencer begins on slot d; then "n" follows. *)
Release(t, d, s, n) ==
    /\ Idle(t, d)
    /\ built[d]
    /\ built' = [built EXCEPT ![d] = FALSE]
    /\ pc' = [pc EXCEPT ![t] = CASE ref[d] = Null -> "construct"
                                 [] ref[d] # Null /\ d \in Strong -> "release_strong"
                                 [] ref[d] # Null /\ d \in Weak -> "release_weak"]
    /\ dst' = [dst EXCEPT ![t] = d]
    /\ src' = [src EXCEPT ![t] = s]
    /\ next' = [next EXCEPT ![t] = n]
    /\ UNCHANGED <<ref, obj, counts, lives, seen>>

(* The destructor of a pointer. *)
Destroy(t, d) == Release(t, d, Null, "end")

(* operator=(const &), operator=(&&) and Reset(const &): release, then copy. *)
Assign(t, d, s) ==
    /\ User[s] = t /\ built[s]
    /\ d \in Weak \/ s \in Strong
    /\ d # s \/ SelfAssign
    /\ Release(t, d, s, "copy")

(* SharedPtr::Reset(ObjectType* ) with a new object, WeakPtr::Reset(). *)
Reset(t, d) ==
    \/ d \in Strong /\ CanCreate /\ Release(t, d, Null, "new")
    \/ d \in Weak /\ Release(t, d, Null, "null")

Goto(t, loc) == pc' = [pc EXCEPT ![t] = loc] /\ UNCHANGED <<dst, src, next, seen>>

(* ReleaseStrongRef: the decrement ... *)
ReleaseStrongRef(t) ==
    LET c == ref[dst[t]] IN
    /\ pc[t] = "release_strong"
    /\ strong_count' = [strong_count EXCEPT ![c] = @ - 1]
    /\ Goto(t, IF strong_count[c] = 1 THEN "destroy_object" ELSE "construct")
    /\ UNCHANGED <<slots, weak_count, lives>>

(* Faulty form: the reference of the object itself is never released. *)
DestroyObject_KeepsWeakRef(t) ==
    /\ pc[t] = "destroy_object"
    /\ object' = [object EXCEPT ![ref[dst[t]]] = "destroyed"]
    /\ Goto(t, "construct")
    /\ UNCHANGED <<slots, counts, controller>>

(* ... and, for the last reference, DestroyObject and ReleaseWeakRef. *)
DestroyObject(t) ==
    /\ pc[t] = "destroy_object"
    /\ object' = [object EXCEPT ![ref[dst[t]]] = "destroyed"]
    /\ Goto(t, "release_weak")
    /\ UNCHANGED <<slots, counts, controller>>

(* ReleaseWeakRef: the decrement ... *)
ReleaseWeakRef(t) ==
    LET c == ref[dst[t]] IN
    /\ pc[t] = "release_weak"
    /\ weak_count' = [weak_count EXCEPT ![c] = @ - 1]
    /\ Goto(t, IF weak_count[c] = 1 THEN "destroy_controller" ELSE "construct")
    /\ UNCHANGED <<slots, strong_count, lives>>

(* ... and DestroyController. *)
DestroyController(t) ==
    /\ pc[t] = "destroy_controller"
    /\ controller' = [controller EXCEPT ![ref[dst[t]]] = "destroyed"]
    /\ Goto(t, "construct")
    /\ UNCHANGED <<slots, counts, object>>

(* The operation of t ends with slot dst[t] holding r and o. *)
Finish(t, b, r, o) ==
    /\ built' = [built EXCEPT ![dst[t]] = b]
    /\ ref' = [ref EXCEPT ![dst[t]] = r]
    /\ obj' = [obj EXCEPT ![dst[t]] = o]
    /\ pc' = [pc EXCEPT ![t] = "idle"]
    /\ dst' = [dst EXCEPT ![t] = Null]
    /\ src' = [src EXCEPT ![t] = Null]
    /\ next' = [next EXCEPT ![t] = "end"]
    /\ seen' = [seen EXCEPT ![t] = 0]

(* The new referencer is constructed in the place of the old one. *)
Construct(t) ==
    /\ pc[t] = "construct"
    /\ \/ /\ next[t] \in {"end", "null"}
          /\ Finish(t, next[t] = "null", Null, Null)
          /\ UNCHANGED <<counts, lives>>
       \/ /\ next[t] = "copy"
          /\ AddRef(dst[t], ref[src[t]])
          /\ Finish(t, TRUE, ref[src[t]], obj[src[t]])
          /\ UNCHANGED lives
       \/ /\ next[t] = "new"
          /\ \E c \in Controllers : CreateController(c) /\ Finish(t, TRUE, c, c)

-----------------------------------------------------------------------------
(* WeakPtr::Pin: construct SharedPtr slot d from WeakPtr slot s. *)
Pin(t, d, s) ==
    /\ Idle(t, d) /\ User[s] = t
    /\ d \in Strong /\ ~built[d]
    /\ s \in Weak /\ built[s]
    /\ IF ref[s] = Null
       THEN /\ built' = [built EXCEPT ![d] = TRUE]
            /\ ref' = [ref EXCEPT ![d] = Null]
            /\ obj' = [obj EXCEPT ![d] = Null]
            /\ UNCHANGED <<pc, dst, src>>
       ELSE /\ pc' = [pc EXCEPT ![t] = "pin_read"]
            /\ dst' = [dst EXCEPT ![t] = d]
            /\ src' = [src EXCEPT ![t] = s]
            /\ UNCHANGED slots
    /\ UNCHANGED <<counts, lives, next, seen>>

(* ConditionallyAddStrongRef: read the count, give up if it is zero ... *)
PinRead(t) ==
    LET n == strong_count[ref[src[t]]] IN
    /\ pc[t] = "pin_read"
    /\ IF n = 0
       THEN Finish(t, TRUE, Null, Null)
       ELSE /\ pc' = [pc EXCEPT ![t] = "pin_exchange"]
            /\ seen' = [seen EXCEPT ![t] = n]
            /\ UNCHANGED <<slots, dst, src, next>>
    /\ UNCHANGED <<counts, lives>>

(* Faulty form: an unconditional increment in place of the compare-exchange. *)
PinExchange_Unconditional(t) ==
    LET c == ref[src[t]] IN
    /\ pc[t] = "pin_exchange"
    /\ strong_count' = [strong_count EXCEPT ![c] = @ + 1]
    /\ Finish(t, TRUE, c, obj[src[t]])
    /\ UNCHANGED <<weak_count, lives>>

(* ... compare and exchange, and start over if another thread changed it. *)
PinExchange(t) ==
    LET c == ref[src[t]] IN
    /\ pc[t] = "pin_exchange"
    /\ IF strong_count[c] = seen[t]
       THEN /\ strong_count' = [strong_count EXCEPT ![c] = seen[t] + 1]
            /\ Finish(t, TRUE, c, obj[src[t]])
       ELSE /\ pc' = [pc EXCEPT ![t] = "pin_read"]
            /\ UNCHANGED <<slots, strong_count, dst, src, next, seen>>
    /\ UNCHANGED <<weak_count, lives>>

-----------------------------------------------------------------------------
Step(t) ==
    \/ ReleaseStrongRef(t) \/ DestroyObject(t) \/ ReleaseWeakRef(t)
    \/ DestroyController(t) \/ Construct(t) \/ PinRead(t) \/ PinExchange(t)

Start(t) ==
    \E d \in Slots :
        \/ CreateEmpty(t, d) \/ Destroy(t, d) \/ Reset(t, d)
        \/ \E c \in Controllers : Create(t, d, c)
        \/ \E s \in Slots : Copy(t, d, s) \/ MoveTo(t, d, s) \/ Assign(t, d, s) \/ Pin(t, d, s)

Next == \E t \in Threads : Start(t) \/ Step(t)

Spec == Init /\ [][Next]_vars

-----------------------------------------------------------------------------
(* The slot whose reference thread t is about to give up still counts. *)
Releasing(loc) == {dst[t] : t \in {u \in Threads : pc[u] = loc}}
Owners(c) == {s \in Strong : ref[s] = c /\ (built[s] \/ s \in Releasing("release_strong"))}
Observers(c) == {s \in Weak : ref[s] = c /\ (built[s] \/ s \in Releasing("release_weak"))}

(* strong_count is the number of SharedPtrs that share ownership; weak_count is
   the number of WeakPtrs, plus one for the strong references together, until
   the thread that released the last of them has released this one as well. *)
CountsMatch ==
    \A c \in Controllers :
        /\ strong_count[c] = Cardinality(Owners(c))
        /\ weak_count[c] =
              Cardinality(Observers(c))
              + (IF \/ Owners(c) # {}
                    \/ \E t \in Threads : /\ pc[t] \in {"destroy_object", "release_weak"}
                                          /\ dst[t] \in Strong /\ ref[dst[t]] = c
                 THEN 1 ELSE 0)

(* An object lives as long as anybody owns it: what a SharedPtr with a controller
   gives access to is alive, whatever the other threads release meanwhile. *)
OwnedAlive ==
    \A s \in Strong, c \in Controllers :
        s \in Owners(c) => object[c] = "alive" /\ obj[s] = c

(* The slots through which thread t is about to use a controller. *)
Touched(t) ==
    CASE pc[t] \in {"release_strong", "destroy_object", "release_weak",
                    "destroy_controller"} -> {dst[t]}
      [] pc[t] \in {"pin_read", "pin_exchange"} -> {src[t]}
      [] pc[t] = "construct" /\ next[t] = "copy" -> {src[t]}
      [] OTHER -> {}

(* No thread uses a controller after DestroyController, not even to release it:
   neither the one between its decrement and DestroyObject nor the one between
   Read and CompareExchange. *)
NoUseAfterDelete ==
    \A t \in Threads : \A s \in Touched(t) :
        ref[s] # Null => controller[ref[s]] = "alive"

(* "We'll never revive a pointer that has already expired!" *)
NeverRevived ==
    [][\A c \in Controllers :
          controller[c] = "alive" /\ strong_count[c] = 0 => strong_count'[c] = 0]_vars

(* Nothing leaks: when no operation is under way, an object without owners is
   destroyed, and a controller nobody refers to is deleted. *)
NoLeak ==
    (\A t \in Threads : pc[t] = "idle") =>
        \A c \in Controllers \ Unborn :
            /\ Owners(c) = {} => object[c] = "destroyed"
            /\ Owners(c) \cup Observers(c) = {} => controller[c] = "destroyed"
=============================================================================
