-------------------------- MODULE SharedPtrProofs ---------------------------
(***************************************************************************)
(* Proofs about SharedPtr, for any number of threads, pointers and objects *)
(* of programs that do not assign a pointer to itself.                     *)
(*                                                                         *)
(* A pointer has a claim on a controller from its construction until the   *)
(* decrement in ReleaseStrongRef or ReleaseWeakRef (own, obs).  The strong *)
(* pointers have one weak reference together, which passes to the thread   *)
(* that drops the last of them (dying), and the thread that drops the last *)
(* weak reference is alone with the controller (deleting).  The counts are *)
(* the numbers of these claims (Counted), and what is alive is what        *)
(* somebody has a claim on (Lives).  That a thread relies on a claim only  *)
(* through pointers that no other thread touches is in Ops.                *)
(***************************************************************************)
EXTENDS SharedPtr, FiniteSetTheorems, TLAPS

(* The members of D that p places in S. *)
Where(D, p, S) == {d \in D : p[d] \in S}

(* What a SharedPtr, a WeakPtr has a claim on. *)
own == [s \in Strong |-> IF built[s] \/ s \in Releasing("release_strong") THEN ref[s] ELSE Null]
obs == [s \in Weak |-> IF built[s] \/ s \in Releasing("release_weak") THEN ref[s] ELSE Null]

(* What a thread has yet to release for all strong references, and to delete. *)
dying == [t \in Threads |-> IF /\ pc[t] \in {"destroy_object", "release_weak"}
                               /\ dst[t] \in Strong
                            THEN ref[dst[t]] ELSE Null]
deleting == [t \in Threads |-> IF pc[t] = "destroy_controller" THEN ref[dst[t]] ELSE Null]

Owned(c) == \E s \in Strong : own[s] = c
Observed(c) == \E s \in Weak : obs[s] = c
Dying(c) == \E t \in Threads : dying[t] = c
Deleting(c) == \E t \in Threads : deleting[t] = c

(* The counts are the numbers of claims. *)
Counted ==
    \A c \in Controllers :
        /\ strong_count[c] = Cardinality(Where(Strong, own, {c}))
        /\ weak_count[c] = Cardinality(Where(Weak, obs, {c}))
                           + IF Owned(c) \/ Dying(c) THEN 1 ELSE 0

(* What is alive is what somebody has a claim on, and the two claims of threads are
   the last ones. *)
Lives ==
    \A c \in Controllers :
        /\ object[c] = "alive" <=>
              Owned(c) \/ \E t \in Threads : dying[t] = c /\ pc[t] = "destroy_object"
        /\ controller[c] = "alive" <=> Owned(c) \/ Observed(c) \/ Dying(c) \/ Deleting(c)
        /\ object[c] = "none" <=> controller[c] = "none"
        /\ Dying(c) => ~Owned(c)
        /\ Deleting(c) => ~Owned(c) /\ ~Observed(c) /\ ~Dying(c)
        /\ \A t, u \in Threads : dying[t] = c /\ dying[u] = c => t = u
        /\ \A t, u \in Threads : deleting[t] = c /\ deleting[u] = c => t = u

(* What a thread knows of the slots it is working on. *)
OpsOf(t) ==
    pc[t] # "idle" =>
        /\ dst[t] \in Slots /\ User[dst[t]] = t /\ ~built[dst[t]]
        /\ pc[t] \in {"release_strong", "destroy_object"} => dst[t] \in Strong
        /\ pc[t] \in {"release_strong", "destroy_object", "release_weak", "destroy_controller"}
              => ref[dst[t]] # Null
        /\ pc[t] \in {"pin_read", "pin_exchange"} =>
              /\ src[t] \in Weak /\ User[src[t]] = t /\ built[src[t]] /\ ref[src[t]] # Null
              /\ dst[t] \in Strong
        /\ pc[t] \notin {"pin_read", "pin_exchange"} /\ next[t] = "copy" =>
              /\ src[t] \in Slots /\ User[src[t]] = t /\ built[src[t]]
              /\ dst[t] \in Weak \/ src[t] \in Strong
        /\ pc[t] \notin {"pin_read", "pin_exchange"} /\ next[t] = "new" => dst[t] \in Strong
        /\ pc[t] = "pin_exchange" => seen[t] # 0

Ops == \A t \in Threads : OpsOf(t)

(* A pointer with a controller points to the object of this controller. *)
Objs == \A s \in Slots : ref[s] # Null => obj[s] = ref[s]

Inv == TypeOK /\ Ops /\ Objs /\ Counted /\ Lives
-----------------------------------------------------------------------------
(* The sets of slots are disjoint and finite, and no controller is Null. *)
LEMMA SlotSets ==
    /\ Strong \subseteq Slots /\ Weak \subseteq Slots
    /\ \A s \in Strong : s \notin Weak
    /\ \A s \in Slots : s \in Strong \/ s \in Weak
    /\ \A s \in Slots : User[s] \in Threads
    /\ \A c \in Controllers : c # Null
    /\ IsFiniteSet(Strong) /\ IsFiniteSet(Weak)
BY PtrAssumption, FS_Subset DEF Slots

(* The set of the claims on S is finite; its cardinality is a natural number, zero only for
   the empty set. *)
LEMMA WhereFinite ==
    ASSUME NEW D, IsFiniteSet(D), NEW p, NEW S
    PROVE  /\ IsFiniteSet(Where(D, p, S))
           /\ Cardinality(Where(D, p, S)) \in Nat
           /\ Cardinality(Where(D, p, S)) = 0 <=> Where(D, p, S) = {}
<1>1. Where(D, p, S) \in SUBSET D
  BY DEF Where
<1>2. IsFiniteSet(Where(D, p, S))
  BY <1>1, FS_Subset
<1>. QED
  BY <1>2, FS_CardinalityType, FS_EmptySet

(* What a change of one claim does to the number of claims on the members of S. *)
LEMMA CountMove ==
    ASSUME NEW D, IsFiniteSet(D), NEW p, NEW q, NEW S, NEW d \in D,
           \A e \in D \ {d} : q[e] = p[e]
    PROVE  /\ p[d] \notin S /\ q[d] \in S =>
                 Cardinality(Where(D, q, S)) = Cardinality(Where(D, p, S)) + 1
           /\ p[d] \in S /\ q[d] \notin S =>
                 Cardinality(Where(D, q, S)) = Cardinality(Where(D, p, S)) - 1
           /\ (p[d] \in S <=> q[d] \in S) =>
                 Cardinality(Where(D, q, S)) = Cardinality(Where(D, p, S))
<1>1. \A e \in D \ {d} : q[e] \in S <=> p[e] \in S
  OBVIOUS
<1>2. IsFiniteSet(Where(D, p, S))
  BY WhereFinite
<1>3. ASSUME p[d] \notin S, q[d] \in S
      PROVE  Cardinality(Where(D, q, S)) = Cardinality(Where(D, p, S)) + 1
  <2>1. Where(D, q, S) = Where(D, p, S) \cup {d} /\ d \notin Where(D, p, S)
    BY <1>1, <1>3 DEF Where
  <2>2. Cardinality(Where(D, p, S) \cup {d}) = Cardinality(Where(D, p, S)) + 1
    BY <1>2, <2>1, FS_AddElement
  <2>. QED
    BY <2>1, <2>2
<1>4. ASSUME p[d] \in S, q[d] \notin S
      PROVE  Cardinality(Where(D, q, S)) = Cardinality(Where(D, p, S)) - 1
  <2>1. Where(D, q, S) = Where(D, p, S) \ {d} /\ d \in Where(D, p, S)
    BY <1>1, <1>4 DEF Where
  <2>2. Cardinality(Where(D, p, S) \ {d}) = Cardinality(Where(D, p, S)) - 1
    BY <1>2, <2>1, FS_RemoveElement
  <2>. QED
    BY <2>1, <2>2
<1>5. ASSUME p[d] \in S <=> q[d] \in S
      PROVE  Where(D, q, S) = Where(D, p, S)
  BY <1>1, <1>5 DEF Where
<1>. QED
  BY <1>3, <1>4, <1>5

(* A count of claims is a natural number, zero when there is none. *)
LEMMA CountZero ==
    ASSUME NEW D, IsFiniteSet(D), NEW p, NEW c
    PROVE  /\ Cardinality(Where(D, p, {c})) \in Nat
           /\ Cardinality(Where(D, p, {c})) = 0 <=> \A d \in D : p[d] # c
<1>1. Where(D, p, {c}) = {} <=> \A d \in D : p[d] # c
  BY DEF Where
<1>. QED
  BY <1>1, WhereFinite

(* A slot is being released by the thread that uses it, or not at all. *)
LEMMA Views ==
    ASSUME Ops
    PROVE  /\ \A s \in Strong : own[s] = IF \/ built[s]
                                            \/ pc[User[s]] = "release_strong" /\ dst[User[s]] = s
                                         THEN ref[s] ELSE Null
           /\ \A s \in Weak : obs[s] = IF \/ built[s]
                                          \/ pc[User[s]] = "release_weak" /\ dst[User[s]] = s
                                       THEN ref[s] ELSE Null
<1>1. ASSUME NEW l, l # "idle", NEW s \in Slots
      PROVE  s \in Releasing(l) <=> pc[User[s]] = l /\ dst[User[s]] = s
  BY <1>1, SlotSets DEF Releasing, Ops, OpsOf
<1>2. \A s \in Slots : s \in Releasing("release_strong") <=>
                          pc[User[s]] = "release_strong" /\ dst[User[s]] = s
  BY <1>1
<1>3. \A s \in Slots : s \in Releasing("release_weak") <=>
                          pc[User[s]] = "release_weak" /\ dst[User[s]] = s
  BY <1>1
<1>. QED
  BY <1>2, <1>3, SlotSets DEF own, obs

LEMMA ViewsNext ==
    ASSUME Ops'
    PROVE  /\ \A s \in Strong : own'[s] = IF \/ built'[s]
                                             \/ pc'[User[s]] = "release_strong" /\ dst'[User[s]] = s
                                          THEN ref'[s] ELSE Null
           /\ \A s \in Weak : obs'[s] = IF \/ built'[s]
                                           \/ pc'[User[s]] = "release_weak" /\ dst'[User[s]] = s
                                        THEN ref'[s] ELSE Null
<1>1. ASSUME NEW l, l # "idle", NEW s \in Slots
      PROVE  s \in {dst'[t] : t \in {u \in Threads : pc'[u] = l}}
                <=> pc'[User[s]] = l /\ dst'[User[s]] = s
  BY <1>1, SlotSets DEF Ops, OpsOf
<1>2. \A s \in Slots : s \in Releasing("release_strong")' <=>
                          pc'[User[s]] = "release_strong" /\ dst'[User[s]] = s
  BY <1>1 DEF Releasing
<1>3. \A s \in Slots : s \in Releasing("release_weak")' <=>
                          pc'[User[s]] = "release_weak" /\ dst'[User[s]] = s
  BY <1>1 DEF Releasing
<1>. QED
  BY <1>2, <1>3, SlotSets DEF own, obs

(* A step of t changes only what t uses, apart from controllers. *)
Private(t) ==
    /\ \A u \in Threads \ {t} : /\ pc'[u] = pc[u] /\ dst'[u] = dst[u] /\ src'[u] = src[u]
                                /\ next'[u] = next[u] /\ seen'[u] = seen[u]
    /\ \A s \in Slots : User[s] # t => built'[s] = built[s] /\ ref'[s] = ref[s] /\ obj'[s] = obj[s]

(* Other threads keep what they know of their slots, and their claims. *)
LEMMA OthersKeep ==
    ASSUME Ops, NEW t \in Threads, Private(t), OpsOf(t)'
    PROVE  /\ Ops'
           /\ \A s \in Strong : User[s] # t => own'[s] = own[s]
           /\ \A s \in Weak : User[s] # t => obs'[s] = obs[s]
           /\ \A u \in Threads \ {t} : dying'[u] = dying[u] /\ deleting'[u] = deleting[u]
<1>1. ASSUME NEW u \in Threads \ {t} PROVE OpsOf(u)'
  BY SlotSets DEF Ops, OpsOf, Private
<1>2. Ops'
  BY <1>1 DEF Ops
<1>3. /\ \A s \in Strong : User[s] # t => own'[s] = own[s]
      /\ \A s \in Weak : User[s] # t => obs'[s] = obs[s]
  BY <1>2, Views, ViewsNext, SlotSets DEF Private
<1>4. \A u \in Threads \ {t} : dying'[u] = dying[u] /\ deleting'[u] = deleting[u]
  BY DEF dying, deleting, Private, Ops, OpsOf
<1>. QED
  BY <1>2, <1>3, <1>4

(* The claims of t itself. *)
LEMMA ThreadViews ==
    ASSUME NEW t \in Threads
    PROVE  /\ dying[t] = IF pc[t] \in {"destroy_object", "release_weak"} /\ dst[t] \in Strong
                         THEN ref[dst[t]] ELSE Null
           /\ dying'[t] = IF pc'[t] \in {"destroy_object", "release_weak"} /\ dst'[t] \in Strong
                          THEN ref'[dst'[t]] ELSE Null
           /\ deleting[t] = IF pc[t] = "destroy_controller" THEN ref[dst[t]] ELSE Null
           /\ deleting'[t] = IF pc'[t] = "destroy_controller" THEN ref'[dst'[t]] ELSE Null
BY DEF dying, deleting

-----------------------------------------------------------------------------
(* No claims on c, in this state and in the next. *)
LEMMA NoClaims ==
    ASSUME NEW c
    PROVE  /\ Cardinality(Where(Strong, own, {c})) \in Nat
           /\ Cardinality(Where(Strong, own', {c})) \in Nat
           /\ Cardinality(Where(Weak, obs, {c})) \in Nat
           /\ Cardinality(Where(Weak, obs', {c})) \in Nat
           /\ Cardinality(Where(Strong, own, {c})) = 0 <=> ~Owned(c)
           /\ Cardinality(Where(Strong, own', {c})) = 0 <=> ~\E s \in Strong : own'[s] = c
           /\ Cardinality(Where(Weak, obs, {c})) = 0 <=> ~Observed(c)
           /\ Cardinality(Where(Weak, obs', {c})) = 0 <=> ~\E s \in Weak : obs'[s] = c
<1>1. IsFiniteSet(Strong) /\ IsFiniteSet(Weak)
  BY SlotSets
<1>2. /\ Cardinality(Where(Strong, own, {c})) \in Nat
      /\ Cardinality(Where(Strong, own, {c})) = 0 <=> \A d \in Strong : own[d] # c
  BY <1>1, CountZero
<1>3. /\ Cardinality(Where(Strong, own', {c})) \in Nat
      /\ Cardinality(Where(Strong, own', {c})) = 0 <=> \A d \in Strong : own'[d] # c
  BY <1>1, CountZero
<1>4. /\ Cardinality(Where(Weak, obs, {c})) \in Nat
      /\ Cardinality(Where(Weak, obs, {c})) = 0 <=> \A d \in Weak : obs[d] # c
  BY <1>1, CountZero
<1>5. /\ Cardinality(Where(Weak, obs', {c})) \in Nat
      /\ Cardinality(Where(Weak, obs', {c})) = 0 <=> \A d \in Weak : obs'[d] # c
  BY <1>1, CountZero
<1>. QED
  BY <1>2, <1>3, <1>4, <1>5 DEF Owned, Observed

(* One claim changes. *)
LEMMA OwnMove ==
    ASSUME NEW d \in Strong, \A e \in Strong \ {d} : own'[e] = own[e], NEW c
    PROVE  /\ own[d] # c /\ own'[d] = c =>
                 Cardinality(Where(Strong, own', {c})) = Cardinality(Where(Strong, own, {c})) + 1
           /\ own[d] = c /\ own'[d] # c =>
                 Cardinality(Where(Strong, own', {c})) = Cardinality(Where(Strong, own, {c})) - 1
           /\ (own[d] = c <=> own'[d] = c) =>
                 Cardinality(Where(Strong, own', {c})) = Cardinality(Where(Strong, own, {c}))
<1>. DEFINE p == own
            q == own'
            S == {c}
<1>1. IsFiniteSet(Strong) /\ \A e \in Strong \ {d} : q[e] = p[e]
  BY SlotSets
<1>2. \A b : b \in S <=> b = c
  OBVIOUS
<1>. HIDE DEF p, q, S
<1>3. /\ p[d] # c /\ q[d] = c =>
            Cardinality(Where(Strong, q, S)) = Cardinality(Where(Strong, p, S)) + 1
      /\ p[d] = c /\ q[d] # c =>
            Cardinality(Where(Strong, q, S)) = Cardinality(Where(Strong, p, S)) - 1
      /\ (p[d] = c <=> q[d] = c) =>
            Cardinality(Where(Strong, q, S)) = Cardinality(Where(Strong, p, S))
  BY <1>1, <1>2, CountMove
<1>. QED
  BY <1>3 DEF p, q, S

LEMMA ObsMove ==
    ASSUME NEW d \in Weak, \A e \in Weak \ {d} : obs'[e] = obs[e], NEW c
    PROVE  /\ obs[d] # c /\ obs'[d] = c =>
                 Cardinality(Where(Weak, obs', {c})) = Cardinality(Where(Weak, obs, {c})) + 1
           /\ obs[d] = c /\ obs'[d] # c =>
                 Cardinality(Where(Weak, obs', {c})) = Cardinality(Where(Weak, obs, {c})) - 1
           /\ (obs[d] = c <=> obs'[d] = c) =>
                 Cardinality(Where(Weak, obs', {c})) = Cardinality(Where(Weak, obs, {c}))
<1>. DEFINE p == obs
            q == obs'
            S == {c}
<1>1. IsFiniteSet(Weak) /\ \A e \in Weak \ {d} : q[e] = p[e]
  BY SlotSets
<1>2. \A b : b \in S <=> b = c
  OBVIOUS
<1>. HIDE DEF p, q, S
<1>3. /\ p[d] # c /\ q[d] = c =>
            Cardinality(Where(Weak, q, S)) = Cardinality(Where(Weak, p, S)) + 1
      /\ p[d] = c /\ q[d] # c =>
            Cardinality(Where(Weak, q, S)) = Cardinality(Where(Weak, p, S)) - 1
      /\ (p[d] = c <=> q[d] = c) =>
            Cardinality(Where(Weak, q, S)) = Cardinality(Where(Weak, p, S))
  BY <1>1, <1>2, CountMove
<1>. QED
  BY <1>3 DEF p, q, S

(* A claim passes from one pointer to another. *)
LEMMA CountPass ==
    ASSUME NEW D, IsFiniteSet(D), NEW p, NEW q, NEW S, NEW d \in D, NEW s \in D, d # s,
           p[d] \notin S, q[s] \notin S, q[d] = p[s],
           \A e \in D : e # d /\ e # s => q[e] = p[e]
    PROVE  Cardinality(Where(D, q, S)) = Cardinality(Where(D, p, S))
<1>. DEFINE h == [e \in D |-> IF e = d THEN p[s] ELSE p[e]]
<1>1. /\ \A e \in D \ {d} : h[e] = p[e]
      /\ h[d] = p[s]
      /\ \A e \in D \ {s} : q[e] = h[e]
  OBVIOUS
<1>. HIDE DEF h
<1>3. CASE p[s] \in S
  <2>1. p[d] \notin S /\ h[d] \in S /\ h[s] \in S /\ q[s] \notin S
    BY <1>1, <1>3
  <2>2. Cardinality(Where(D, h, S)) = Cardinality(Where(D, p, S)) + 1
    BY <1>1, <2>1, CountMove
  <2>3. Cardinality(Where(D, q, S)) = Cardinality(Where(D, h, S)) - 1
    BY <1>1, <2>1, CountMove
  <2>4. Cardinality(Where(D, p, S)) \in Nat
    BY WhereFinite
  <2>. QED
    BY <2>2, <2>3, <2>4
<1>4. CASE p[s] \notin S
  <2>1. p[d] \notin S /\ h[d] \notin S /\ h[s] \notin S /\ q[s] \notin S
    BY <1>1, <1>4
  <2>2. Cardinality(Where(D, h, S)) = Cardinality(Where(D, p, S))
    BY <1>1, <2>1, CountMove
  <2>3. Cardinality(Where(D, q, S)) = Cardinality(Where(D, h, S))
    BY <1>1, <2>1, CountMove
  <2>. QED
    BY <2>2, <2>3
<1>. QED
  BY <1>3, <1>4

(* A step that changes no number of claims. *)
LEMMA ClaimsSame ==
    ASSUME Inv,
           \A c \in Controllers :
              /\ Cardinality(Where(Strong, own', {c})) = Cardinality(Where(Strong, own, {c}))
              /\ Cardinality(Where(Weak, obs', {c})) = Cardinality(Where(Weak, obs, {c})),
           \A t \in Threads : /\ dying'[t] = dying[t] /\ deleting'[t] = deleting[t]
                              /\ dying[t] # Null => pc'[t] = pc[t],
           UNCHANGED <<strong_count, weak_count, object, controller>>
    PROVE  Counted' /\ Lives'
<1>1. \A c \in Controllers : /\ Owned(c)' <=> Owned(c)
                             /\ Observed(c)' <=> Observed(c)
                             /\ Dying(c)' <=> Dying(c)
                             /\ Deleting(c)' <=> Deleting(c)
  <2>. SUFFICES ASSUME NEW c \in Controllers
                PROVE  /\ Owned(c)' <=> Owned(c)
                       /\ Observed(c)' <=> Observed(c)
                       /\ Dying(c)' <=> Dying(c)
                       /\ Deleting(c)' <=> Deleting(c)
    OBVIOUS
  <2>1. Dying(c)' <=> Dying(c)
    BY DEF Dying
  <2>2. Deleting(c)' <=> Deleting(c)
    BY DEF Deleting
  <2>3. Owned(c)' <=> Owned(c)
    BY NoClaims DEF Owned
  <2>4. Observed(c)' <=> Observed(c)
    BY NoClaims DEF Observed
  <2>. QED
    BY <2>1, <2>2, <2>3, <2>4
<1>2. Counted'
  BY <1>1 DEF Inv, Counted
<1>3. Lives'
  <2>1. \A c \in Controllers, t \in Threads :
           dying'[t] = c /\ pc'[t] = "destroy_object" <=> dying[t] = c /\ pc[t] = "destroy_object"
    BY SlotSets
  <2>. QED
    BY <1>1, <2>1 DEF Inv, Lives
<1>. QED
  BY <1>2, <1>3

(* A strong claim is added to others. *)
LEMMA ClaimAdded ==
    ASSUME Inv, NEW d \in Strong, NEW c \in Controllers, own[d] = Null, own'[d] = c, Owned(c),
           \A s \in Strong \ {d} : own'[s] = own[s],
           \A s \in Weak : obs'[s] = obs[s],
           \A t \in Threads : /\ dying'[t] = dying[t] /\ deleting'[t] = deleting[t]
                              /\ dying[t] # Null => pc'[t] = pc[t],
           strong_count' = [strong_count EXCEPT ![c] = @ + 1],
           UNCHANGED <<weak_count, object, controller>>
    PROVE  Counted' /\ Lives'
<1>2. /\ Cardinality(Where(Strong, own', {c})) = Cardinality(Where(Strong, own, {c})) + 1
      /\ \A b \in Controllers \ {c} :
            Cardinality(Where(Strong, own', {b})) = Cardinality(Where(Strong, own, {b}))
  <2>1. c # Null
    BY SlotSets
  <2>2. Cardinality(Where(Strong, own', {c})) = Cardinality(Where(Strong, own, {c})) + 1
    BY <2>1, OwnMove
  <2>3. ASSUME NEW b \in Controllers \ {c}
        PROVE  Cardinality(Where(Strong, own', {b})) = Cardinality(Where(Strong, own, {b}))
    <3>1. own[d] # b /\ own'[d] # b
      BY SlotSets
    <3>. QED
      BY <3>1, OwnMove
  <2>. QED
    BY <2>2, <2>3
<1>3. \A b : Where(Weak, obs', {b}) = Where(Weak, obs, {b})
  BY DEF Where
<1>4. \A b \in Controllers : /\ Owned(b)' <=> Owned(b)
                             /\ Observed(b)' <=> Observed(b)
                             /\ Dying(b)' <=> Dying(b)
                             /\ Deleting(b)' <=> Deleting(b)
  <2>. SUFFICES ASSUME NEW b \in Controllers
                PROVE  /\ Owned(b)' <=> Owned(b)
                       /\ Observed(b)' <=> Observed(b)
                       /\ Dying(b)' <=> Dying(b)
                       /\ Deleting(b)' <=> Deleting(b)
    OBVIOUS
  <2>1. Owned(b)' <=> Owned(b)
    BY SlotSets DEF Owned
  <2>. QED
    BY <2>1 DEF Observed, Dying, Deleting
<1>5. Counted'
  <2>1. strong_count'[c] = strong_count[c] + 1 /\ \A b \in Controllers \ {c} : strong_count'[b] = strong_count[b]
    BY DEF Inv, TypeOK
  <2>2. \A b \in Controllers : /\ strong_count[b] = Cardinality(Where(Strong, own, {b}))
                               /\ weak_count[b] = Cardinality(Where(Weak, obs, {b}))
                                                  + IF Owned(b) \/ Dying(b) THEN 1 ELSE 0
    BY DEF Inv, Counted
  <2>3. \A b \in Controllers : strong_count'[b] = Cardinality(Where(Strong, own', {b}))
    BY <1>2, <2>1, <2>2
  <2>4. \A b \in Controllers : weak_count'[b] = Cardinality(Where(Weak, obs', {b}))
                                               + IF Owned(b)' \/ Dying(b)' THEN 1 ELSE 0
    <3>. SUFFICES ASSUME NEW b \in Controllers
                  PROVE  weak_count'[b] = Cardinality(Where(Weak, obs', {b}))
                                          + IF Owned(b)' \/ Dying(b)' THEN 1 ELSE 0
      OBVIOUS
    <3>1. weak_count'[b] = weak_count[b] /\ Where(Weak, obs', {b}) = Where(Weak, obs, {b})
      BY <1>3
    <3>2. (Owned(b)' \/ Dying(b)') <=> (Owned(b) \/ Dying(b))
      BY <1>4
    <3>. QED
      BY <2>2, <3>1, <3>2
  <2>. QED
    BY <2>3, <2>4 DEF Counted
<1>6. Lives'
  <2>1. \A b \in Controllers, t \in Threads :
           dying'[t] = b /\ pc'[t] = "destroy_object" <=> dying[t] = b /\ pc[t] = "destroy_object"
    BY SlotSets
  <2>. QED
    BY <1>4, <2>1 DEF Inv, Lives
<1>. QED
  BY <1>5, <1>6

(* A weak claim is added to a controller that some pointer has a claim on. *)
LEMMA WeakClaimAdded ==
    ASSUME Inv, NEW d \in Weak, NEW c \in Controllers, obs[d] = Null, obs'[d] = c,
           Owned(c) \/ Observed(c),
           \A s \in Strong : own'[s] = own[s],
           \A s \in Weak \ {d} : obs'[s] = obs[s],
           \A t \in Threads : /\ dying'[t] = dying[t] /\ deleting'[t] = deleting[t]
                              /\ dying[t] # Null => pc'[t] = pc[t],
           weak_count' = [weak_count EXCEPT ![c] = @ + 1],
           UNCHANGED <<strong_count, object, controller>>
    PROVE  Counted' /\ Lives'
<1>2. /\ Cardinality(Where(Weak, obs', {c})) = Cardinality(Where(Weak, obs, {c})) + 1
      /\ Cardinality(Where(Weak, obs, {c})) \in Nat
      /\ \A b \in Controllers \ {c} :
            Cardinality(Where(Weak, obs', {b})) = Cardinality(Where(Weak, obs, {b}))
  <2>1. c # Null
    BY SlotSets
  <2>2. Cardinality(Where(Weak, obs', {c})) = Cardinality(Where(Weak, obs, {c})) + 1
    BY <2>1, ObsMove
  <2>3. ASSUME NEW b \in Controllers \ {c}
        PROVE  Cardinality(Where(Weak, obs', {b})) = Cardinality(Where(Weak, obs, {b}))
    <3>1. obs[d] # b /\ obs'[d] # b
      BY SlotSets
    <3>. QED
      BY <3>1, ObsMove
  <2>. QED
    BY <2>2, <2>3, NoClaims
<1>3. \A b : Where(Strong, own', {b}) = Where(Strong, own, {b})
  BY DEF Where
<1>4. \A b \in Controllers : /\ Owned(b)' <=> Owned(b)
                             /\ Observed(b)' <=> Observed(b) \/ b = c
                             /\ Dying(b)' <=> Dying(b)
                             /\ Deleting(b)' <=> Deleting(b)
  <2>. SUFFICES ASSUME NEW b \in Controllers
                PROVE  /\ Owned(b)' <=> Owned(b)
                       /\ Observed(b)' <=> Observed(b) \/ b = c
                       /\ Dying(b)' <=> Dying(b)
                       /\ Deleting(b)' <=> Deleting(b)
    OBVIOUS
  <2>1. Observed(b)' <=> Observed(b) \/ b = c
    BY SlotSets DEF Observed
  <2>. QED
    BY <2>1 DEF Owned, Dying, Deleting
<1>5. Counted'
  <2>1. weak_count'[c] = weak_count[c] + 1 /\ \A b \in Controllers \ {c} : weak_count'[b] = weak_count[b]
    BY DEF Inv, TypeOK
  <2>2. ASSUME NEW b \in Controllers
        PROVE  /\ strong_count'[b] = Cardinality(Where(Strong, own', {b}))
               /\ weak_count'[b] = Cardinality(Where(Weak, obs', {b}))
                                   + IF Owned(b)' \/ Dying(b)' THEN 1 ELSE 0
    <3>1. /\ strong_count[b] = Cardinality(Where(Strong, own, {b}))
          /\ weak_count[b] = Cardinality(Where(Weak, obs, {b})) + IF Owned(b) \/ Dying(b) THEN 1 ELSE 0
          /\ Cardinality(Where(Weak, obs, {b})) \in Nat
      BY NoClaims DEF Inv, Counted
    <3>2. (Owned(b)' \/ Dying(b)') <=> (Owned(b) \/ Dying(b))
      BY <1>4
    <3>3. CASE b = c
      <4>1. /\ weak_count'[b] = weak_count[b] + 1
            /\ Cardinality(Where(Weak, obs', {b})) = Cardinality(Where(Weak, obs, {b})) + 1
        BY <1>2, <2>1, <3>3
      <4>2. weak_count'[b] = Cardinality(Where(Weak, obs', {b}))
                             + IF Owned(b)' \/ Dying(b)' THEN 1 ELSE 0
        BY <3>1, <3>2, <4>1
      <4>. QED
        BY <1>3, <3>1, <4>2
    <3>4. CASE b # c
      BY <1>2, <1>3, <2>1, <3>1, <3>2, <3>4
    <3>. QED
      BY <3>3, <3>4
  <2>. QED
    BY <2>2 DEF Counted
<1>6. Lives'
  <2>1. \A b \in Controllers, t \in Threads :
           dying'[t] = b /\ pc'[t] = "destroy_object" <=> dying[t] = b /\ pc[t] = "destroy_object"
    BY SlotSets
  <2>. QED
    BY <1>4, <2>1 DEF Inv, Lives
<1>. QED
  BY <1>5, <1>6

(* The first claim on a new controller. *)
LEMMA ClaimCreated ==
    ASSUME Inv, NEW d \in Strong, NEW c \in Controllers, own[d] = Null, own'[d] = c,
           CreateController(c),
           \A s \in Strong \ {d} : own'[s] = own[s],
           \A s \in Weak : obs'[s] = obs[s],
           \A t \in Threads : /\ dying'[t] = dying[t] /\ deleting'[t] = deleting[t]
                              /\ dying[t] # Null => pc'[t] = pc[t]
    PROVE  Counted' /\ Lives'
<1>2. /\ ~Owned(c) /\ ~Observed(c) /\ ~Dying(c) /\ ~Deleting(c)
      /\ controller[c] = "none"
  BY DEF CreateController, Unborn, Inv, Lives
<1>3. /\ Cardinality(Where(Strong, own', {c})) = 1
      /\ \A b \in Controllers \ {c} :
            Cardinality(Where(Strong, own', {b})) = Cardinality(Where(Strong, own, {b}))
  <2>1. Cardinality(Where(Strong, own, {c})) = 0
    BY <1>2, NoClaims
  <2>2. Cardinality(Where(Strong, own', {c})) = Cardinality(Where(Strong, own, {c})) + 1
    BY OwnMove, SlotSets
  <2>3. \A b \in Controllers \ {c} :
            Cardinality(Where(Strong, own', {b})) = Cardinality(Where(Strong, own, {b}))
    BY OwnMove, SlotSets
  <2>. QED
    BY <2>1, <2>2, <2>3
<1>4. /\ \A b : Where(Weak, obs', {b}) = Where(Weak, obs, {b})
      /\ Cardinality(Where(Weak, obs, {c})) = 0
  <2>1. \A b : Where(Weak, obs', {b}) = Where(Weak, obs, {b})
    BY DEF Where
  <2>. QED
    BY <1>2, <2>1, NoClaims
<1>5. \A b \in Controllers : /\ Owned(b)' <=> Owned(b) \/ b = c
                             /\ Observed(b)' <=> Observed(b)
                             /\ Dying(b)' <=> Dying(b)
                             /\ Deleting(b)' <=> Deleting(b)
  <2>. SUFFICES ASSUME NEW b \in Controllers
                PROVE  /\ Owned(b)' <=> Owned(b) \/ b = c
                       /\ Observed(b)' <=> Observed(b)
                       /\ Dying(b)' <=> Dying(b)
                       /\ Deleting(b)' <=> Deleting(b)
    OBVIOUS
  <2>1. Owned(b)' <=> Owned(b) \/ b = c
    BY SlotSets DEF Owned
  <2>. QED
    BY <2>1 DEF Observed, Dying, Deleting
<1>6. /\ strong_count'[c] = 1 /\ weak_count'[c] = 1 /\ object'[c] = "alive" /\ controller'[c] = "alive"
      /\ \A b \in Controllers \ {c} : /\ strong_count'[b] = strong_count[b] /\ weak_count'[b] = weak_count[b]
                                      /\ object'[b] = object[b] /\ controller'[b] = controller[b]
  BY DEF CreateController, Inv, TypeOK
<1>7. Counted'
  <2>1. ASSUME NEW b \in Controllers
        PROVE  /\ strong_count'[b] = Cardinality(Where(Strong, own', {b}))
               /\ weak_count'[b] = Cardinality(Where(Weak, obs', {b}))
                                   + IF Owned(b)' \/ Dying(b)' THEN 1 ELSE 0
    <3>1. CASE b = c
      <4>1. Owned(b)'
        BY <1>5, <3>1
      <4>. QED
        BY <1>3, <1>4, <1>6, <3>1, <4>1
    <3>2. CASE b # c
      <4>1. (Owned(b)' \/ Dying(b)') <=> (Owned(b) \/ Dying(b))
        BY <1>5, <3>2
      <4>2. /\ strong_count[b] = Cardinality(Where(Strong, own, {b}))
            /\ weak_count[b] = Cardinality(Where(Weak, obs, {b})) + IF Owned(b) \/ Dying(b) THEN 1 ELSE 0
        BY DEF Inv, Counted
      <4>. QED
        BY <1>3, <1>4, <1>6, <3>2, <4>1, <4>2
    <3>. QED
      BY <3>1, <3>2
  <2>. QED
    BY <2>1 DEF Counted
<1>8. Lives'
  <2>1. \A b \in Controllers, t \in Threads :
           dying'[t] = b /\ pc'[t] = "destroy_object" <=> dying[t] = b /\ pc[t] = "destroy_object"
    BY SlotSets
  <2>. QED
    BY <1>2, <1>5, <1>6, <2>1 DEF Inv, Lives
<1>. QED
  BY <1>7, <1>8

(* A strong claim is dropped; whoever drops the last one gets the weak reference of
   them all. *)
LEMMA ClaimDropped ==
    ASSUME Inv, NEW t \in Threads, NEW d \in Strong, NEW c \in Controllers,
           own[d] = c, own'[d] = Null, dying[t] = Null,
           dying'[t] = IF strong_count[c] = 1 THEN c ELSE Null,
           strong_count[c] = 1 => pc'[t] = "destroy_object",
           \A s \in Strong \ {d} : own'[s] = own[s],
           \A s \in Weak : obs'[s] = obs[s],
           \A u \in Threads \ {t} : dying'[u] = dying[u] /\ pc'[u] = pc[u],
           \A u \in Threads : deleting'[u] = deleting[u],
           strong_count' = [strong_count EXCEPT ![c] = @ - 1],
           UNCHANGED <<weak_count, object, controller>>
    PROVE  Counted' /\ Lives'
<1>1. /\ Cardinality(Where(Strong, own', {c})) = Cardinality(Where(Strong, own, {c})) - 1
      /\ \A b \in Controllers \ {c} :
            Cardinality(Where(Strong, own', {b})) = Cardinality(Where(Strong, own, {b}))
  <2>1. c # Null
    BY SlotSets
  <2>2. Cardinality(Where(Strong, own', {c})) = Cardinality(Where(Strong, own, {c})) - 1
    BY <2>1, OwnMove
  <2>3. ASSUME NEW b \in Controllers \ {c}
        PROVE  Cardinality(Where(Strong, own', {b})) = Cardinality(Where(Strong, own, {b}))
    <3>1. own[d] # b /\ own'[d] # b
      BY SlotSets
    <3>. QED
      BY <3>1, OwnMove
  <2>. QED
    BY <2>2, <2>3
<1>2. \A b : Where(Weak, obs', {b}) = Where(Weak, obs, {b})
  BY DEF Where
<1>3. Owned(c) /\ ~Dying(c) /\ ~Deleting(c)
  BY DEF Inv, Lives, Owned
<1>4. Owned(c)' <=> strong_count[c] # 1
  <2>1. /\ strong_count[c] = Cardinality(Where(Strong, own, {c}))
        /\ Cardinality(Where(Strong, own, {c})) \in Nat
    BY NoClaims DEF Inv, Counted
  <2>2. Cardinality(Where(Strong, own', {c})) = 0 <=> ~Owned(c)'
    BY NoClaims DEF Owned
  <2>. QED
    BY <1>1, <2>1, <2>2
<1>5. Dying(c)' <=> strong_count[c] = 1
  <2>1. \A u \in Threads : dying[u] # c
    BY <1>3 DEF Dying
  <2>. QED
    BY <2>1, SlotSets DEF Dying
<1>6. \A b \in Controllers \ {c} : /\ Owned(b)' <=> Owned(b)
                                   /\ Dying(b)' <=> Dying(b)
  BY SlotSets DEF Owned, Dying
<1>7. \A b \in Controllers : /\ Observed(b)' <=> Observed(b)
                             /\ Deleting(b)' <=> Deleting(b)
  BY DEF Observed, Deleting
<1>8. Counted'
  <2>1. ASSUME NEW b \in Controllers
        PROVE  /\ strong_count'[b] = Cardinality(Where(Strong, own', {b}))
               /\ weak_count'[b] = Cardinality(Where(Weak, obs', {b}))
                                   + IF Owned(b)' \/ Dying(b)' THEN 1 ELSE 0
    <3>1. /\ strong_count[b] = Cardinality(Where(Strong, own, {b}))
          /\ weak_count[b] = Cardinality(Where(Weak, obs, {b})) + IF Owned(b) \/ Dying(b) THEN 1 ELSE 0
      BY DEF Inv, Counted
    <3>2. (Owned(b)' \/ Dying(b)') <=> (Owned(b) \/ Dying(b))
      BY <1>3, <1>4, <1>5, <1>6
    <3>3. strong_count'[b] = Cardinality(Where(Strong, own', {b}))
      BY <1>1, <3>1 DEF Inv, TypeOK
    <3>. QED
      BY <1>2, <3>1, <3>2, <3>3
  <2>. QED
    BY <2>1 DEF Counted
<1>9. Lives'
  <2>. SUFFICES ASSUME NEW b \in Controllers
                PROVE  /\ object'[b] = "alive" <=>
                             Owned(b)' \/ \E u \in Threads : dying'[u] = b /\ pc'[u] = "destroy_object"
                       /\ controller'[b] = "alive" <=> Owned(b)' \/ Observed(b)' \/ Dying(b)' \/ Deleting(b)'
                       /\ object'[b] = "none" <=> controller'[b] = "none"
                       /\ Dying(b)' => ~Owned(b)'
                       /\ Deleting(b)' => ~Owned(b)' /\ ~Observed(b)' /\ ~Dying(b)'
                       /\ \A u, v \in Threads : dying'[u] = b /\ dying'[v] = b => u = v
                       /\ \A u, v \in Threads : deleting'[u] = b /\ deleting'[v] = b => u = v
    BY DEF Lives
  <2>1. CASE b = c
    <3>1. \A u \in Threads \ {t} : dying'[u] # c
      BY <1>3 DEF Dying
    <3>2. (\E u \in Threads : dying'[u] = c /\ pc'[u] = "destroy_object") <=> strong_count[c] = 1
      BY <3>1, SlotSets
    <3>3. \A u, v \in Threads : deleting'[u] = b /\ deleting'[v] = b => u = v
      BY DEF Inv, Lives
    <3>4. object[c] = "alive" /\ controller[c] = "alive"
      BY <1>3 DEF Inv, Lives
    <3>. QED
      BY <1>3, <1>4, <1>5, <1>7, <2>1, <3>1, <3>2, <3>3, <3>4
  <2>2. CASE b # c
    <3>1. \A u \in Threads : dying'[u] = b <=> dying[u] = b
      BY <2>2, SlotSets
    <3>2. \A u \in Threads : dying[u] = b => pc'[u] = pc[u]
      BY SlotSets
    <3>. QED
      BY <1>6, <1>7, <2>2, <3>1, <3>2 DEF Inv, Lives
  <2>. QED
    BY <2>1, <2>2
<1>. QED
  BY <1>8, <1>9

(* The thread that has dropped the last strong claim destroys the object. *)
LEMMA ObjectDestroyed ==
    ASSUME Inv, NEW t \in Threads, NEW c \in Controllers,
           dying[t] = c, pc[t] = "destroy_object", pc'[t] = "release_weak",
           \A s \in Strong : own'[s] = own[s],
           \A s \in Weak : obs'[s] = obs[s],
           \A u \in Threads \ {t} : pc'[u] = pc[u],
           \A u \in Threads : dying'[u] = dying[u] /\ deleting'[u] = deleting[u],
           object' = [object EXCEPT ![c] = "destroyed"],
           UNCHANGED <<strong_count, weak_count, controller>>
    PROVE  Counted' /\ Lives'
<1>1. \A b : /\ Where(Weak, obs', {b}) = Where(Weak, obs, {b})
             /\ Where(Strong, own', {b}) = Where(Strong, own, {b})
  BY DEF Where
<1>2. \A b \in Controllers : /\ Owned(b)' <=> Owned(b)
                             /\ Observed(b)' <=> Observed(b)
                             /\ Dying(b)' <=> Dying(b)
                             /\ Deleting(b)' <=> Deleting(b)
  BY DEF Owned, Observed, Dying, Deleting
<1>3. Counted'
  <2>1. \A b : /\ Cardinality(Where(Weak, obs', {b})) = Cardinality(Where(Weak, obs, {b}))
               /\ Cardinality(Where(Strong, own', {b})) = Cardinality(Where(Strong, own, {b}))
    BY <1>1
  <2>. QED
    BY <1>2, <2>1 DEF Inv, Counted
<1>4. Dying(c) /\ ~Owned(c) /\ \A u \in Threads \ {t} : dying[u] # c
  BY DEF Inv, Lives, Dying
<1>5. /\ object'[c] = "destroyed" /\ object[c] = "alive"
      /\ \A b \in Controllers \ {c} : object'[b] = object[b]
  BY DEF Inv, TypeOK, Lives
<1>6. Lives'
  <2>1. ~\E u \in Threads : dying'[u] = c /\ pc'[u] = "destroy_object"
    BY <1>4
  <2>2. \A b \in Controllers \ {c}, u \in Threads :
           dying'[u] = b /\ pc'[u] = "destroy_object" <=> dying[u] = b /\ pc[u] = "destroy_object"
    OBVIOUS
  <2>3. controller[c] # "none" /\ controller[c] = "alive"
    BY <1>4 DEF Inv, Lives
  <2>. QED
    BY <1>2, <1>4, <1>5, <2>1, <2>2, <2>3 DEF Inv, Lives
<1>. QED
  BY <1>3, <1>6

(* A weak reference is dropped, that of a WeakPtr or that of the strong ones; whoever
   drops the last one has the controller for itself. *)
LEMMA WeakClaimDropped ==
    ASSUME Inv, NEW t \in Threads, NEW c \in Controllers,
           deleting[t] = Null,
           deleting'[t] = IF weak_count[c] = 1 THEN c ELSE Null,
           \/ /\ \E d \in Weak : /\ obs[d] = c /\ obs'[d] = Null
                                 /\ \A s \in Weak \ {d} : obs'[s] = obs[s]
              /\ dying'[t] = dying[t] /\ dying[t] = Null
           \/ /\ dying[t] = c /\ dying'[t] = Null /\ pc[t] # "destroy_object"
              /\ \A s \in Weak : obs'[s] = obs[s],
           \A s \in Strong : own'[s] = own[s],
           \A u \in Threads \ {t} : dying'[u] = dying[u] /\ deleting'[u] = deleting[u] /\ pc'[u] = pc[u],
           weak_count' = [weak_count EXCEPT ![c] = @ - 1],
           UNCHANGED <<strong_count, object, controller>>
    PROVE  Counted' /\ Lives'
<1>1. \A b : Where(Strong, own', {b}) = Where(Strong, own, {b})
  BY DEF Where
<1>2. Observed(c) \/ Dying(c)
  BY DEF Observed, Dying
<1>3. ~Deleting(c) /\ controller[c] = "alive"
  BY <1>2 DEF Inv, Lives
<1>4. \A b \in Controllers : /\ Owned(b)' <=> Owned(b)
                             /\ b # c => (Observed(b)' <=> Observed(b))
                             /\ b # c => (Dying(b)' <=> Dying(b))
                             /\ b # c => (Deleting(b)' <=> Deleting(b))
  <2>. SUFFICES ASSUME NEW b \in Controllers
                PROVE  /\ Owned(b)' <=> Owned(b)
                       /\ b # c => (Observed(b)' <=> Observed(b))
                       /\ b # c => (Dying(b)' <=> Dying(b))
                       /\ b # c => (Deleting(b)' <=> Deleting(b))
    OBVIOUS
  <2>1. Owned(b)' <=> Owned(b)
    BY DEF Owned
  <2>2. b # c => (Observed(b)' <=> Observed(b))
    BY SlotSets DEF Observed
  <2>3. b # c => (Dying(b)' <=> Dying(b))
    BY SlotSets DEF Dying
  <2>4. b # c => (Deleting(b)' <=> Deleting(b))
    BY SlotSets DEF Deleting
  <2>. QED
    BY <2>1, <2>2, <2>3, <2>4
<1>5. /\ \A b \in Controllers \ {c} : Cardinality(Where(Weak, obs', {b})) = Cardinality(Where(Weak, obs, {b}))
      /\ \/ /\ Cardinality(Where(Weak, obs', {c})) = Cardinality(Where(Weak, obs, {c})) - 1
            /\ Dying(c)' <=> Dying(c)
         \/ /\ Cardinality(Where(Weak, obs', {c})) = Cardinality(Where(Weak, obs, {c}))
            /\ Dying(c) /\ ~Owned(c) /\ ~Dying(c)'
  <2>1. CASE /\ \E d \in Weak : /\ obs[d] = c /\ obs'[d] = Null
                                /\ \A s \in Weak \ {d} : obs'[s] = obs[s]
             /\ dying'[t] = dying[t] /\ dying[t] = Null
    <3>1. PICK d \in Weak : /\ obs[d] = c /\ obs'[d] = Null
                            /\ \A s \in Weak \ {d} : obs'[s] = obs[s]
      BY <2>1
    <3>2. Dying(c)' <=> Dying(c)
      BY <2>1 DEF Dying
    <3>3. Cardinality(Where(Weak, obs', {c})) = Cardinality(Where(Weak, obs, {c})) - 1
      <4>1. c # Null
        BY SlotSets
      <4>. QED
        BY <3>1, <4>1, ObsMove
    <3>4. ASSUME NEW b \in Controllers \ {c}
          PROVE  Cardinality(Where(Weak, obs', {b})) = Cardinality(Where(Weak, obs, {b}))
      <4>1. obs[d] # b /\ obs'[d] # b
        BY <3>1, SlotSets
      <4>. QED
        BY <3>1, <4>1, ObsMove
    <3>. QED
      BY <3>2, <3>3, <3>4
  <2>2. CASE /\ dying[t] = c /\ dying'[t] = Null
             /\ \A s \in Weak : obs'[s] = obs[s]
    <3>1. \A b : Where(Weak, obs', {b}) = Where(Weak, obs, {b})
      BY <2>2 DEF Where
    <3>2. Dying(c) /\ \A u \in Threads : dying[u] = c => u = t
      BY <2>2 DEF Dying, Inv, Lives
    <3>3. ~Owned(c) /\ ~Dying(c)'
      <4>1. ~Owned(c)
        BY <3>2 DEF Inv, Lives
      <4>2. ~Dying(c)'
        BY <2>2, <3>2, SlotSets DEF Dying
      <4>. QED
        BY <4>1, <4>2
    <3>. QED
      BY <3>1, <3>2, <3>3
  <2>. QED
    BY <2>1, <2>2
<1>6. Counted'
  <2>1. /\ weak_count'[c] = weak_count[c] - 1
        /\ \A b \in Controllers \ {c} : weak_count'[b] = weak_count[b]
    BY DEF Inv, TypeOK
  <2>2. ASSUME NEW b \in Controllers
        PROVE  weak_count'[b] = Cardinality(Where(Weak, obs', {b}))
                                + IF Owned(b)' \/ Dying(b)' THEN 1 ELSE 0
    <3>1. /\ weak_count[b] = Cardinality(Where(Weak, obs, {b})) + IF Owned(b) \/ Dying(b) THEN 1 ELSE 0
          /\ Cardinality(Where(Weak, obs, {b})) \in Nat
          /\ Cardinality(Where(Weak, obs', {b})) \in Nat
      BY NoClaims DEF Inv, Counted
    <3>2. CASE b # c
      BY <1>4, <1>5, <2>1, <3>1, <3>2
    <3>3. CASE b = c
      <4>1. Owned(b)' <=> Owned(b)
        BY <1>4
      <4>2. weak_count'[b] = weak_count[b] - 1
        BY <2>1, <3>3
      <4>3. CASE /\ Cardinality(Where(Weak, obs', {b})) = Cardinality(Where(Weak, obs, {b})) - 1
                 /\ Dying(b)' <=> Dying(b)
        BY <3>1, <4>1, <4>2, <4>3
      <4>4. CASE /\ Cardinality(Where(Weak, obs', {b})) = Cardinality(Where(Weak, obs, {b}))
                 /\ Dying(b) /\ ~Owned(b) /\ ~Dying(b)'
        BY <3>1, <4>1, <4>2, <4>4
      <4>. QED
        BY <1>5, <3>3, <4>3, <4>4
    <3>. QED
      BY <3>2, <3>3
  <2>. QED
    BY <1>1, <2>2 DEF Inv, Counted
<1>7. Deleting(c)' <=> weak_count[c] = 1
  <2>1. \A u \in Threads : deleting[u] # c
    BY <1>3 DEF Deleting
  <2>. QED
    BY <2>1, SlotSets DEF Deleting
<1>8. (weak_count[c] = 1) <=> ~Owned(c)' /\ ~Observed(c)' /\ ~Dying(c)'
  <2>1. /\ weak_count'[c] = Cardinality(Where(Weak, obs', {c})) + IF Owned(c)' \/ Dying(c)' THEN 1 ELSE 0
        /\ weak_count[c] \in Int /\ weak_count'[c] = weak_count[c] - 1
    <3>1. weak_count[c] \in Int /\ weak_count'[c] = weak_count[c] - 1
      BY DEF Inv, TypeOK
    <3>. QED
      BY <1>6, <3>1 DEF Counted
  <2>2. /\ Cardinality(Where(Weak, obs', {c})) \in Nat
        /\ Cardinality(Where(Weak, obs', {c})) = 0 <=> ~Observed(c)'
    BY NoClaims DEF Observed
  <2>. QED
    BY <2>1, <2>2
<1>9. Lives'
  <2>. SUFFICES ASSUME NEW b \in Controllers
                PROVE  /\ object'[b] = "alive" <=>
                             Owned(b)' \/ \E u \in Threads : dying'[u] = b /\ pc'[u] = "destroy_object"
                       /\ controller'[b] = "alive" <=> Owned(b)' \/ Observed(b)' \/ Dying(b)' \/ Deleting(b)'
                       /\ object'[b] = "none" <=> controller'[b] = "none"
                       /\ Dying(b)' => ~Owned(b)'
                       /\ Deleting(b)' => ~Owned(b)' /\ ~Observed(b)' /\ ~Dying(b)'
                       /\ \A u, v \in Threads : dying'[u] = b /\ dying'[v] = b => u = v
                       /\ \A u, v \in Threads : deleting'[u] = b /\ deleting'[v] = b => u = v
    BY DEF Lives
  <2>1. \A u \in Threads : dying'[u] = b => dying[u] = b /\ u # t
    BY SlotSets
  <2>2. \A u \in Threads : dying[u] = b /\ pc[u] = "destroy_object" <=>
                           dying'[u] = b /\ pc'[u] = "destroy_object"
    BY SlotSets
  <2>3. CASE b = c
    <3>1. \A u, v \in Threads : deleting'[u] = b /\ deleting'[v] = b => u = v
      BY <1>3, <2>3 DEF Deleting
    <3>2. Dying(b)' => Dying(b)
      BY <2>1 DEF Dying
    <3>. QED
      BY <1>3, <1>4, <1>7, <1>8, <2>1, <2>2, <2>3, <3>1, <3>2 DEF Inv, Lives
  <2>4. CASE b # c
    <3>1. \A u \in Threads : deleting'[u] = b <=> deleting[u] = b
      BY <2>4, SlotSets
    <3>. QED
      BY <1>4, <2>1, <2>2, <2>4, <3>1 DEF Inv, Lives
  <2>. QED
    BY <2>3, <2>4
<1>. QED
  BY <1>6, <1>9

(* The thread that has the controller for itself deletes it. *)
LEMMA ControllerDestroyed ==
    ASSUME Inv, NEW t \in Threads, NEW c \in Controllers,
           deleting[t] = c, deleting'[t] = Null,
           \A s \in Strong : own'[s] = own[s],
           \A s \in Weak : obs'[s] = obs[s],
           \A u \in Threads \ {t} : deleting'[u] = deleting[u] /\ pc'[u] = pc[u],
           \A u \in Threads : dying'[u] = dying[u], dying[t] = Null,
           controller' = [controller EXCEPT ![c] = "destroyed"],
           UNCHANGED <<strong_count, weak_count, object>>
    PROVE  Counted' /\ Lives'
<1>1. \A b : /\ Where(Weak, obs', {b}) = Where(Weak, obs, {b})
             /\ Where(Strong, own', {b}) = Where(Strong, own, {b})
  BY DEF Where
<1>2. \A b \in Controllers : /\ Owned(b)' <=> Owned(b)
                             /\ Observed(b)' <=> Observed(b)
                             /\ Dying(b)' <=> Dying(b)
  BY DEF Owned, Observed, Dying
<1>3. Counted'
  <2>1. \A b : /\ Cardinality(Where(Weak, obs', {b})) = Cardinality(Where(Weak, obs, {b}))
               /\ Cardinality(Where(Strong, own', {b})) = Cardinality(Where(Strong, own, {b}))
    BY <1>1
  <2>. QED
    BY <1>2, <2>1 DEF Inv, Counted
<1>4. Deleting(c) /\ \A u \in Threads \ {t} : deleting[u] # c
  BY DEF Inv, Lives, Deleting
<1>5. ~Owned(c) /\ ~Observed(c) /\ ~Dying(c) /\ controller[c] = "alive"
  BY <1>4 DEF Inv, Lives
<1>6. /\ ~Deleting(c)' /\ \A b \in Controllers \ {c} : Deleting(b)' <=> Deleting(b)
      /\ \A b \in Controllers, u \in Threads : deleting'[u] = b => deleting[u] = b
  BY <1>4, SlotSets DEF Deleting
<1>7. /\ controller'[c] = "destroyed"
      /\ \A b \in Controllers \ {c} : controller'[b] = controller[b]
  BY DEF Inv, TypeOK
<1>8. Lives'
  <2>1. \A b \in Controllers, u \in Threads :
           dying'[u] = b /\ pc'[u] = "destroy_object" <=> dying[u] = b /\ pc[u] = "destroy_object"
    BY SlotSets
  <2>. QED
    BY <1>2, <1>5, <1>6, <1>7, <2>1 DEF Inv, Lives
<1>. QED
  BY <1>3, <1>8

-----------------------------------------------------------------------------
(* Locations at which a thread has no claim but those of the pointers it uses. *)
Calm == {"idle", "construct", "pin_read", "pin_exchange"}

LEMMA CalmViews ==
    ASSUME Inv, NEW t \in Threads, pc[t] \in Calm, pc'[t] \in Calm, Private(t), OpsOf(t)'
    PROVE  /\ Ops'
           /\ \A s \in Strong : /\ User[s] = t => own[s] = IF built[s] THEN ref[s] ELSE Null
                                /\ User[s] = t => own'[s] = IF built'[s] THEN ref'[s] ELSE Null
                                /\ User[s] # t => own'[s] = own[s]
           /\ \A s \in Weak : /\ User[s] = t => obs[s] = IF built[s] THEN ref[s] ELSE Null
                              /\ User[s] = t => obs'[s] = IF built'[s] THEN ref'[s] ELSE Null
                              /\ User[s] # t => obs'[s] = obs[s]
           /\ \A u \in Threads : /\ dying'[u] = dying[u] /\ deleting'[u] = deleting[u]
                                 /\ dying[u] # Null => pc'[u] = pc[u]
<1>1. Ops /\ Ops'
  BY OthersKeep DEF Inv
<1>2. /\ pc[t] # "release_strong" /\ pc[t] # "release_weak" /\ pc'[t] # "release_strong" /\ pc'[t] # "release_weak"
      /\ pc[t] # "destroy_object" /\ pc'[t] # "destroy_object"
      /\ pc[t] # "destroy_controller" /\ pc'[t] # "destroy_controller"
  BY DEF Calm
<1>3. \A s \in Strong : /\ User[s] = t => own[s] = IF built[s] THEN ref[s] ELSE Null
                        /\ User[s] = t => own'[s] = IF built'[s] THEN ref'[s] ELSE Null
                        /\ User[s] # t => own'[s] = own[s]
  BY <1>1, <1>2, Views, ViewsNext, OthersKeep
<1>4. \A s \in Weak : /\ User[s] = t => obs[s] = IF built[s] THEN ref[s] ELSE Null
                      /\ User[s] = t => obs'[s] = IF built'[s] THEN ref'[s] ELSE Null
                      /\ User[s] # t => obs'[s] = obs[s]
  BY <1>1, <1>2, Views, ViewsNext, OthersKeep
<1>5. dying[t] = Null /\ dying'[t] = Null /\ deleting[t] = Null /\ deleting'[t] = Null
  BY <1>2, ThreadViews
<1>6. \A u \in Threads : /\ dying'[u] = dying[u] /\ deleting'[u] = deleting[u]
                         /\ dying[u] # Null => pc'[u] = pc[u]
  <2>1. \A u \in Threads \ {t} : dying'[u] = dying[u] /\ deleting'[u] = deleting[u] /\ pc'[u] = pc[u]
    BY <1>1, OthersKeep DEF Private
  <2>. QED
    BY <1>5, <2>1
<1>. QED
  BY <1>1, <1>3, <1>4, <1>6

(* A pointer is constructed in slot d: from nothing, from a pointer with a claim, or
   for a new object.  r is what it has a claim on. *)
LEMMA PutStep ==
    ASSUME Inv, NEW t \in Threads, pc[t] \in Calm, pc'[t] \in Calm, Private(t), OpsOf(t)',
           NEW d \in Slots, User[d] = t, ~built[d],
           \A s \in Slots \ {d} : built'[s] = built[s] /\ ref'[s] = ref[s],
           NEW r, r = IF built'[d] THEN ref'[d] ELSE Null,
           \/ r = Null /\ UNCHANGED <<strong_count, weak_count, object, controller>>
           \/ /\ r \in Controllers /\ AddRef(d, r) /\ UNCHANGED <<object, controller>>
              /\ Owned(r) \/ (d \in Weak /\ Observed(r))
           \/ r \in Controllers /\ d \in Strong /\ CreateController(r)
    PROVE  Ops' /\ Counted' /\ Lives'
<1>1. /\ Ops'
      /\ \A u \in Threads : /\ dying'[u] = dying[u] /\ deleting'[u] = deleting[u]
                            /\ dying[u] # Null => pc'[u] = pc[u]
  BY CalmViews
<1>2. /\ \A s \in Strong \ {d} : own'[s] = own[s]
      /\ d \in Strong => own[d] = Null /\ own'[d] = r
  BY CalmViews, SlotSets
<1>3. /\ \A s \in Weak \ {d} : obs'[s] = obs[s]
      /\ d \in Weak => obs[d] = Null /\ obs'[d] = r
  BY CalmViews, SlotSets
<1>4. CASE r = Null /\ UNCHANGED <<strong_count, weak_count, object, controller>>
  <2>1. /\ \A s \in Strong : own'[s] = own[s]
        /\ \A s \in Weak : obs'[s] = obs[s]
    BY <1>2, <1>3, <1>4
  <2>2. \A c : /\ Where(Strong, own', {c}) = Where(Strong, own, {c})
               /\ Where(Weak, obs', {c}) = Where(Weak, obs, {c})
    BY <2>1 DEF Where
  <2>3. \A c \in Controllers :
           /\ Cardinality(Where(Strong, own', {c})) = Cardinality(Where(Strong, own, {c}))
           /\ Cardinality(Where(Weak, obs', {c})) = Cardinality(Where(Weak, obs, {c}))
    BY <2>2
  <2>. QED
    BY <1>1, <1>4, <2>3, ClaimsSame
<1>5. CASE /\ r \in Controllers /\ AddRef(d, r) /\ UNCHANGED <<object, controller>>
           /\ Owned(r) \/ (d \in Weak /\ Observed(r))
  <2>0. r # Null
    BY <1>5, SlotSets
  <2>1. CASE d \in Strong
    <3>1. /\ strong_count' = [strong_count EXCEPT ![r] = @ + 1] /\ weak_count' = weak_count
          /\ Owned(r) /\ d \notin Weak
      BY <1>5, <2>0, <2>1, SlotSets DEF AddRef
    <3>2. \A s \in Weak : obs'[s] = obs[s]
      BY <1>3, <3>1
    <3>. QED
      BY <1>1, <1>2, <1>5, <2>1, <3>1, <3>2, ClaimAdded
  <2>2. CASE d \in Weak
    <3>1. /\ weak_count' = [weak_count EXCEPT ![r] = @ + 1] /\ strong_count' = strong_count
          /\ Owned(r) \/ Observed(r)
          /\ d \notin Strong
      BY <1>5, <2>0, <2>2, SlotSets DEF AddRef
    <3>2. \A s \in Strong : own'[s] = own[s]
      BY <1>2, <3>1
    <3>. QED
      BY <1>1, <1>3, <1>5, <2>2, <3>1, <3>2, WeakClaimAdded
  <2>. QED
    BY <1>1, <2>1, <2>2, SlotSets
<1>6. CASE r \in Controllers /\ d \in Strong /\ CreateController(r)
  <2>1. \A s \in Weak : obs'[s] = obs[s]
    BY <1>3, <1>6, SlotSets
  <2>. QED
    BY <1>1, <1>2, <1>6, <2>1, ClaimCreated
<1>. QED
  BY <1>4, <1>5, <1>6

(* What Finish does. *)
LEMMA FinishFacts ==
    ASSUME TypeOK, NEW t \in Threads, dst[t] \in Slots, User[dst[t]] = t,
           NEW b \in BOOLEAN, NEW r \in Controllers \cup {Null}, NEW o \in Controllers \cup {Null},
           Finish(t, b, r, o)
    PROVE  /\ Private(t) /\ pc'[t] = "idle"
           /\ built'[dst[t]] = b /\ ref'[dst[t]] = r /\ obj'[dst[t]] = o
           /\ \A s \in Slots \ {dst[t]} : built'[s] = built[s] /\ ref'[s] = ref[s] /\ obj'[s] = obj[s]
           /\ built' \in [Slots -> BOOLEAN]
           /\ ref' \in [Slots -> Controllers \cup {Null}]
           /\ obj' \in [Slots -> Controllers \cup {Null}]
           /\ pc' \in [Threads -> Locations]
           /\ dst' \in [Threads -> Slots \cup {Null}]
           /\ src' \in [Threads -> Slots \cup {Null}]
           /\ next' \in [Threads -> {"end", "copy", "null", "new"}]
           /\ seen' \in [Threads -> Nat]
<1>1. /\ built'[dst[t]] = b /\ ref'[dst[t]] = r /\ obj'[dst[t]] = o
      /\ \A s \in Slots \ {dst[t]} : built'[s] = built[s] /\ ref'[s] = ref[s] /\ obj'[s] = obj[s]
      /\ built' \in [Slots -> BOOLEAN]
      /\ ref' \in [Slots -> Controllers \cup {Null}]
      /\ obj' \in [Slots -> Controllers \cup {Null}]
  BY DEF Finish, TypeOK
<1>2. /\ pc'[t] = "idle"
      /\ \A u \in Threads \ {t} : /\ pc'[u] = pc[u] /\ dst'[u] = dst[u] /\ src'[u] = src[u]
                                  /\ next'[u] = next[u] /\ seen'[u] = seen[u]
  BY DEF Finish, TypeOK
<1>3. /\ pc' \in [Threads -> Locations]
      /\ dst' \in [Threads -> Slots \cup {Null}]
      /\ src' \in [Threads -> Slots \cup {Null}]
      /\ next' \in [Threads -> {"end", "copy", "null", "new"}]
      /\ seen' \in [Threads -> Nat]
  BY DEF Finish, TypeOK, Locations
<1>. QED
  BY <1>1, <1>2, <1>3 DEF Private

(* AddRef and CreateController keep the types of what they change. *)
LEMMA CountTypes ==
    ASSUME TypeOK, NEW d, NEW c \in Controllers \cup {Null}
    PROVE  /\ AddRef(d, c) => strong_count' \in [Controllers -> Nat] /\ weak_count' \in [Controllers -> Nat]
           /\ CreateController(c) => /\ strong_count' \in [Controllers -> Nat]
                                     /\ weak_count' \in [Controllers -> Nat]
                                     /\ object' \in [Controllers -> Life]
                                     /\ controller' \in [Controllers -> Life]
<1>1. AddRef(d, c) => strong_count' \in [Controllers -> Nat] /\ weak_count' \in [Controllers -> Nat]
  BY DEF AddRef, TypeOK
<1>2. CreateController(c) => /\ strong_count' \in [Controllers -> Nat]
                             /\ weak_count' \in [Controllers -> Nat]
                             /\ object' \in [Controllers -> Life]
                             /\ controller' \in [Controllers -> Life]
  <2>. SUFFICES ASSUME CreateController(c)
                PROVE  /\ strong_count' \in [Controllers -> Nat]
                       /\ weak_count' \in [Controllers -> Nat]
                       /\ object' \in [Controllers -> Life]
                       /\ controller' \in [Controllers -> Life]
    OBVIOUS
  <2>1. strong_count' \in [Controllers -> Nat] /\ weak_count' \in [Controllers -> Nat]
    BY DEF CreateController, TypeOK
  <2>2. "alive" \in Life
    BY DEF Life
  <2>3. object' \in [Controllers -> Life] /\ controller' \in [Controllers -> Life]
    BY <2>2 DEF CreateController, TypeOK
  <2>. QED
    BY <2>1, <2>3
<1>. QED
  BY <1>1, <1>2

(* A pointer that is constructed and has a controller has a claim on it. *)
LEMMA BuiltClaims ==
    ASSUME Inv, NEW s \in Slots, built[s], ref[s] # Null
    PROVE  /\ ref[s] \in Controllers
           /\ s \in Strong => Owned(ref[s])
           /\ s \in Weak => Observed(ref[s])
BY Views DEF Inv, TypeOK, Owned, Observed

-----------------------------------------------------------------------------
(* The operations that are one step of a thread: the constructors that do not pin. *)
LEMMA ConstructorStep ==
    ASSUME Inv, NEW t \in Threads, NEW d \in Slots,
           \/ CreateEmpty(t, d)
           \/ \E c \in Controllers : Create(t, d, c)
           \/ \E s \in Slots : Copy(t, d, s) \/ (Pin(t, d, s) /\ ref[s] = Null)
    PROVE  Inv'
<1>. DEFINE Made(r, o) == /\ built' = [built EXCEPT ![d] = TRUE]
                          /\ ref' = [ref EXCEPT ![d] = r]
                          /\ obj' = [obj EXCEPT ![d] = o]
            Counts(r) == \/ r = Null /\ UNCHANGED <<strong_count, weak_count, object, controller>>
                         \/ /\ r \in Controllers /\ AddRef(d, r) /\ UNCHANGED <<object, controller>>
                            /\ Owned(r) \/ (d \in Weak /\ Observed(r))
                         \/ r \in Controllers /\ d \in Strong /\ CreateController(r)
            Good(r, o) == /\ Made(r, o) /\ Counts(r)
                          /\ r \in Controllers \cup {Null} /\ o \in Controllers \cup {Null}
                          /\ r # Null => o = r
            Ok == \E r, o : Good(r, o)
<1>1. pc[t] = "idle" /\ User[d] = t /\ ~built[d] /\ UNCHANGED locals
  BY DEF CreateEmpty, Create, Copy, Pin, Idle, locals
<1>2. ASSUME CreateEmpty(t, d) PROVE Ok
  <2>1. Good(Null, Null)
    BY <1>2 DEF CreateEmpty, counts, lives
  <2>. QED
    BY <2>1
<1>3. ASSUME NEW c \in Controllers, Create(t, d, c) PROVE Ok
  <2>1. Good(c, c)
    BY <1>3 DEF Create
  <2>. QED
    BY <2>1
<1>4. ASSUME NEW s \in Slots, Copy(t, d, s) PROVE Ok
  <2>1. /\ built[s] /\ (d \in Weak \/ s \in Strong) /\ Made(ref[s], obj[s])
        /\ AddRef(d, ref[s]) /\ UNCHANGED <<object, controller>>
    BY <1>4 DEF Copy, lives
  <2>2. ref[s] \in Controllers \cup {Null} /\ obj[s] \in Controllers \cup {Null} /\ (ref[s] # Null => obj[s] = ref[s])
    BY DEF Inv, TypeOK, Objs
  <2>3. Counts(ref[s])
    <3>1. CASE ref[s] = Null
      BY <2>1, <3>1 DEF AddRef
    <3>2. CASE ref[s] # Null
      BY <2>1, <3>2, BuiltClaims, SlotSets
    <3>. QED
      BY <3>1, <3>2
  <2>4. Good(ref[s], obj[s])
    BY <2>1, <2>2, <2>3
  <2>. QED
    BY <2>4
<1>5. ASSUME NEW s \in Slots, Pin(t, d, s), ref[s] = Null PROVE Ok
  <2>1. Good(Null, Null)
    BY <1>5 DEF Pin, counts, lives
  <2>. QED
    BY <2>1
<1>6. Ok
  <2>. HIDE DEF Ok
  <2>. QED
    BY <1>2, <1>3, <1>4, <1>5
<1>7. PICK r, o : Good(r, o)
  BY <1>6
<1>8. /\ built'[d] = TRUE /\ ref'[d] = r /\ obj'[d] = o
      /\ \A s \in Slots \ {d} : built'[s] = built[s] /\ ref'[s] = ref[s] /\ obj'[s] = obj[s]
      /\ UNCHANGED <<pc, dst, src, next, seen>>
  BY <1>1, <1>7 DEF Inv, TypeOK, locals
<1>9. TypeOK'
  <2>1. /\ built' \in [Slots -> BOOLEAN]
        /\ ref' \in [Slots -> Controllers \cup {Null}]
        /\ obj' \in [Slots -> Controllers \cup {Null}]
    BY <1>7 DEF Inv, TypeOK
  <2>2. /\ strong_count' \in [Controllers -> Nat] /\ weak_count' \in [Controllers -> Nat]
        /\ object' \in [Controllers -> Life] /\ controller' \in [Controllers -> Life]
    BY <1>7, CountTypes DEF Inv, TypeOK
  <2>. QED
    BY <1>8, <2>1, <2>2 DEF Inv, TypeOK
<1>10. Objs'
  BY <1>7, <1>8 DEF Inv, Objs
<1>11. Private(t) /\ OpsOf(t)' /\ pc[t] \in Calm /\ pc'[t] \in Calm
  BY <1>1, <1>8 DEF Private, OpsOf, Calm
<1>12. Counts(r) /\ r = IF built'[d] THEN ref'[d] ELSE Null
  BY <1>7, <1>8
<1>13. Ops' /\ Counted' /\ Lives'
  BY <1>1, <1>8, <1>11, <1>12, PutStep
<1>. QED
  BY <1>9, <1>10, <1>13 DEF Inv

(* The move constructor: the claim passes from one slot to the other. *)
LEMMA MoveStep ==
    ASSUME Inv, NEW t \in Threads, NEW d \in Slots, NEW s \in Slots, MoveTo(t, d, s)
    PROVE  Inv'
<1>1. /\ pc[t] = "idle" /\ User[d] = t /\ User[s] = t /\ ~built[d] /\ built[s] /\ d # s
      /\ d \in Weak <=> s \in Weak
      /\ UNCHANGED <<strong_count, weak_count, object, controller, pc, dst, src, next, seen>>
  BY DEF MoveTo, Idle, counts, lives, locals
<1>2. /\ built'[d] = TRUE /\ ref'[d] = ref[s] /\ ref'[s] = Null /\ obj'[d] = obj[s]
      /\ \A r \in Slots \ {d} : built'[r] = built[r] /\ obj'[r] = obj[r]
      /\ \A r \in Slots \ {d, s} : ref'[r] = ref[r]
  BY <1>1 DEF MoveTo, Inv, TypeOK
<1>3. TypeOK'
  <2>1. /\ built' \in [Slots -> BOOLEAN]
        /\ ref' \in [Slots -> Controllers \cup {Null}]
        /\ obj' \in [Slots -> Controllers \cup {Null}]
    BY DEF MoveTo, Inv, TypeOK
  <2>. QED
    BY <1>1, <2>1 DEF Inv, TypeOK
<1>4. Objs'
  BY <1>1, <1>2 DEF Inv, Objs
<1>5. Private(t) /\ OpsOf(t)' /\ pc[t] \in Calm /\ pc'[t] \in Calm
  BY <1>1, <1>2 DEF Private, OpsOf, Calm
<1>6. /\ Ops'
      /\ \A u \in Threads : /\ dying'[u] = dying[u] /\ deleting'[u] = deleting[u]
                            /\ dying[u] # Null => pc'[u] = pc[u]
  BY <1>5, CalmViews
<1>7. \A c \in Controllers :
         /\ Cardinality(Where(Strong, own', {c})) = Cardinality(Where(Strong, own, {c}))
         /\ Cardinality(Where(Weak, obs', {c})) = Cardinality(Where(Weak, obs, {c}))
  <2>1. CASE s \in Strong
    <3>1. d \in Strong /\ d \notin Weak /\ s \notin Weak
      BY <1>1, <2>1, SlotSets
    <3>2. /\ own[d] = Null /\ own'[d] = own[s] /\ own'[s] = Null
          /\ \A r \in Strong \ {d, s} : own'[r] = own[r]
      BY <1>1, <1>2, <1>5, <2>1, <3>1, CalmViews, SlotSets
    <3>3. \A r \in Weak : obs'[r] = obs[r]
      BY <1>1, <1>2, <1>5, <3>1, CalmViews, SlotSets
    <3>4. \A c : Where(Weak, obs', {c}) = Where(Weak, obs, {c})
      BY <3>3 DEF Where
    <3>5. ASSUME NEW c \in Controllers
          PROVE  Cardinality(Where(Strong, own', {c})) = Cardinality(Where(Strong, own, {c}))
      <4>. DEFINE p == own
                  q == own'
                  S == {c}
      <4>1. /\ IsFiniteSet(Strong) /\ d \in Strong /\ s \in Strong /\ d # s
            /\ p[d] \notin S /\ q[s] \notin S /\ q[d] = p[s]
            /\ \A e \in Strong : e # d /\ e # s => q[e] = p[e]
        BY <1>1, <2>1, <3>1, <3>2, SlotSets
      <4>. HIDE DEF p, q, S
      <4>2. Cardinality(Where(Strong, q, S)) = Cardinality(Where(Strong, p, S))
        BY <4>1, CountPass
      <4>. QED
        BY <4>2 DEF p, q, S
    <3>. QED
      BY <3>4, <3>5
  <2>2. CASE s \in Weak
    <3>1. d \in Weak /\ d \notin Strong /\ s \notin Strong
      BY <1>1, <2>2, SlotSets
    <3>2. /\ obs[d] = Null /\ obs'[d] = obs[s] /\ obs'[s] = Null
          /\ \A r \in Weak \ {d, s} : obs'[r] = obs[r]
      BY <1>1, <1>2, <1>5, <2>2, <3>1, CalmViews, SlotSets
    <3>3. \A r \in Strong : own'[r] = own[r]
      BY <1>1, <1>2, <1>5, <3>1, CalmViews, SlotSets
    <3>4. \A c : Where(Strong, own', {c}) = Where(Strong, own, {c})
      BY <3>3 DEF Where
    <3>5. ASSUME NEW c \in Controllers
          PROVE  Cardinality(Where(Weak, obs', {c})) = Cardinality(Where(Weak, obs, {c}))
      <4>. DEFINE p == obs
                  q == obs'
                  S == {c}
      <4>1. /\ IsFiniteSet(Weak) /\ d \in Weak /\ s \in Weak /\ d # s
            /\ p[d] \notin S /\ q[s] \notin S /\ q[d] = p[s]
            /\ \A e \in Weak : e # d /\ e # s => q[e] = p[e]
        BY <1>1, <2>2, <3>1, <3>2, SlotSets
      <4>. HIDE DEF p, q, S
      <4>2. Cardinality(Where(Weak, q, S)) = Cardinality(Where(Weak, p, S))
        BY <4>1, CountPass
      <4>. QED
        BY <4>2 DEF p, q, S
    <3>. QED
      BY <3>4, <3>5
  <2>. QED
    BY <2>1, <2>2, SlotSets
<1>8. Counted' /\ Lives'
  BY <1>1, <1>6, <1>7, ClaimsSame
<1>. QED
  BY <1>3, <1>4, <1>6, <1>8 DEF Inv

(* WeakPtr::Pin begins. *)
LEMMA PinStep ==
    ASSUME Inv, NEW t \in Threads, NEW d \in Slots, NEW s \in Slots, Pin(t, d, s), ref[s] # Null
    PROVE  Inv'
<1>1. /\ pc[t] = "idle" /\ User[d] = t /\ User[s] = t /\ ~built[d] /\ built[s]
      /\ d \in Strong /\ s \in Weak
      /\ UNCHANGED <<built, ref, obj, strong_count, weak_count, object, controller, next, seen>>
      /\ pc' = [pc EXCEPT ![t] = "pin_read"]
      /\ dst' = [dst EXCEPT ![t] = d] /\ src' = [src EXCEPT ![t] = s]
  BY DEF Pin, Idle, counts, lives, slots
<1>2. /\ pc'[t] = "pin_read" /\ dst'[t] = d /\ src'[t] = s
      /\ \A u \in Threads \ {t} : pc'[u] = pc[u] /\ dst'[u] = dst[u] /\ src'[u] = src[u]
  BY <1>1 DEF Inv, TypeOK
<1>3. TypeOK'
  BY <1>1 DEF Inv, TypeOK, Locations
<1>4. Objs'
  BY <1>1 DEF Inv, Objs
<1>5. Private(t) /\ OpsOf(t)' /\ pc[t] \in Calm /\ pc'[t] \in Calm
  BY <1>1, <1>2 DEF Private, OpsOf, Calm
<1>6. Null = IF built'[d] THEN ref'[d] ELSE Null
  BY <1>1
<1>7. Ops' /\ Counted' /\ Lives'
  BY <1>1, <1>5, <1>6, PutStep
<1>. QED
  BY <1>3, <1>4, <1>7 DEF Inv

(* ... reads the count ... *)
LEMMA PinReadStep ==
    ASSUME Inv, NEW t \in Threads, PinRead(t)
    PROVE  Inv'
<1>. DEFINE d == dst[t]
<1>1. /\ pc[t] = "pin_read" /\ d \in Slots /\ User[d] = t /\ ~built[d]
      /\ src[t] \in Weak /\ User[src[t]] = t /\ built[src[t]] /\ ref[src[t]] # Null /\ d \in Strong
      /\ UNCHANGED <<strong_count, weak_count, object, controller>>
  BY DEF PinRead, Inv, Ops, OpsOf, counts, lives
<1>2. CASE strong_count[ref[src[t]]] = 0
  <2>1. Finish(t, TRUE, Null, Null)
    BY <1>2 DEF PinRead
  <2>. DEFINE n == Null
              b == TRUE
  <2>9. b \in BOOLEAN /\ n \in Controllers \cup {Null} /\ Finish(t, b, n, n) /\ TypeOK
    BY <2>1 DEF Inv
  <2>. HIDE DEF n, b, d
  <2>2. /\ Private(t) /\ pc'[t] = "idle"
        /\ built'[d] = TRUE /\ ref'[d] = Null /\ obj'[d] = Null
        /\ \A s \in Slots \ {d} : built'[s] = built[s] /\ ref'[s] = ref[s] /\ obj'[s] = obj[s]
    <3>1. /\ Private(t) /\ pc'[t] = "idle"
          /\ built'[d] = b /\ ref'[d] = n /\ obj'[d] = n
          /\ \A s \in Slots \ {d} : built'[s] = built[s] /\ ref'[s] = ref[s] /\ obj'[s] = obj[s]
      BY <1>1, <2>9, FinishFacts DEF d
    <3>. QED
      BY <3>1 DEF n, b
  <2>3. TypeOK'
    <3>1. /\ built' \in [Slots -> BOOLEAN]
          /\ ref' \in [Slots -> Controllers \cup {Null}]
          /\ obj' \in [Slots -> Controllers \cup {Null}]
          /\ pc' \in [Threads -> Locations]
          /\ dst' \in [Threads -> Slots \cup {Null}]
          /\ src' \in [Threads -> Slots \cup {Null}]
          /\ next' \in [Threads -> {"end", "copy", "null", "new"}]
          /\ seen' \in [Threads -> Nat]
      BY <1>1, <2>9, FinishFacts DEF d
    <3>. QED
      BY <1>1, <3>1 DEF Inv, TypeOK
  <2>4. Objs'
    BY <2>2 DEF Inv, Objs
  <2>5. OpsOf(t)' /\ pc[t] \in Calm /\ pc'[t] \in Calm
    BY <1>1, <2>2 DEF OpsOf, Calm
  <2>6. Null = IF built'[d] THEN ref'[d] ELSE Null
    BY <2>2
  <2>7. Ops' /\ Counted' /\ Lives'
    BY <1>1, <2>2, <2>5, <2>6, PutStep
  <2>. QED
    BY <2>3, <2>4, <2>7 DEF Inv
<1>3. CASE strong_count[ref[src[t]]] # 0
  <2>1. /\ pc' = [pc EXCEPT ![t] = "pin_exchange"]
        /\ seen' = [seen EXCEPT ![t] = strong_count[ref[src[t]]]]
        /\ UNCHANGED <<built, ref, obj, dst, src, next>>
    BY <1>3 DEF PinRead, slots
  <2>2. ref[src[t]] \in Controllers /\ strong_count[ref[src[t]]] \in Nat
    BY <1>1, SlotSets DEF Inv, TypeOK
  <2>3. /\ pc'[t] = "pin_exchange" /\ seen'[t] # 0
        /\ \A u \in Threads \ {t} : pc'[u] = pc[u] /\ seen'[u] = seen[u]
    BY <1>3, <2>1 DEF Inv, TypeOK
  <2>4. TypeOK'
    BY <1>1, <2>1, <2>2 DEF Inv, TypeOK, Locations
  <2>5. Objs'
    BY <2>1 DEF Inv, Objs
  <2>6. Private(t) /\ OpsOf(t)' /\ pc[t] \in Calm /\ pc'[t] \in Calm
    BY <1>1, <2>1, <2>3 DEF Private, OpsOf, Calm
  <2>7. Null = IF built'[d] THEN ref'[d] ELSE Null
    BY <1>1, <2>1
  <2>8. Ops' /\ Counted' /\ Lives'
    BY <1>1, <2>1, <2>6, <2>7, PutStep
  <2>. QED
    BY <2>4, <2>5, <2>8 DEF Inv
<1>. QED
  BY <1>2, <1>3

(* ... and exchanges it: a count that is not zero has an owner. *)
LEMMA PinExchangeStep ==
    ASSUME Inv, NEW t \in Threads, PinExchange(t)
    PROVE  Inv'
<1>. DEFINE d == dst[t]
            s == src[t]
            c == ref[src[t]]
<1>1. /\ pc[t] = "pin_exchange" /\ d \in Slots /\ User[d] = t /\ ~built[d] /\ d \in Strong
      /\ s \in Weak /\ User[s] = t /\ built[s] /\ c # Null /\ seen[t] # 0
      /\ UNCHANGED <<weak_count, object, controller>>
  BY DEF PinExchange, Inv, Ops, OpsOf, lives
<1>2. c \in Controllers /\ obj[s] = c
  BY <1>1, SlotSets DEF Inv, TypeOK, Objs
<1>3. CASE strong_count[c] = seen[t]
  <2>1. Finish(t, TRUE, c, obj[s]) /\ strong_count' = [strong_count EXCEPT ![c] = seen[t] + 1]
    BY <1>3 DEF PinExchange
  <2>. HIDE DEF d, s, c
  <2>2. Finish(t, TRUE, c, c) /\ strong_count' = [strong_count EXCEPT ![c] = @ + 1]
    BY <1>2, <1>3, <2>1
  <2>3. /\ Private(t) /\ pc'[t] = "idle"
        /\ built'[d] = TRUE /\ ref'[d] = c /\ obj'[d] = c
        /\ \A r \in Slots \ {d} : built'[r] = built[r] /\ ref'[r] = ref[r] /\ obj'[r] = obj[r]
        /\ built' \in [Slots -> BOOLEAN]
        /\ ref' \in [Slots -> Controllers \cup {Null}]
        /\ obj' \in [Slots -> Controllers \cup {Null}]
        /\ pc' \in [Threads -> Locations]
        /\ dst' \in [Threads -> Slots \cup {Null}]
        /\ src' \in [Threads -> Slots \cup {Null}]
        /\ next' \in [Threads -> {"end", "copy", "null", "new"}]
        /\ seen' \in [Threads -> Nat]
    <3>1. TypeOK /\ dst[t] = d
      BY DEF Inv, d
    <3>2. dst[t] \in Slots /\ User[dst[t]] = t /\ c \in Controllers \cup {Null}
      BY <1>1, <1>2, <3>1
    <3>. QED
      BY <2>2, <3>1, <3>2, FinishFacts, ZenonT(60)
  <2>4. AddRef(d, c) /\ UNCHANGED <<object, controller>>
    BY <1>1, <2>2, SlotSets DEF AddRef
  <2>5. TypeOK'
    BY <1>1, <1>2, <2>2, <2>3, <2>4, CountTypes DEF Inv, TypeOK
  <2>6. Objs'
    BY <2>3 DEF Inv, Objs
  <2>7. OpsOf(t)' /\ pc[t] \in Calm /\ pc'[t] \in Calm
    BY <1>1, <2>3 DEF OpsOf, Calm
  <2>8. Owned(c)
    <3>1. strong_count[c] = Cardinality(Where(Strong, own, {c}))
      BY <1>2 DEF Inv, Counted
    <3>. QED
      BY <1>1, <1>3, <3>1, NoClaims
  <2>9. c = IF built'[d] THEN ref'[d] ELSE Null
    BY <2>3
  <2>10. Ops' /\ Counted' /\ Lives'
    BY <1>1, <1>2, <2>3, <2>4, <2>7, <2>8, <2>9, PutStep
  <2>. QED
    BY <2>5, <2>6, <2>10 DEF Inv
<1>4. CASE strong_count[c] # seen[t]
  <2>1. /\ pc' = [pc EXCEPT ![t] = "pin_read"]
        /\ UNCHANGED <<built, ref, obj, strong_count, dst, src, next, seen>>
    BY <1>4 DEF PinExchange, slots
  <2>2. pc'[t] = "pin_read" /\ \A u \in Threads \ {t} : pc'[u] = pc[u]
    BY <2>1 DEF Inv, TypeOK
  <2>3. TypeOK'
    BY <1>1, <2>1 DEF Inv, TypeOK, Locations
  <2>4. Objs'
    BY <2>1 DEF Inv, Objs
  <2>5. Private(t) /\ OpsOf(t)' /\ pc[t] \in Calm /\ pc'[t] \in Calm
    BY <1>1, <2>1, <2>2 DEF Private, OpsOf, Calm
  <2>6. Null = IF built'[d] THEN ref'[d] ELSE Null
    BY <1>1, <2>1
  <2>7. Ops' /\ Counted' /\ Lives'
    BY <1>1, <2>1, <2>5, <2>6, PutStep
  <2>. QED
    BY <2>3, <2>4, <2>7 DEF Inv
<1>. QED
  BY <1>3, <1>4

(* The new referencer is constructed after the old one was released. *)
LEMMA ConstructStep ==
    ASSUME Inv, NEW t \in Threads, Construct(t)
    PROVE  Inv'
<1>. DEFINE d == dst[t]
            s == src[t]
            Counts(r) == \/ r = Null /\ UNCHANGED <<strong_count, weak_count, object, controller>>
                         \/ /\ r \in Controllers /\ AddRef(d, r) /\ UNCHANGED <<object, controller>>
                            /\ Owned(r) \/ (d \in Weak /\ Observed(r))
                         \/ r \in Controllers /\ d \in Strong /\ CreateController(r)
            Good(b, r, o) == /\ Finish(t, b, r, o) /\ Counts(IF b THEN r ELSE Null)
                             /\ b \in BOOLEAN /\ r \in Controllers \cup {Null} /\ o \in Controllers \cup {Null}
                             /\ r # Null => o = r
                             /\ TypeOK
            Ok == \E b, r, o : Good(b, r, o)
<1>1. pc[t] = "construct" /\ d \in Slots /\ User[d] = t /\ ~built[d] /\ TypeOK
  BY DEF Construct, Inv, Ops, OpsOf
<1>2. ASSUME next[t] \in {"end", "null"} PROVE Ok
  <2>1. Good(next[t] = "null", Null, Null)
    BY <1>1, <1>2 DEF Construct, counts, lives
  <2>. QED
    BY <2>1
<1>3. ASSUME next[t] = "copy" PROVE Ok
  <2>1. /\ s \in Slots /\ User[s] = t /\ built[s] /\ (d \in Weak \/ s \in Strong)
        /\ AddRef(d, ref[s]) /\ Finish(t, TRUE, ref[s], obj[s]) /\ UNCHANGED <<object, controller>>
    BY <1>1, <1>3 DEF Construct, Inv, Ops, OpsOf, lives
  <2>2. ref[s] \in Controllers \cup {Null} /\ obj[s] \in Controllers \cup {Null} /\ (ref[s] # Null => obj[s] = ref[s])
    BY <2>1 DEF Inv, TypeOK, Objs
  <2>. HIDE DEF d, s
  <2>3. Counts(ref[s])
    <3>1. CASE ref[s] = Null
      BY <2>1, <3>1 DEF AddRef
    <3>2. CASE ref[s] # Null
      BY <2>1, <3>2, BuiltClaims, SlotSets
    <3>. QED
      BY <3>1, <3>2
  <2>4. Good(TRUE, ref[s], obj[s])
    BY <1>1, <2>1, <2>2, <2>3
  <2>. QED
    BY <2>4
<1>4. ASSUME next[t] = "new", d \in Strong PROVE Ok
  <2>1. PICK c \in Controllers : CreateController(c) /\ Finish(t, TRUE, c, c)
    BY <1>4 DEF Construct
  <2>2. Good(TRUE, c, c)
    BY <1>1, <1>4, <2>1
  <2>. QED
    BY <2>2
<1>5. Ok
  <2>1. next[t] \in {"end", "null", "copy", "new"} /\ (next[t] = "new" => d \in Strong)
    BY <1>1 DEF Inv, TypeOK, Ops, OpsOf
  <2>. HIDE DEF Ok
  <2>. QED
    BY <1>2, <1>3, <1>4, <2>1
<1>6. PICK b, r, o : Good(b, r, o)
  BY <1>5
<1>. HIDE DEF Ok, d
<1>7. /\ Private(t) /\ pc'[t] = "idle"
      /\ built'[d] = b /\ ref'[d] = r /\ obj'[d] = o
      /\ \A q \in Slots \ {d} : built'[q] = built[q] /\ ref'[q] = ref[q] /\ obj'[q] = obj[q]
  BY <1>1, <1>6, FinishFacts DEF d
<1>8. TypeOK'
  <2>1. /\ strong_count' \in [Controllers -> Nat] /\ weak_count' \in [Controllers -> Nat]
        /\ object' \in [Controllers -> Life] /\ controller' \in [Controllers -> Life]
    BY <1>6, CountTypes DEF TypeOK
  <2>. QED
    BY <1>1, <1>6, <2>1, FinishFacts DEF TypeOK, d
<1>9. Objs'
  BY <1>6, <1>7 DEF Inv, Objs
<1>10. OpsOf(t)' /\ pc[t] \in Calm /\ pc'[t] \in Calm
  BY <1>1, <1>7 DEF OpsOf, Calm
<1>. DEFINE e == IF b THEN r ELSE Null
<1>11. Counts(e) /\ e = IF built'[d] THEN ref'[d] ELSE Null
  BY <1>6, <1>7
<1>. HIDE DEF e
<1>12. Ops' /\ Counted' /\ Lives'
  BY <1>1, <1>7, <1>10, <1>11, PutStep
<1>. QED
  BY <1>8, <1>9, <1>12 DEF Inv

(* DestructReferencer begins: the pointer still has its claim. *)
LEMMA ReleaseStep ==
    ASSUME Inv, NEW t \in Threads, NEW d \in Slots, NEW s, NEW n, Release(t, d, s, n),
           \/ s = Null /\ n \in {"end", "null"}
           \/ s = Null /\ n = "new" /\ d \in Strong
           \/ /\ n = "copy" /\ s \in Slots /\ User[s] = t /\ built[s] /\ d # s
              /\ d \in Weak \/ s \in Strong
    PROVE  Inv'
<1>1. /\ pc[t] = "idle" /\ User[d] = t /\ built[d]
      /\ built' = [built EXCEPT ![d] = FALSE]
      /\ dst' = [dst EXCEPT ![t] = d] /\ src' = [src EXCEPT ![t] = s] /\ next' = [next EXCEPT ![t] = n]
      /\ UNCHANGED <<ref, obj, strong_count, weak_count, object, controller, seen>>
  BY DEF Release, Idle, counts, lives
<1>2. \E l \in {"construct", "release_strong", "release_weak"} :
         /\ pc' = [pc EXCEPT ![t] = l]
         /\ l = "construct" <=> ref[d] = Null
         /\ l = "release_strong" <=> ref[d] # Null /\ d \in Strong
         /\ l = "release_weak" <=> ref[d] # Null /\ d \in Weak
  <2>1. (d \in Strong /\ d \notin Weak) \/ (d \in Weak /\ d \notin Strong)
    BY SlotSets
  <2>2. CASE ref[d] = Null
    BY <2>2 DEF Release
  <2>3. CASE ref[d] # Null /\ d \in Strong
    BY <2>1, <2>3 DEF Release
  <2>4. CASE ref[d] # Null /\ d \in Weak
    BY <2>1, <2>4 DEF Release
  <2>. QED
    BY <2>1, <2>2, <2>3, <2>4
<1>3. PICK l \in {"construct", "release_strong", "release_weak"} :
         /\ pc' = [pc EXCEPT ![t] = l]
         /\ l = "construct" <=> ref[d] = Null
         /\ l = "release_strong" <=> ref[d] # Null /\ d \in Strong
         /\ l = "release_weak" <=> ref[d] # Null /\ d \in Weak
  BY <1>2
<1>4. /\ pc'[t] = l /\ dst'[t] = d /\ src'[t] = s /\ next'[t] = n
      /\ \A u \in Threads \ {t} : pc'[u] = pc[u] /\ dst'[u] = dst[u] /\ src'[u] = src[u] /\ next'[u] = next[u]
  BY <1>1, <1>3 DEF Inv, TypeOK
<1>5. built'[d] = FALSE /\ \A r \in Slots \ {d} : built'[r] = built[r]
  BY <1>1 DEF Inv, TypeOK
<1>6. TypeOK'
  <2>1. s \in Slots \cup {Null} /\ n \in {"end", "copy", "null", "new"} /\ l \in Locations
    BY DEF Locations
  <2>. QED
    BY <1>1, <1>3, <2>1 DEF Inv, TypeOK
<1>7. Objs'
  BY <1>1 DEF Inv, Objs
<1>8. Private(t)
  BY <1>1, <1>4, <1>5 DEF Private
<1>9. OpsOf(t)'
  BY <1>1, <1>3, <1>4, <1>5 DEF OpsOf
<1>10. Ops /\ Ops'
  BY <1>8, <1>9, OthersKeep DEF Inv
<1>11. \A r \in Strong : own'[r] = own[r]
  <2>1. \A r \in Strong : User[r] = t => own[r] = IF built[r] THEN ref[r] ELSE Null
    BY <1>1, <1>10, Views
  <2>2. \A r \in Strong : User[r] = t =>
           own'[r] = IF built'[r] \/ (l = "release_strong" /\ r = d) THEN ref[r] ELSE Null
    BY <1>1, <1>4, <1>10, ViewsNext
  <2>3. \A r \in Strong : User[r] = t => own'[r] = own[r]
    BY <1>1, <1>3, <1>5, <2>1, <2>2, SlotSets
  <2>. QED
    BY <1>8, <1>9, <1>10, <2>3, OthersKeep
<1>12. \A r \in Weak : obs'[r] = obs[r]
  <2>1. \A r \in Weak : User[r] = t => obs[r] = IF built[r] THEN ref[r] ELSE Null
    BY <1>1, <1>10, Views
  <2>2. \A r \in Weak : User[r] = t =>
           obs'[r] = IF built'[r] \/ (l = "release_weak" /\ r = d) THEN ref[r] ELSE Null
    BY <1>1, <1>4, <1>10, ViewsNext
  <2>3. \A r \in Weak : User[r] = t => obs'[r] = obs[r]
    BY <1>1, <1>3, <1>5, <2>1, <2>2, SlotSets
  <2>. QED
    BY <1>8, <1>9, <1>10, <2>3, OthersKeep
<1>13. \A u \in Threads : /\ dying'[u] = dying[u] /\ deleting'[u] = deleting[u]
                          /\ dying[u] # Null => pc'[u] = pc[u]
  <2>1. dying[t] = Null /\ dying'[t] = Null /\ deleting[t] = Null /\ deleting'[t] = Null
    BY <1>1, <1>3, <1>4, ThreadViews, SlotSets
  <2>2. \A u \in Threads \ {t} : dying'[u] = dying[u] /\ deleting'[u] = deleting[u]
    BY <1>8, <1>9, <1>10, OthersKeep
  <2>. QED
    BY <1>4, <2>1, <2>2
<1>14. \A c \in Controllers :
         /\ Cardinality(Where(Strong, own', {c})) = Cardinality(Where(Strong, own, {c}))
         /\ Cardinality(Where(Weak, obs', {c})) = Cardinality(Where(Weak, obs, {c}))
  <2>1. \A c : /\ Where(Strong, own', {c}) = Where(Strong, own, {c})
               /\ Where(Weak, obs', {c}) = Where(Weak, obs, {c})
    BY <1>11, <1>12 DEF Where
  <2>. QED
    BY <2>1
<1>15. Counted' /\ Lives'
  BY <1>1, <1>13, <1>14, ClaimsSame
<1>. QED
  BY <1>6, <1>7, <1>10, <1>15 DEF Inv

(* A step within DestructReferencer: the slots stay, t goes on to location l. *)
LEMMA GotoStep ==
    ASSUME Inv, NEW t \in Threads,
           NEW l \in {"construct", "destroy_object", "release_weak", "destroy_controller"},
           pc[t] \in {"release_strong", "destroy_object", "release_weak", "destroy_controller"},
           Goto(t, l), UNCHANGED <<built, ref, obj>>,
           l = "destroy_object" => dst[t] \in Strong
    PROVE  /\ dst[t] \in Slots /\ ref[dst[t]] \in Controllers /\ ~built[dst[t]]
           /\ pc[t] \in {"release_strong", "destroy_object"} => dst[t] \in Strong
           /\ pc'[t] = l /\ dst'[t] = dst[t] /\ ref'[dst'[t]] = ref[dst[t]]
           /\ \A u \in Threads \ {t} : pc'[u] = pc[u] /\ dying'[u] = dying[u] /\ deleting'[u] = deleting[u]
           /\ Ops' /\ Objs'
           /\ /\ pc' \in [Threads -> Locations] /\ dst' \in [Threads -> Slots \cup {Null}]
              /\ src' \in [Threads -> Slots \cup {Null}]
              /\ next' \in [Threads -> {"end", "copy", "null", "new"}]
              /\ seen' \in [Threads -> Nat]
           /\ \A s \in Strong : s # dst[t] => own'[s] = own[s]
           /\ \A s \in Weak : s # dst[t] => obs'[s] = obs[s]
           /\ dst[t] \in Strong =>
                 /\ own[dst[t]] = IF pc[t] = "release_strong" THEN ref[dst[t]] ELSE Null
                 /\ own'[dst[t]] = Null
           /\ dst[t] \in Weak =>
                 /\ obs[dst[t]] = IF pc[t] = "release_weak" THEN ref[dst[t]] ELSE Null
                 /\ obs'[dst[t]] = IF l = "release_weak" THEN ref[dst[t]] ELSE Null
<1>1. /\ dst[t] \in Slots /\ User[dst[t]] = t /\ ~built[dst[t]] /\ ref[dst[t]] # Null
      /\ pc[t] \in {"release_strong", "destroy_object"} => dst[t] \in Strong
  BY DEF Inv, Ops, OpsOf
<1>2. ref[dst[t]] \in Controllers
  BY <1>1 DEF Inv, TypeOK
<1>3. /\ pc'[t] = l /\ dst'[t] = dst[t] /\ src'[t] = src[t] /\ next'[t] = next[t] /\ seen'[t] = seen[t]
      /\ \A u \in Threads \ {t} : pc'[u] = pc[u]
      /\ UNCHANGED <<dst, src, next, seen, built, ref, obj>>
  BY DEF Goto, Inv, TypeOK
<1>4. Objs'
  BY DEF Inv, Objs
<1>5. Private(t)
  BY <1>3 DEF Private
<1>6. OpsOf(t)'
  BY <1>1, <1>3 DEF Inv, Ops, OpsOf
<1>7. Ops /\ Ops' /\ \A u \in Threads \ {t} : dying'[u] = dying[u] /\ deleting'[u] = deleting[u]
  BY <1>5, <1>6, OthersKeep DEF Inv
<1>8. \A s \in Strong : s # dst[t] => own'[s] = own[s]
  <2>1. \A s \in Strong : User[s] = t /\ s # dst[t] => own'[s] = own[s]
    BY <1>3, <1>7, Views, ViewsNext
  <2>. QED
    BY <1>5, <1>6, <1>7, <2>1, OthersKeep
<1>9. \A s \in Weak : s # dst[t] => obs'[s] = obs[s]
  <2>1. \A s \in Weak : User[s] = t /\ s # dst[t] => obs'[s] = obs[s]
    BY <1>3, <1>7, Views, ViewsNext
  <2>. QED
    BY <1>5, <1>6, <1>7, <2>1, OthersKeep
<1>10. dst[t] \in Strong =>
          /\ own[dst[t]] = IF pc[t] = "release_strong" THEN ref[dst[t]] ELSE Null
          /\ own'[dst[t]] = Null
  BY <1>1, <1>3, <1>7, Views, ViewsNext
<1>11. dst[t] \in Weak =>
          /\ obs[dst[t]] = IF pc[t] = "release_weak" THEN ref[dst[t]] ELSE Null
          /\ obs'[dst[t]] = IF l = "release_weak" THEN ref[dst[t]] ELSE Null
  BY <1>1, <1>3, <1>7, Views, ViewsNext
<1>12. /\ pc' \in [Threads -> Locations] /\ dst' \in [Threads -> Slots \cup {Null}]
       /\ src' \in [Threads -> Slots \cup {Null}]
       /\ next' \in [Threads -> {"end", "copy", "null", "new"}]
       /\ seen' \in [Threads -> Nat]
  <2>1. l \in Locations
    BY DEF Locations
  <2>. QED
    BY <1>3, <2>1 DEF Goto, Inv, TypeOK
<1>. QED
  BY <1>1, <1>2, <1>3, <1>4, <1>7, <1>8, <1>9, <1>10, <1>11, <1>12

(* ReleaseStrongRef. *)
LEMMA ReleaseStrongRefStep ==
    ASSUME Inv, NEW t \in Threads, ReleaseStrongRef(t)
    PROVE  Inv'
<1>. DEFINE d == dst[t]
            c == ref[dst[t]]
            l == IF strong_count[c] = 1 THEN "destroy_object" ELSE "construct"
<1>1. /\ pc[t] = "release_strong" /\ strong_count' = [strong_count EXCEPT ![c] = @ - 1]
      /\ Goto(t, l) /\ UNCHANGED <<built, ref, obj, weak_count, object, controller>>
  BY DEF ReleaseStrongRef, slots, lives
<1>2. d \in Strong
  BY <1>1 DEF Inv, Ops, OpsOf
<1>3. l \in {"construct", "destroy_object", "release_weak", "destroy_controller"}
  OBVIOUS
<1>4. (l = "destroy_object" <=> strong_count[c] = 1) /\ (l = "construct" <=> strong_count[c] # 1)
  OBVIOUS
<1>. HIDE DEF l
<1>5. /\ d \in Slots /\ c \in Controllers
      /\ pc'[t] = l /\ dst'[t] = d /\ ref'[dst'[t]] = c
      /\ \A u \in Threads \ {t} : pc'[u] = pc[u] /\ dying'[u] = dying[u] /\ deleting'[u] = deleting[u]
      /\ Ops' /\ Objs'
      /\ pc' \in [Threads -> Locations] /\ dst' \in [Threads -> Slots \cup {Null}]
      /\ src' \in [Threads -> Slots \cup {Null}]
      /\ next' \in [Threads -> {"end", "copy", "null", "new"}]
      /\ seen' \in [Threads -> Nat]
      /\ \A s \in Strong \ {d} : own'[s] = own[s]
      /\ \A s \in Weak : s # d => obs'[s] = obs[s]
      /\ own[d] = c /\ own'[d] = Null
  BY <1>1, <1>2, <1>3, GotoStep
<1>6. \A s \in Weak : obs'[s] = obs[s]
  BY <1>2, <1>5, SlotSets
<1>7. dying[t] = Null /\ dying'[t] = (IF strong_count[c] = 1 THEN c ELSE Null)
  BY <1>1, <1>2, <1>4, <1>5, ThreadViews
<1>8. \A u \in Threads : deleting'[u] = deleting[u]
  <2>1. deleting[t] = Null /\ deleting'[t] = Null
    BY <1>1, <1>4, <1>5, ThreadViews
  <2>. QED
    BY <1>5, <2>1
<1>. HIDE DEF d, c
<1>9. Counted' /\ Lives'
  BY <1>1, <1>2, <1>4, <1>5, <1>6, <1>7, <1>8, ClaimDropped
<1>10. strong_count' \in [Controllers -> Nat]
  <2>1. Owned(c)
    BY <1>2, <1>5 DEF Owned
  <2>2. strong_count[c] \in Nat /\ strong_count[c] # 0
    BY <1>5, <2>1, NoClaims DEF Inv, Counted
  <2>3. strong_count[c] - 1 \in Nat
    BY <2>2
  <2>. QED
    BY <1>1, <1>5, <2>3 DEF Inv, TypeOK
<1>11. TypeOK'
  BY <1>1, <1>5, <1>10 DEF Inv, TypeOK
<1>. QED
  BY <1>5, <1>9, <1>11 DEF Inv

(* DestroyObject. *)
LEMMA DestroyObjectStep ==
    ASSUME Inv, NEW t \in Threads, DestroyObject(t)
    PROVE  Inv'
<1>. DEFINE d == dst[t]
            c == ref[dst[t]]
<1>1. /\ pc[t] = "destroy_object" /\ object' = [object EXCEPT ![c] = "destroyed"]
      /\ Goto(t, "release_weak") /\ UNCHANGED <<built, ref, obj, strong_count, weak_count, controller>>
  BY DEF DestroyObject, slots, counts
<1>2. /\ d \in Slots /\ c \in Controllers /\ d \in Strong
      /\ pc'[t] = "release_weak" /\ dst'[t] = d /\ ref'[dst'[t]] = c
      /\ \A u \in Threads \ {t} : pc'[u] = pc[u] /\ dying'[u] = dying[u] /\ deleting'[u] = deleting[u]
      /\ Ops' /\ Objs'
      /\ pc' \in [Threads -> Locations] /\ dst' \in [Threads -> Slots \cup {Null}]
      /\ src' \in [Threads -> Slots \cup {Null}]
      /\ next' \in [Threads -> {"end", "copy", "null", "new"}]
      /\ seen' \in [Threads -> Nat]
      /\ \A s \in Strong : s # d => own'[s] = own[s]
      /\ \A s \in Weak : s # d => obs'[s] = obs[s]
      /\ own[d] = Null /\ own'[d] = Null
  BY <1>1, GotoStep
<1>3. /\ \A s \in Strong : own'[s] = own[s]
      /\ \A s \in Weak : obs'[s] = obs[s]
  BY <1>2, SlotSets
<1>4. dying[t] = c /\ dying'[t] = c /\ deleting[t] = Null /\ deleting'[t] = Null
  BY <1>1, <1>2, ThreadViews
<1>5. \A u \in Threads : dying'[u] = dying[u] /\ deleting'[u] = deleting[u]
  BY <1>2, <1>4
<1>. HIDE DEF d, c
<1>6. Counted' /\ Lives'
  BY <1>1, <1>2, <1>3, <1>4, <1>5, ObjectDestroyed
<1>7. object' \in [Controllers -> Life]
  <2>1. "destroyed" \in Life
    BY DEF Life
  <2>. QED
    BY <1>1, <2>1 DEF Inv, TypeOK
<1>8. TypeOK'
  BY <1>1, <1>2, <1>7 DEF Inv, TypeOK
<1>. QED
  BY <1>2, <1>6, <1>8 DEF Inv

(* ReleaseWeakRef, of a WeakPtr or after DestroyObject. *)
LEMMA ReleaseWeakRefStep ==
    ASSUME Inv, NEW t \in Threads, ReleaseWeakRef(t)
    PROVE  Inv'
<1>. DEFINE d == dst[t]
            c == ref[dst[t]]
            l == IF weak_count[c] = 1 THEN "destroy_controller" ELSE "construct"
<1>1. /\ pc[t] = "release_weak" /\ weak_count' = [weak_count EXCEPT ![c] = @ - 1]
      /\ Goto(t, l) /\ UNCHANGED <<built, ref, obj, strong_count, object, controller>>
  BY DEF ReleaseWeakRef, slots, lives
<1>2. /\ l \in {"construct", "destroy_object", "release_weak", "destroy_controller"}
      /\ l # "destroy_object" /\ l # "release_weak"
  OBVIOUS
<1>3. l = "destroy_controller" <=> weak_count[c] = 1
  OBVIOUS
<1>. HIDE DEF l
<1>4. /\ d \in Slots /\ c \in Controllers
      /\ pc'[t] = l /\ dst'[t] = d /\ ref'[dst'[t]] = c
      /\ \A u \in Threads \ {t} : pc'[u] = pc[u] /\ dying'[u] = dying[u] /\ deleting'[u] = deleting[u]
      /\ Ops' /\ Objs'
      /\ pc' \in [Threads -> Locations] /\ dst' \in [Threads -> Slots \cup {Null}]
      /\ src' \in [Threads -> Slots \cup {Null}]
      /\ next' \in [Threads -> {"end", "copy", "null", "new"}]
      /\ seen' \in [Threads -> Nat]
      /\ \A s \in Strong : s # d => own'[s] = own[s]
      /\ \A s \in Weak : s # d => obs'[s] = obs[s]
      /\ d \in Strong => own[d] = Null /\ own'[d] = Null
      /\ d \in Weak => obs[d] = c /\ obs'[d] = Null
  BY <1>1, <1>2, GotoStep
<1>5. \A s \in Strong : own'[s] = own[s]
  BY <1>4
<1>6. /\ dying[t] = IF d \in Strong THEN c ELSE Null
      /\ dying'[t] = Null
      /\ deleting[t] = Null
      /\ deleting'[t] = IF weak_count[c] = 1 THEN c ELSE Null
  BY <1>1, <1>2, <1>3, <1>4, ThreadViews
<1>. HIDE DEF d, c
<1>7. \/ /\ \E e \in Weak : /\ obs[e] = c /\ obs'[e] = Null
                            /\ \A s \in Weak \ {e} : obs'[s] = obs[s]
         /\ dying'[t] = dying[t] /\ dying[t] = Null
      \/ /\ dying[t] = c /\ dying'[t] = Null /\ pc[t] # "destroy_object"
         /\ \A s \in Weak : obs'[s] = obs[s]
  <2>1. CASE d \in Weak
    BY <1>4, <1>6, <2>1, SlotSets
  <2>2. CASE d \in Strong
    BY <1>1, <1>4, <1>6, <2>2, SlotSets
  <2>. QED
    BY <1>4, <2>1, <2>2, SlotSets
<1>8. Counted' /\ Lives'
  BY <1>1, <1>4, <1>5, <1>6, <1>7, WeakClaimDropped
<1>9. weak_count' \in [Controllers -> Nat]
  <2>1. Observed(c) \/ Dying(c)
    BY <1>7 DEF Observed, Dying
  <2>2. weak_count[c] \in Nat /\ weak_count[c] # 0
    <3>1. /\ weak_count[c] = Cardinality(Where(Weak, obs, {c})) + IF Owned(c) \/ Dying(c) THEN 1 ELSE 0
          /\ Cardinality(Where(Weak, obs, {c})) \in Nat
          /\ Cardinality(Where(Weak, obs, {c})) = 0 <=> ~Observed(c)
      BY <1>4, NoClaims DEF Inv, Counted
    <3>. QED
      BY <2>1, <3>1
  <2>3. weak_count[c] - 1 \in Nat
    BY <2>2
  <2>. QED
    BY <1>1, <1>4, <2>3 DEF Inv, TypeOK
<1>10. TypeOK'
  BY <1>1, <1>4, <1>9 DEF Inv, TypeOK
<1>. QED
  BY <1>4, <1>8, <1>10 DEF Inv

(* DestroyController. *)
LEMMA DestroyControllerStep ==
    ASSUME Inv, NEW t \in Threads, DestroyController(t)
    PROVE  Inv'
<1>. DEFINE d == dst[t]
            c == ref[dst[t]]
<1>1. /\ pc[t] = "destroy_controller" /\ controller' = [controller EXCEPT ![c] = "destroyed"]
      /\ Goto(t, "construct") /\ UNCHANGED <<built, ref, obj, strong_count, weak_count, object>>
  BY DEF DestroyController, slots, counts
<1>2. /\ d \in Slots /\ c \in Controllers
      /\ pc'[t] = "construct" /\ dst'[t] = d /\ ref'[dst'[t]] = c
      /\ \A u \in Threads \ {t} : pc'[u] = pc[u] /\ dying'[u] = dying[u] /\ deleting'[u] = deleting[u]
      /\ Ops' /\ Objs'
      /\ pc' \in [Threads -> Locations] /\ dst' \in [Threads -> Slots \cup {Null}]
      /\ src' \in [Threads -> Slots \cup {Null}]
      /\ next' \in [Threads -> {"end", "copy", "null", "new"}]
      /\ seen' \in [Threads -> Nat]
      /\ \A s \in Strong : s # d => own'[s] = own[s]
      /\ \A s \in Weak : s # d => obs'[s] = obs[s]
      /\ d \in Strong => own[d] = Null /\ own'[d] = Null
      /\ d \in Weak => obs[d] = Null /\ obs'[d] = Null
  BY <1>1, GotoStep
<1>3. /\ \A s \in Strong : own'[s] = own[s]
      /\ \A s \in Weak : obs'[s] = obs[s]
  BY <1>2
<1>4. dying[t] = Null /\ dying'[t] = Null /\ deleting[t] = c /\ deleting'[t] = Null
  BY <1>1, <1>2, ThreadViews
<1>5. \A u \in Threads : dying'[u] = dying[u]
  BY <1>2, <1>4
<1>. HIDE DEF d, c
<1>6. Counted' /\ Lives'
  BY <1>1, <1>2, <1>3, <1>4, <1>5, ControllerDestroyed
<1>7. controller' \in [Controllers -> Life]
  <2>1. "destroyed" \in Life
    BY DEF Life
  <2>. QED
    BY <1>1, <2>1 DEF Inv, TypeOK
<1>8. TypeOK'
  BY <1>1, <1>2, <1>7 DEF Inv, TypeOK
<1>. QED
  BY <1>2, <1>6, <1>8 DEF Inv

-----------------------------------------------------------------------------
(* The first object has been created and its pointers handed out. *)
LEMMA InitInv == Init => Inv
<1>. SUFFICES ASSUME Init PROVE Inv
  OBVIOUS
<1>1. PICK given \in SUBSET Slots :
         /\ given \cap Strong # {}
         /\ built = [s \in Slots |-> s \in given]
         /\ ref = [s \in Slots |-> IF s \in given THEN First ELSE Null]
         /\ strong_count = [c \in Controllers |-> IF c = First THEN Cardinality(given \cap Strong) ELSE 0]
         /\ weak_count = [c \in Controllers |-> IF c = First THEN Cardinality(given \cap Weak) + 1 ELSE 0]
  BY DEF Init
<1>2. /\ obj = ref /\ controller = object
      /\ object = [c \in Controllers |-> IF c = First THEN "alive" ELSE "none"]
      /\ pc = [t \in Threads |-> "idle"] /\ dst = [t \in Threads |-> Null] /\ src = [t \in Threads |-> Null]
      /\ next = [t \in Threads |-> "end"] /\ seen = [t \in Threads |-> 0]
  BY DEF Init
<1>3. First \in Controllers /\ First # Null
  BY PtrAssumption
<1>4. Ops
  BY <1>2 DEF Ops, OpsOf
<1>5. /\ \A s \in Strong : own[s] = IF s \in given THEN First ELSE Null
      /\ \A s \in Weak : obs[s] = IF s \in given THEN First ELSE Null
  <2>1. \A s \in Slots : (built[s] <=> s \in given) /\ ref[s] = (IF s \in given THEN First ELSE Null)
    BY <1>1
  <2>2. \A t \in Threads : pc[t] # "release_strong" /\ pc[t] # "release_weak"
    BY <1>2
  <2>3. \A s \in Strong : own[s] = IF s \in given THEN First ELSE Null
    BY <1>4, <2>1, <2>2, Views, SlotSets
  <2>4. \A s \in Weak : obs[s] = IF s \in given THEN First ELSE Null
    BY <1>4, <2>1, <2>2, Views, SlotSets
  <2>. QED
    BY <2>3, <2>4
<1>6. \A t \in Threads : dying[t] = Null /\ deleting[t] = Null
  BY <1>2 DEF dying, deleting
<1>7. /\ Where(Strong, own, {First}) = given \cap Strong
      /\ Where(Weak, obs, {First}) = given \cap Weak
      /\ \A c \in Controllers \ {First} : Where(Strong, own, {c}) = {} /\ Where(Weak, obs, {c}) = {}
  BY <1>3, <1>5, SlotSets DEF Where
<1>8. /\ \A c \in Controllers : ~Dying(c) /\ ~Deleting(c) /\ (Owned(c) <=> c = First)
      /\ \A c \in Controllers : Observed(c) => c = First
  BY <1>1, <1>3, <1>5, <1>6, SlotSets DEF Dying, Deleting, Owned, Observed
<1>9. Cardinality(given \cap Strong) \in Nat /\ Cardinality(given \cap Weak) \in Nat
  <2>1. given \cap Strong \in SUBSET Strong /\ given \cap Weak \in SUBSET Weak
    OBVIOUS
  <2>. QED
    BY <2>1, SlotSets, FS_Subset, FS_CardinalityType
<1>10. TypeOK
  <2>1. "alive" \in Life /\ "none" \in Life /\ "idle" \in Locations
    BY DEF Life, Locations
  <2>2. object \in [Controllers -> Life] /\ controller \in [Controllers -> Life] /\ pc \in [Threads -> Locations]
    BY <1>2, <2>1
  <2>3. strong_count \in [Controllers -> Nat] /\ weak_count \in [Controllers -> Nat]
    BY <1>1, <1>9
  <2>4. /\ built \in [Slots -> BOOLEAN]
        /\ ref \in [Slots -> Controllers \cup {Null}] /\ obj \in [Slots -> Controllers \cup {Null}]
    BY <1>1, <1>2, <1>3
  <2>. QED
    BY <1>2, <2>2, <2>3, <2>4 DEF TypeOK
<1>11. Objs
  BY <1>2 DEF Objs
<1>12. Counted
  <2>1. \A c \in Controllers : Owned(c) \/ Dying(c) <=> c = First
    BY <1>8
  <2>2. ASSUME NEW c \in Controllers
        PROVE  /\ strong_count[c] = Cardinality(Where(Strong, own, {c}))
               /\ weak_count[c] = Cardinality(Where(Weak, obs, {c})) + IF Owned(c) \/ Dying(c) THEN 1 ELSE 0
    <3>1. CASE c = First
      BY <1>1, <1>7, <2>1, <3>1
    <3>2. CASE c # First
      <4>1. Where(Strong, own, {c}) = {} /\ Where(Weak, obs, {c}) = {}
        BY <1>7, <3>2
      <4>. QED
        BY <1>1, <2>1, <3>2, <4>1, FS_EmptySet
    <3>. QED
      BY <3>1, <3>2
  <2>. QED
    BY <2>2 DEF Counted
<1>13. Lives
  <2>1. \A c \in Controllers : object[c] = controller[c] /\ object[c] = (IF c = First THEN "alive" ELSE "none")
    BY <1>2
  <2>. QED
    BY <1>3, <1>6, <1>8, <2>1, SlotSets DEF Lives
<1>. QED
  BY <1>4, <1>10, <1>11, <1>12, <1>13 DEF Inv

(* Every step keeps the invariant, unless a pointer is assigned to itself. *)
LEMMA NextInv ==
    ASSUME ~SelfAssign, Inv, [Next]_vars
    PROVE  Inv'
<1>1. ASSUME NEW t \in Threads, NEW d \in Slots, Destroy(t, d) PROVE Inv'
  BY <1>1, ReleaseStep DEF Destroy
<1>2. ASSUME NEW t \in Threads, NEW d \in Slots, Reset(t, d) PROVE Inv'
  BY <1>2, ReleaseStep DEF Reset
<1>3. ASSUME NEW t \in Threads, NEW d \in Slots, NEW s \in Slots, Assign(t, d, s) PROVE Inv'
  BY <1>3, ReleaseStep DEF Assign
<1>4. ASSUME NEW t \in Threads, NEW d \in Slots, NEW s \in Slots, Pin(t, d, s) PROVE Inv'
  BY <1>4, PinStep, ConstructorStep
<1>5. ASSUME NEW t \in Threads, Start(t) PROVE Inv'
  <2>1. PICK d \in Slots :
           \/ CreateEmpty(t, d) \/ Destroy(t, d) \/ Reset(t, d)
           \/ \E c \in Controllers : Create(t, d, c)
           \/ \E s \in Slots : Copy(t, d, s) \/ MoveTo(t, d, s) \/ Assign(t, d, s) \/ Pin(t, d, s)
    BY <1>5 DEF Start
  <2>. QED
    BY <1>1, <1>2, <1>3, <1>4, <2>1, ConstructorStep, MoveStep
<1>6. ASSUME NEW t \in Threads, Step(t) PROVE Inv'
  BY <1>6, ReleaseStrongRefStep, DestroyObjectStep, ReleaseWeakRefStep, DestroyControllerStep,
     ConstructStep, PinReadStep, PinExchangeStep DEF Step
<1>7. CASE UNCHANGED vars
  <2>1. /\ UNCHANGED <<built, ref, obj, strong_count, weak_count, object, controller>>
        /\ UNCHANGED <<pc, dst, src, next, seen>>
    BY <1>7 DEF vars, slots, counts, lives, locals
  <2>2. TypeOK' /\ Ops' /\ Objs'
    BY <2>1 DEF Inv, TypeOK, Ops, OpsOf, Objs
  <2>3. own' = own /\ obs' = obs /\ dying' = dying /\ deleting' = deleting
    BY <2>1 DEF own, obs, dying, deleting, Releasing
  <2>4. Counted'
    BY <2>1, <2>3 DEF Inv, Counted, Owned, Dying
  <2>5. Lives'
    BY <2>1, <2>3 DEF Inv, Lives, Owned, Observed, Dying, Deleting
  <2>. QED
    BY <2>2, <2>4, <2>5 DEF Inv
<1>. QED
  BY <1>5, <1>6, <1>7 DEF Next

LEMMA Invariance ==
    ASSUME ~SelfAssign
    PROVE  Spec => []Inv
BY InitInv, NextInv, PTL DEF Spec

-----------------------------------------------------------------------------
(* The claims are the owners and the observers of the properties. *)
LEMMA ClaimSets ==
    ASSUME NEW c \in Controllers
    PROVE  /\ Owners(c) = Where(Strong, own, {c})
           /\ Observers(c) = Where(Weak, obs, {c})
           /\ Owners(c) # {} <=> Owned(c)
           /\ Observers(c) # {} <=> Observed(c)
<1>0. c # Null
  BY SlotSets
<1>1. Owners(c) = Where(Strong, own, {c})
  BY <1>0 DEF Owners, own, Where
<1>2. Observers(c) = Where(Weak, obs, {c})
  BY <1>0 DEF Observers, obs, Where
<1>. QED
  BY <1>1, <1>2 DEF Where, Owned, Observed

(* Every variable of the reference counting keeps its type; no count of a controller
   goes below zero, also when releases and pins interleave. *)
THEOREM TypeCorrect ==
    ASSUME ~SelfAssign
    PROVE  Spec => []TypeOK
<1>1. Inv => TypeOK
  BY DEF Inv
<1>. QED
  BY <1>1, Invariance, PTL

(* strong_count is the number of SharedPtrs with the controller, weak_count the number
   of WeakPtrs and one more for the SharedPtrs together, at every step of any number of
   threads on any number of pointers (ReferenceController). *)
THEOREM CountsCorrect ==
    ASSUME ~SelfAssign
    PROVE  Spec => []CountsMatch
<1>1. Inv => CountsMatch
  <2>. SUFFICES ASSUME Inv PROVE CountsMatch
    OBVIOUS
  <2>1. ASSUME NEW c \in Controllers
        PROVE  /\ strong_count[c] = Cardinality(Owners(c))
               /\ weak_count[c] =
                     Cardinality(Observers(c))
                     + (IF \/ Owners(c) # {}
                           \/ \E t \in Threads : /\ pc[t] \in {"destroy_object", "release_weak"}
                                                 /\ dst[t] \in Strong /\ ref[dst[t]] = c
                        THEN 1 ELSE 0)
    <3>1. Dying(c) <=> \E t \in Threads : /\ pc[t] \in {"destroy_object", "release_weak"}
                                          /\ dst[t] \in Strong /\ ref[dst[t]] = c
      BY SlotSets DEF Dying, dying
    <3>2. /\ strong_count[c] = Cardinality(Where(Strong, own, {c}))
          /\ weak_count[c] = Cardinality(Where(Weak, obs, {c})) + IF Owned(c) \/ Dying(c) THEN 1 ELSE 0
      BY DEF Inv, Counted
    <3>. QED
      BY <3>1, <3>2, ClaimSets
  <2>. QED
    BY <2>1 DEF CountsMatch
<1>. QED
  BY <1>1, Invariance, PTL

(* The object of a SharedPtr is alive until ReleaseStrongRef of this pointer. *)
THEOREM OwnersSafe ==
    ASSUME ~SelfAssign
    PROVE  Spec => []OwnedAlive
<1>1. Inv => OwnedAlive
  <2>. SUFFICES ASSUME Inv, NEW s \in Strong, NEW c \in Controllers, s \in Owners(c)
                PROVE  object[c] = "alive" /\ obj[s] = c
    BY DEF OwnedAlive
  <2>1. Owned(c)
    BY ClaimSets
  <2>2. ref[s] = c /\ s \in Slots /\ c # Null
    BY SlotSets DEF Owners
  <2>. QED
    BY <2>1, <2>2 DEF Inv, Lives, Objs
<1>. QED
  BY <1>1, Invariance, PTL

(* A controller that some thread is about to use has not been deleted: between the
   decrement and DestroyObject, between DestroyObject and ReleaseWeakRef, between Read
   and CompareExchange of a pin, and in a copy after a release. *)
THEOREM ControllersSafe ==
    ASSUME ~SelfAssign
    PROVE  Spec => []NoUseAfterDelete
<1>1. Inv => NoUseAfterDelete
  <2>. SUFFICES ASSUME Inv, NEW t \in Threads, NEW s \in Touched(t), ref[s] # Null
                PROVE  controller[ref[s]] = "alive"
    BY DEF NoUseAfterDelete
  <2>0. \A c \in Controllers :
           Owned(c) \/ Observed(c) \/ Dying(c) \/ Deleting(c) => controller[c] = "alive"
    BY DEF Inv, Lives
  <2>1. CASE pc[t] \in {"release_strong", "destroy_object", "release_weak", "destroy_controller"}
    <3>1. s = dst[t]
      BY <2>1 DEF Touched
    <3>2. s \in Slots /\ User[s] = t /\ ref[s] \in Controllers
      BY <2>1, <3>1 DEF Inv, Ops, OpsOf, TypeOK
    <3>3. pc[t] \in {"release_strong", "destroy_object"} => s \in Strong
      BY <2>1, <3>1 DEF Inv, Ops, OpsOf
    <3>4. CASE pc[t] = "release_strong"
      <4>1. own[s] = ref[s]
        BY <3>1, <3>2, <3>3, <3>4, Views DEF Inv
      <4>2. Owned(ref[s])
        BY <3>3, <3>4, <4>1 DEF Owned
      <4>. QED
        BY <2>0, <3>2, <4>2
    <3>5. CASE pc[t] \in {"destroy_object", "release_weak"} /\ s \in Strong
      <4>1. Dying(ref[s])
        BY <3>1, <3>5 DEF Dying, dying
      <4>. QED
        BY <2>0, <3>2, <4>1
    <3>6. CASE pc[t] = "release_weak" /\ s \in Weak
      <4>1. obs[s] = ref[s]
        BY <3>1, <3>2, <3>6, Views DEF Inv
      <4>2. Observed(ref[s])
        BY <3>6, <4>1 DEF Observed
      <4>. QED
        BY <2>0, <3>2, <4>2
    <3>7. CASE pc[t] = "destroy_controller"
      <4>1. Deleting(ref[s])
        BY <3>1, <3>7 DEF Deleting, deleting
      <4>. QED
        BY <2>0, <3>2, <4>1
    <3>. QED
      BY <2>1, <3>2, <3>3, <3>4, <3>5, <3>6, <3>7, SlotSets
  <2>2. CASE pc[t] \in {"pin_read", "pin_exchange"} \/ (pc[t] = "construct" /\ next[t] = "copy")
    <3>1. s = src[t]
      BY <2>2 DEF Touched
    <3>2. s \in Slots /\ built[s]
      BY <2>2, <3>1, SlotSets DEF Inv, Ops, OpsOf
    <3>. QED
      BY <2>0, <3>2, BuiltClaims, SlotSets
  <2>3. CASE /\ pc[t] \notin {"release_strong", "destroy_object", "release_weak", "destroy_controller"}
             /\ pc[t] \notin {"pin_read", "pin_exchange"}
             /\ ~(pc[t] = "construct" /\ next[t] = "copy")
    BY <2>3 DEF Touched
  <2>. QED
    BY <2>1, <2>2, <2>3
<1>. QED
  BY <1>1, Invariance, PTL

(* When no operation is under way, an object without SharedPtrs has been destroyed and
   a controller without pointers deleted: whoever released the last one has done it. *)
THEOREM NothingLeaks ==
    ASSUME ~SelfAssign
    PROVE  Spec => []NoLeak
<1>1. Inv => NoLeak
  <2>. SUFFICES ASSUME Inv, \A t \in Threads : pc[t] = "idle", NEW c \in Controllers \ Unborn
                PROVE  /\ Owners(c) = {} => object[c] = "destroyed"
                       /\ Owners(c) \cup Observers(c) = {} => controller[c] = "destroyed"
    BY DEF NoLeak
  <2>1. ~Dying(c) /\ ~Deleting(c)
    BY SlotSets DEF Dying, Deleting, dying, deleting
  <2>2. controller[c] # "none" /\ object[c] # "none" /\ object[c] \in Life /\ controller[c] \in Life
    BY DEF Unborn, Inv, Lives, TypeOK
  <2>3. Owners(c) = {} => object[c] # "alive"
    BY <2>1, ClaimSets DEF Inv, Lives, Dying
  <2>4. Owners(c) \cup Observers(c) = {} => controller[c] # "alive"
    BY <2>1, ClaimSets DEF Inv, Lives
  <2>. QED
    BY <2>2, <2>3, <2>4 DEF Life
<1>. QED
  BY <1>1, Invariance, PTL

(* No step gives a strong reference to an object that has lost the last one: the
   compare-exchange of ConditionallyAddStrongRef never revives what has expired. *)
THEOREM ExpiredStaysExpired ==
    ASSUME ~SelfAssign
    PROVE  Spec => NeverRevived
<1>1. ASSUME Inv, [Next]_vars, NEW c \in Controllers, controller[c] = "alive", strong_count[c] = 0
      PROVE  strong_count'[c] = 0
  <2>1. ~Owned(c)
    BY <1>1, NoClaims DEF Inv, Counted
  <2>2. ASSUME NEW b \in Controllers, CreateController(b) PROVE strong_count'[c] = 0
    <3>1. b # c
      BY <1>1, <2>2 DEF CreateController, Unborn
    <3>. QED
      BY <1>1, <2>2, <3>1 DEF CreateController, Inv, TypeOK
  <2>3. ASSUME NEW d, NEW s \in Slots, built[s], d \in Weak \/ s \in Strong, AddRef(d, ref[s])
        PROVE  strong_count'[c] = 0
    <3>1. CASE d \in Strong /\ ref[s] # Null
      <4>1. Owned(ref[s]) /\ ref[s] \in Controllers
        BY <1>1, <2>3, <3>1, BuiltClaims, SlotSets
      <4>2. ref[s] # c
        BY <2>1, <4>1
      <4>. QED
        BY <1>1, <2>3, <3>1, <4>1, <4>2 DEF AddRef, Inv, TypeOK
    <3>2. CASE ~(d \in Strong /\ ref[s] # Null)
      BY <1>1, <2>3, <3>2 DEF AddRef
    <3>. QED
      BY <3>1, <3>2
  <2>4. ASSUME NEW t \in Threads, ReleaseStrongRef(t) PROVE strong_count'[c] = 0
    <3>1. pc[t] = "release_strong" /\ dst[t] \in Strong /\ User[dst[t]] = t /\ ref[dst[t]] # Null
      BY <1>1, <2>4 DEF ReleaseStrongRef, Inv, Ops, OpsOf
    <3>2. own[dst[t]] = ref[dst[t]]
      BY <1>1, <3>1, Views DEF Inv
    <3>3. ref[dst[t]] # c
      BY <2>1, <3>1, <3>2 DEF Owned
    <3>4. strong_count' = [strong_count EXCEPT ![ref[dst[t]]] = @ - 1]
      BY <2>4 DEF ReleaseStrongRef
    <3>. QED
      BY <1>1, <3>3, <3>4 DEF Inv, TypeOK
  <2>5. ASSUME NEW t \in Threads, PinExchange(t) PROVE strong_count'[c] = 0
    <3>1. seen[t] # 0
      BY <1>1, <2>5 DEF PinExchange, Inv, Ops, OpsOf
    <3>2. \/ strong_count' = strong_count
          \/ /\ strong_count[ref[src[t]]] = seen[t]
             /\ strong_count' = [strong_count EXCEPT ![ref[src[t]]] = seen[t] + 1]
      BY <2>5 DEF PinExchange
    <3>. QED
      BY <1>1, <3>1, <3>2 DEF Inv, TypeOK
  <2>6. ASSUME NEW t \in Threads, Construct(t) PROVE strong_count'[c] = 0
    <3>1. CASE next[t] \in {"end", "null"}
      BY <1>1, <2>6, <3>1 DEF Construct, counts
    <3>2. CASE next[t] = "copy"
      <4>1. src[t] \in Slots /\ built[src[t]] /\ (dst[t] \in Weak \/ src[t] \in Strong)
        BY <1>1, <2>6, <3>2 DEF Construct, Inv, Ops, OpsOf
      <4>2. AddRef(dst[t], ref[src[t]])
        BY <2>6, <3>2 DEF Construct
      <4>. QED
        BY <2>3, <4>1, <4>2
    <3>3. CASE next[t] = "new"
      BY <2>2, <2>6, <3>3 DEF Construct
    <3>. QED
      BY <2>6, <3>1, <3>2, <3>3 DEF Construct
  <2>7. ASSUME NEW t \in Threads, Step(t) PROVE strong_count'[c] = 0
    BY <1>1, <2>4, <2>5, <2>6, <2>7
       DEF Step, DestroyObject, ReleaseWeakRef, DestroyController, PinRead, counts
  <2>8. ASSUME NEW t \in Threads, Start(t) PROVE strong_count'[c] = 0
    <3>1. PICK d \in Slots :
             \/ CreateEmpty(t, d) \/ Destroy(t, d) \/ Reset(t, d)
             \/ \E b \in Controllers : Create(t, d, b)
             \/ \E s \in Slots : Copy(t, d, s) \/ MoveTo(t, d, s) \/ Assign(t, d, s) \/ Pin(t, d, s)
      BY <2>8 DEF Start
    <3>2. CASE CreateEmpty(t, d) \/ Destroy(t, d) \/ Reset(t, d)
      BY <1>1, <3>2 DEF CreateEmpty, Destroy, Reset, Release, counts
    <3>3. CASE \E b \in Controllers : Create(t, d, b)
      BY <2>2, <3>3 DEF Create
    <3>4. CASE \E s \in Slots : Copy(t, d, s)
      BY <2>3, <3>4 DEF Copy
    <3>5. CASE \E s \in Slots : MoveTo(t, d, s) \/ Assign(t, d, s) \/ Pin(t, d, s)
      BY <1>1, <3>5 DEF MoveTo, Assign, Release, Pin, counts
    <3>. QED
      BY <3>1, <3>2, <3>3, <3>4, <3>5
  <2>9. CASE UNCHANGED vars
    BY <1>1, <2>9 DEF vars, counts
  <2>. QED
    BY <1>1, <2>7, <2>8, <2>9 DEF Next
<1>2. Inv /\ [Next]_vars =>
        [\A c \in Controllers : controller[c] = "alive" /\ strong_count[c] = 0 => strong_count'[c] = 0]_vars
  BY <1>1
<1>. QED
  BY <1>2, Invariance, PTL DEF Spec, NeverRevived
=============================================================================
