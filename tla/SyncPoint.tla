------------------------------ MODULE SyncPoint ------------------------------
(***************************************************************************)
(* ut::SyncPoint (src/thread/ut_sync.cpp): threads ask for a lock with     *)
(* AcquireLock and wait until another thread, in Synchronize, stops for    *)
(* them one after the other.  A thread that already has the lock may ask   *)
(* again and is given an empty lock at once.                               *)
(*                                                                         *)
(* What happens with Request::mutex held is one action: nobody looks at    *)
(* Request::active without it.  AcquireLock tests occupant_thread and then *)
(* reads it, both with occupant_mutex held; Finish resets it without that  *)
(* mutex, so the test and the read are two actions.                        *)
(***************************************************************************)
EXTENDS Naturals, Sequences, FiniteSets

CONSTANTS
    Threads,   \* threads that call AcquireLock
    Syncers,   \* threads that call Synchronize
    Ids,       \* tell the SyncPoint::Request objects of a thread apart; an id is
               \* used again once nobody refers to its request
    Depth,     \* bound: how many locks a thread has at a time
    Null

ASSUME SyncAssumption ==
    /\ Depth \in Nat \ {0}
    /\ Ids \subseteq Nat
    /\ Null \notin Threads

(* A request knows the thread that issued it (Request::thread_id). *)
Requests == [thread_id : Threads, id : Ids]

ASSUME NullAssumption == Null \notin Requests

VARIABLES
    pc,           \* pc[t]: where thread t is in AcquireLock or Lock::Release
    locks,        \* locks[t]: requests of the locks t has, Null for an empty lock
    request,      \* request[t]: the request AcquireLock or Finish works on
    requests,     \* SyncPoint::requests
    active,       \* active[r]: Request::active
    has_occupant, \* occupant_thread has a value
    occupant,     \* the value, or what is left of it after a reset
    spc,          \* spc[s]: where s is in Synchronize
    batch         \* batch[s]: rest of temp_buffer, its head is being synchronized

issuer == <<pc, locks, request>>
reqs == <<requests, active>>
occ == <<has_occupant, occupant>>
syncer == <<spc, batch>>
vars == <<issuer, reqs, occ, syncer>>

TypeOK ==
    /\ pc \in [Threads -> {"run", "get", "add", "sync", "asleep", "wake"}]
    /\ locks \in [Threads -> Seq(Requests \cup {Null})]
    /\ request \in [Threads -> Requests \cup {Null}]
    /\ requests \in Seq(Requests)
    /\ active \in [Requests -> BOOLEAN]
    /\ has_occupant \in BOOLEAN
    /\ occupant \in Threads \cup {Null}
    /\ spc \in [Syncers -> {"idle", "start", "wake", "test", "asleep"}]
    /\ batch \in [Syncers -> Seq(Requests)]

Init ==
    /\ pc = [t \in Threads |-> "run"]
    /\ locks = [t \in Threads |-> <<>>]
    /\ request = [t \in Threads |-> Null]
    /\ requests = <<>>
    /\ active = [r \in Requests |-> FALSE]
    /\ has_occupant = FALSE
    /\ occupant = Null
    /\ spc = [s \in Syncers |-> "idle"]
    /\ batch = [s \in Syncers |-> <<>>]

Elements(seq) == {seq[i] : i \in 1..Len(seq)}

(* Requests that somebody has a pointer to. *)
Referred ==
    Elements(requests)
        \cup UNION {Elements(batch[s]) : s \in Syncers}
        \cup UNION {Elements(locks[t]) \cup {request[t]} : t \in Threads}

(* occupant_mutex is held by a thread between the two halves of the test. *)
OccupantLocked == \E t \in Threads : pc[t] = "get"

-----------------------------------------------------------------------------
(* MakeShared<Request>(occupant_thread). *)
CreateRequest(t) ==
    LET unused == {r \in Requests \ Referred : r.thread_id = t}
        new == CHOOSE r \in unused : \A q \in unused : r.id <= q.id
    IN  /\ unused # {}
        /\ request' = [request EXCEPT ![t] = new]
        /\ active' = [active EXCEPT ![new] = FALSE]
        /\ pc' = [pc EXCEPT ![t] = "add"]
        /\ UNCHANGED <<locks, requests>>

(* AcquireLock: lock occupant_mutex, test whether there is an occupant. *)
AcquireLock(t) ==
    /\ pc[t] = "run"
    /\ Len(locks[t]) < Depth
    /\ ~OccupantLocked
    /\ IF has_occupant
       THEN pc' = [pc EXCEPT ![t] = "get"] /\ UNCHANGED <<locks, request, reqs>>
       ELSE CreateRequest(t)
    /\ UNCHANGED <<occ, syncer>>

(* ... and whether it is this thread.  If the occupant was reset in between,
   Optional::Get fails its assertion; where assertions are compiled out it gives
   what is left of the old value. *)
TestOccupant(t) ==
    /\ pc[t] = "get"
    /\ IF occupant = t
       THEN /\ locks' = [locks EXCEPT ![t] = Append(@, Null)]
            /\ pc' = [pc EXCEPT ![t] = "run"]
            /\ UNCHANGED <<request, reqs>>
       ELSE CreateRequest(t)
    /\ UNCHANGED <<occ, syncer>>

AddRequest(t) ==
    /\ pc[t] = "add"
    /\ requests' = Append(requests, request[t])
    /\ pc' = [pc EXCEPT ![t] = "sync"]
    /\ UNCHANGED <<locks, request, active, occ, syncer>>

(* Faulty form: "if" in place of "while" - when the wait ends, for whatever reason,
   active is not tested again. *)
RequestSynchronize_If(t) ==
    /\ \/ /\ pc[t] = "asleep" \/ (pc[t] = "sync" /\ active[request[t]])
          /\ locks' = [locks EXCEPT ![t] = Append(@, request[t])]
          /\ request' = [request EXCEPT ![t] = Null]
          /\ pc' = [pc EXCEPT ![t] = "run"]
       \/ /\ pc[t] = "sync" /\ ~active[request[t]]
          /\ pc' = [pc EXCEPT ![t] = "asleep"] /\ UNCHANGED <<locks, request>>
    /\ UNCHANGED <<reqs, occ, syncer>>

(* Request::Synchronize: wait until active; AcquireLock returns the lock. *)
RequestSynchronize(t) ==
    /\ pc[t] = "sync"
    /\ IF active[request[t]]
       THEN /\ locks' = [locks EXCEPT ![t] = Append(@, request[t])]
            /\ request' = [request EXCEPT ![t] = Null]
            /\ pc' = [pc EXCEPT ![t] = "run"]
       ELSE pc' = [pc EXCEPT ![t] = "asleep"] /\ UNCHANGED <<locks, request>>
    /\ UNCHANGED <<reqs, occ, syncer>>

(* Faulty form: the occupant is not reset. *)
Finish_KeepsOccupant(t, r) ==
    /\ active' = [active EXCEPT ![r] = FALSE]
    /\ request' = [request EXCEPT ![t] = r]
    /\ pc' = [pc EXCEPT ![t] = "wake"]
    /\ UNCHANGED <<requests, occ>>

(* Request::Finish with the mutex held. *)
Finish(t, r) ==
    /\ active' = [active EXCEPT ![r] = FALSE]
    /\ has_occupant' = FALSE
    /\ request' = [request EXCEPT ![t] = r]
    /\ pc' = [pc EXCEPT ![t] = "wake"]
    /\ UNCHANGED <<requests, occupant>>

(* Lock::Release of the last lock acquired.  An empty lock, or one whose request
   is gone, is simply dropped. *)
Release(t) ==
    LET n == Len(locks[t]) IN
    /\ pc[t] = "run"
    /\ n > 0
    /\ locks' = [locks EXCEPT ![t] = SubSeq(@, 1, n - 1)]
    /\ IF locks[t][n] = Null
       THEN UNCHANGED <<pc, request, reqs, occ>>
       ELSE Finish(t, locks[t][n])
    /\ UNCHANGED syncer

(* Faulty form: Finish does not wake anybody. *)
FinishWake_Silent(t) ==
    /\ pc[t] = "wake"
    /\ request' = [request EXCEPT ![t] = Null]
    /\ pc' = [pc EXCEPT ![t] = "run"]
    /\ UNCHANGED <<locks, reqs, occ, syncer>>

(* ... and after the mutex: wake the thread in StartAndWaitCompletion. *)
FinishWake(t) ==
    /\ pc[t] = "wake"
    /\ spc' = [s \in Syncers |->
                  IF spc[s] = "asleep" /\ Head(batch[s]) = request[t] THEN "test" ELSE spc[s]]
    /\ request' = [request EXCEPT ![t] = Null]
    /\ pc' = [pc EXCEPT ![t] = "run"]
    /\ UNCHANGED <<locks, reqs, occ, batch>>

-----------------------------------------------------------------------------
(* Synchronize: take all pending requests ... *)
Synchronize(s) ==
    /\ spc[s] = "idle"
    /\ batch' = [batch EXCEPT ![s] = requests]
    /\ requests' = <<>>
    /\ spc' = [spc EXCEPT ![s] = "start"]
    /\ UNCHANGED <<issuer, active, occ>>

(* Faulty form: the occupant is not remembered. *)
StartRequest_NoOccupant(s) ==
    /\ spc[s] = "start"
    /\ batch[s] # <<>>
    /\ ~OccupantLocked
    /\ active' = [active EXCEPT ![Head(batch[s])] = TRUE]
    /\ spc' = [spc EXCEPT ![s] = "wake"]
    /\ UNCHANGED <<issuer, requests, occ, batch>>

(* ... and run StartAndWaitCompletion for each: with both mutexes held, activate
   it and remember its thread ... *)
StartRequest(s) ==
    LET r == Head(batch[s]) IN
    /\ spc[s] = "start"
    /\ batch[s] # <<>>
    /\ ~OccupantLocked
    /\ active' = [active EXCEPT ![r] = TRUE]
    /\ has_occupant' = TRUE
    /\ occupant' = r.thread_id
    /\ spc' = [spc EXCEPT ![s] = "wake"]
    /\ UNCHANGED <<issuer, requests, batch>>

(* ... wake the issuer ... *)
StartWake(s) ==
    /\ spc[s] = "wake"
    /\ pc' = [t \in Threads |->
                 IF pc[t] = "asleep" /\ request[t] = Head(batch[s]) THEN "sync" ELSE pc[t]]
    /\ spc' = [spc EXCEPT ![s] = "test"]
    /\ UNCHANGED <<locks, request, reqs, occ, batch>>

(* ... wait until it is not active any more ... *)
WaitCompletion(s) ==
    /\ spc[s] = "test"
    /\ IF active[Head(batch[s])]
       THEN spc' = [spc EXCEPT ![s] = "asleep"] /\ UNCHANGED batch
       ELSE /\ spc' = [spc EXCEPT ![s] = "start"]
            /\ batch' = [batch EXCEPT ![s] = Tail(@)]
    /\ UNCHANGED <<issuer, reqs, occ>>

(* ... and return after the last one. *)
SynchronizeReturn(s) ==
    /\ spc[s] = "start"
    /\ batch[s] = <<>>
    /\ spc' = [spc EXCEPT ![s] = "idle"]
    /\ UNCHANGED <<issuer, reqs, occ, batch>>

(* A wait on a condition variable may return without a call to WakeOne. *)
SpuriousWake ==
    \/ /\ \E t \in Threads : pc[t] = "asleep" /\ pc' = [pc EXCEPT ![t] = "sync"]
       /\ UNCHANGED <<locks, request, reqs, occ, syncer>>
    \/ /\ \E s \in Syncers : spc[s] = "asleep" /\ spc' = [spc EXCEPT ![s] = "test"]
       /\ UNCHANGED <<issuer, reqs, occ, batch>>

-----------------------------------------------------------------------------
(* The calls a thread has begun, and the ones it is free to make. *)
IssuerStep(t) ==
    TestOccupant(t) \/ AddRequest(t) \/ RequestSynchronize(t) \/ FinishWake(t)

SyncerStep(s) ==
    StartRequest(s) \/ StartWake(s) \/ WaitCompletion(s) \/ SynchronizeReturn(s)

Next ==
    \/ \E t \in Threads : AcquireLock(t) \/ Release(t) \/ IssuerStep(t)
    \/ \E s \in Syncers : Synchronize(s) \/ SyncerStep(s)
    \/ SpuriousWake

(* Threads run when they can.  A thread releases the lock it has in the end (it
   may ask for further ones before, and release them), and Synchronize is called
   again and again. *)
Fairness ==
    /\ \A t \in Threads :
          /\ WF_vars(IssuerStep(t))
          /\ WF_vars(Release(t)) /\ SF_vars(Release(t) /\ Len(locks[t]) = 1)
    /\ \A s \in Syncers : WF_vars(Synchronize(s)) /\ WF_vars(SyncerStep(s))

Spec == Init /\ [][Next]_vars /\ Fairness

-----------------------------------------------------------------------------
Holding(t) == {r \in Requests : r \in Elements(locks[t])}
Holders == {t \in Threads : Holding(t) # {}}

(* Synchronize stops for one thread at a time: two threads never have a lock,
   and a thread has a single real one, whatever it asks for while it has it. *)
OneHolder ==
    /\ \A t, u \in Holders : t = u
    /\ \A t \in Threads : Cardinality(Holding(t)) <= 1

(* The cached occupant is the thread that is being synchronized with: it is set
   as long as some request is active, and to the thread of that request. *)
OccupantMatches ==
    /\ has_occupant <=> \E r \in Requests : active[r]
    /\ \A r \in Requests : active[r] => occupant = r.thread_id

(* "prevent dead lock in recursive AcquireLock() function calls": a thread that
   has the lock never issues another request, so it never waits for a
   Synchronize that waits for itself. *)
NestedNeverWaits ==
    \A t \in Holders : pc[t] \notin {"add", "sync", "asleep"}

(* Every AcquireLock returns, and every Synchronize. *)
AllReturn ==
    /\ \A t \in Threads : pc[t] \in {"get", "add"} ~> pc[t] = "run"
    /\ \A s \in Syncers : spc[s] = "start" ~> spc[s] = "idle"

(* The assertion in Optional::Get: "UT_ASSERT(has_value)". *)
OccupantAsserted == \A t \in Threads : pc[t] = "get" => has_occupant
=============================================================================
