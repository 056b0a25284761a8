-------------------------- MODULE SyncPointProofs ---------------------------
(***************************************************************************)
(* Proofs about SyncPoint, for any set of threads, any supply of request   *)
(* ids and any nesting depth, as long as a single thread calls             *)
(* Synchronize (with two of them the properties do not hold).              *)
(*                                                                         *)
(* What the run checks is not inductive: that the occupant is the thread   *)
(* of the active request says nothing about which request may become       *)
(* active.  The invariant follows a request through its life: its issuer   *)
(* points to it, it waits in the list or behind the head of the batch, it  *)
(* becomes the head and active, its issuer has it as a lock, Finish makes  *)
(* it inactive.  At most the head of the batch is active, and every lock   *)
(* that is not empty is active, so there is one holder.                    *)
(***************************************************************************)
EXTENDS SyncPoint, FiniteSetTheorems, SequenceTheorems, WellFoundedInduction, TLAPS

(* One thread synchronizes. *)
OneSyncer == \A s, u \in Syncers : s = u

(* The syncer has started the head of its batch and waits for it. *)
Started(s) == spc[s] \in {"wake", "test", "asleep"}

(* The issuer of r is in Request::Synchronize and r is not granted yet. *)
Waiting(r) ==
    /\ request[r.thread_id] = r
    /\ pc[r.thread_id] \in {"sync", "asleep"}
    /\ ~active[r]

(* Where a thread has a request at hand: from its creation to the grant, and in
   Finish until the syncer is woken. *)
RequestAtHand ==
    \A t \in Threads :
        /\ request[t] = Null <=> pc[t] \in {"run", "get"}
        /\ request[t] # Null => request[t].thread_id = t

(* A request is once in the list or in the batch. *)
QueuesDistinct ==
    /\ \A i, j \in 1..Len(requests) : requests[i] = requests[j] => i = j
    /\ \A s \in Syncers : \A i, j \in 1..Len(batch[s]) : batch[s][i] = batch[s][j] => i = j
    /\ \A s \in Syncers : \A i \in 1..Len(batch[s]) : \A j \in 1..Len(requests) :
          batch[s][i] # requests[j]

(* Whatever is queued and not started has an issuer that waits for it. *)
QueuesWait ==
    /\ \A i \in 1..Len(requests) : Waiting(requests[i])
    /\ \A s \in Syncers : \A i \in 1..Len(batch[s]) :
          i > 1 \/ ~Started(s) => Waiting(batch[s][i])

(* The batch is empty between two calls of Synchronize and not empty while its
   head is started; a request that is being created is not that head. *)
Batches ==
    \A s \in Syncers :
        /\ spc[s] = "idle" => batch[s] = <<>>
        /\ Started(s) => batch[s] # <<>>
        /\ Started(s) => \A t \in Threads : pc[t] = "add" => request[t] # Head(batch[s])

(* Only the started head of the batch is active. *)
ActiveIsHead ==
    \A r \in Requests : active[r] => \E s \in Syncers : Started(s) /\ Head(batch[s]) = r

(* A lock that is not empty has an active request of its own thread, the thread
   is in no request of its own, and its other locks are empty. *)
LocksActive ==
    \A t \in Threads :
        /\ \A i \in 1..Len(locks[t]) : locks[t][i] # Null =>
              /\ active[locks[t][i]]
              /\ locks[t][i].thread_id = t
              /\ pc[t] \in {"run", "get"}
        /\ \A i, j \in 1..Len(locks[t]) : locks[t][i] # Null /\ locks[t][j] # Null => i = j

Inv ==
    /\ TypeOK
    /\ RequestAtHand
    /\ QueuesDistinct
    /\ QueuesWait
    /\ Batches
    /\ ActiveIsHead
    /\ OccupantMatches
    /\ LocksActive

-----------------------------------------------------------------------------
(* A set of requests that is not empty has one with the least id, so the CHOOSE
   of CreateRequest gives a member of it. *)
LEMMA LeastId ==
    ASSUME NEW U \in SUBSET Requests, U # {}
    PROVE  (CHOOSE r \in U : \A q \in U : r.id <= q.id) \in U
<1>. DEFINE I == {r.id : r \in U}
<1>1. I \in SUBSET Nat /\ I # {}
  BY SyncAssumption DEF Requests
<1>2. PICK i \in I : \A j \in I : ~(<<j, i>> \in OpToRel(<, Nat))
  BY <1>1, NatLessThanWellFounded, WFMin
<1>3. \A j \in I : i <= j
  <2>1. \A j, k \in Nat : j < k => <<j, k>> \in OpToRel(<, Nat)
    BY DEF OpToRel
  <2>. HIDE DEF I
  <2>2. \A j \in I : ~(j < i)
    BY <1>1, <1>2, <2>1, Zenon
  <2>. QED
    BY <1>1, <2>2
<1>4. PICK r \in U : r.id = i
  BY <1>2
<1>5. \A q \in U : r.id <= q.id
  BY <1>3, <1>4
<1>. QED
  BY <1>4, <1>5

(* What a new request is: one of thread t that nobody refers to. *)
LEMMA CreateRequestFresh ==
    ASSUME NEW t \in Threads, CreateRequest(t)
    PROVE  \E new \in Requests :
              /\ new \notin Referred
              /\ new.thread_id = t
              /\ request' = [request EXCEPT ![t] = new]
              /\ active' = [active EXCEPT ![new] = FALSE]
              /\ pc' = [pc EXCEPT ![t] = "add"]
              /\ UNCHANGED <<locks, requests>>
<1>. DEFINE unused == {r \in Requests \ Referred : r.thread_id = t}
            new == CHOOSE r \in unused : \A q \in unused : r.id <= q.id
<1>1. unused # {} /\ unused \in SUBSET Requests
  BY DEF CreateRequest
<1>. HIDE DEF unused
<1>2. new \in unused
  BY <1>1, LeastId
<1>. USE DEF unused
<1>. QED
  BY <1>2 DEF CreateRequest
-----------------------------------------------------------------------------
(* The head of a batch is its first element. *)
LEMMA HeadIsFirst ==
    ASSUME Inv, NEW s \in Syncers, batch[s] # <<>>
    PROVE  Head(batch[s]) = batch[s][1] /\ 1 \in 1..Len(batch[s]) /\ batch[s][1] \in Requests
<1>1. batch[s] \in Seq(Requests)
  BY DEF Inv, TypeOK
<1>. QED
  BY <1>1, EmptySeq, HeadTailProperties

(* Under the invariant only one request is active, and it is not queued behind
   another one. *)
LEMMA OneActive ==
    ASSUME OneSyncer, Inv, NEW r \in Requests, active[r]
    PROVE  /\ \A q \in Requests : active[q] => q = r
           /\ \A t \in Threads : t # r.thread_id => \A i \in 1..Len(locks[t]) : locks[t][i] = Null
           /\ \A s \in Syncers : Started(s) /\ Head(batch[s]) = r
<1>1. \A q \in Requests : active[q] => q = r
  BY DEF Inv, ActiveIsHead, OneSyncer
<1>2. ASSUME NEW t \in Threads, t # r.thread_id, NEW i \in 1..Len(locks[t])
      PROVE  locks[t][i] = Null
  <2>1. locks[t][i] \in Requests \cup {Null}
    BY <1>2 DEF Inv, TypeOK
  <2>. QED
    BY <1>1, <1>2, <2>1 DEF Inv, LocksActive
<1>. QED
  BY <1>1, <1>2 DEF Inv, ActiveIsHead, OneSyncer

(* The initial state satisfies the invariant. *)
LEMMA InitInv == Init => Inv
<1>. SUFFICES ASSUME Init PROVE Inv
  OBVIOUS
<1>. USE DEF Init
<1>1. TypeOK
  <2>1. \A S : <<>> \in Seq(S)
    BY EmptySeq
  <2>. QED
    BY <2>1 DEF TypeOK
<1>2. RequestAtHand /\ Batches /\ ActiveIsHead /\ OccupantMatches
  BY DEF RequestAtHand, Batches, ActiveIsHead, OccupantMatches, Started
<1>3. QueuesDistinct /\ QueuesWait /\ LocksActive
  BY DEF QueuesDistinct, QueuesWait, LocksActive, Waiting
<1>. QED
  BY <1>1, <1>2, <1>3 DEF Inv

(* MakeShared<Request>: the new request is in no queue, no lock and not active. *)
LEMMA CreateRequestStep ==
    ASSUME OneSyncer, Inv, NEW t \in Threads, pc[t] \in {"run", "get"},
           CreateRequest(t), UNCHANGED <<occ, syncer>>,
           \A i \in 1..Len(locks[t]) : locks[t][i] = Null
    PROVE  Inv'
<1>1. PICK new \in Requests :
              /\ new \notin Referred
              /\ new.thread_id = t
              /\ request' = [request EXCEPT ![t] = new]
              /\ active' = [active EXCEPT ![new] = FALSE]
              /\ pc' = [pc EXCEPT ![t] = "add"]
              /\ UNCHANGED <<locks, requests>>
  BY CreateRequestFresh
<1>2. \A s \in Syncers : \A i \in 1..Len(batch[s]) : batch[s][i] # new
  <2>1. \A s \in Syncers : new \notin Elements(batch[s])
    BY <1>1 DEF Referred
  <2>. QED
    BY <2>1 DEF Elements
<1>3. ~active[new]
  BY <1>1, <1>2, HeadIsFirst DEF Inv, ActiveIsHead, Batches
<1>4. active' = active
  BY <1>1, <1>3 DEF Inv, TypeOK
<1>5. new # Null
  BY <1>1, NullAssumption
<1>6. TypeOK'
  BY <1>1 DEF Inv, TypeOK, occ, syncer
<1>7. RequestAtHand'
  BY <1>1, <1>5 DEF Inv, TypeOK, RequestAtHand
<1>8. QueuesDistinct'
  BY <1>1 DEF Inv, QueuesDistinct, syncer
<1>9. QueuesWait'
  BY <1>1, <1>4 DEF Inv, TypeOK, QueuesWait, Waiting, Started, syncer
<1>10. Batches'
  BY <1>1, <1>2 DEF Inv, TypeOK, Batches, Started, syncer
<1>11. ActiveIsHead' /\ OccupantMatches'
  BY <1>4 DEF Inv, ActiveIsHead, OccupantMatches, Started, syncer, occ
<1>12. LocksActive'
  BY <1>1, <1>4 DEF Inv, TypeOK, LocksActive
<1>. QED
  BY <1>6, <1>7, <1>8, <1>9, <1>10, <1>11, <1>12 DEF Inv

(* AcquireLock: a thread goes on to a request only if it has no real lock,
   because its lock would be active and the occupant would be this thread. *)
LEMMA AcquireStep ==
    ASSUME OneSyncer, Inv, NEW t \in Threads, AcquireLock(t) \/ TestOccupant(t)
    PROVE  Inv'
<1>1. ASSUME ~has_occupant \/ occupant # t
      PROVE  \A i \in 1..Len(locks[t]) : locks[t][i] = Null
  <2>. SUFFICES ASSUME NEW i \in 1..Len(locks[t]), locks[t][i] # Null PROVE FALSE
    OBVIOUS
  <2>1. locks[t][i] \in Requests
    BY DEF Inv, TypeOK
  <2>2. active[locks[t][i]] /\ locks[t][i].thread_id = t
    BY DEF Inv, LocksActive
  <2>. QED
    BY <1>1, <2>1, <2>2 DEF Inv, OccupantMatches
<1>2. CASE AcquireLock(t) /\ has_occupant
  <2>1. pc[t] = "run" /\ pc' = [pc EXCEPT ![t] = "get"] /\ UNCHANGED <<locks, request, reqs, occ, syncer>>
    BY <1>2 DEF AcquireLock
  <2>2. TypeOK' /\ RequestAtHand' /\ LocksActive'
    BY <2>1 DEF Inv, TypeOK, RequestAtHand, LocksActive, reqs, occ, syncer
  <2>3. QueuesDistinct' /\ OccupantMatches'
    BY <2>1 DEF Inv, QueuesDistinct, OccupantMatches, reqs, occ, syncer
  <2>4. QueuesWait'
    BY <2>1 DEF Inv, TypeOK, QueuesWait, Waiting, Started, reqs, syncer
  <2>5. Batches' /\ ActiveIsHead'
    BY <2>1 DEF Inv, TypeOK, Batches, Started, ActiveIsHead, reqs, syncer
  <2>. QED
    BY <2>2, <2>3, <2>4, <2>5 DEF Inv
<1>3. CASE AcquireLock(t) /\ ~has_occupant
  BY <1>1, <1>3, CreateRequestStep DEF AcquireLock
<1>4. CASE TestOccupant(t) /\ occupant # t
  BY <1>1, <1>4, CreateRequestStep DEF TestOccupant
<1>5. CASE TestOccupant(t) /\ occupant = t
  <2>1. /\ pc[t] = "get"
        /\ locks' = [locks EXCEPT ![t] = Append(@, Null)]
        /\ pc' = [pc EXCEPT ![t] = "run"]
        /\ UNCHANGED <<request, reqs, occ, syncer>>
    BY <1>5 DEF TestOccupant
  <2>2. TypeOK'
    BY <2>1 DEF Inv, TypeOK, reqs, occ, syncer
  <2>3. LocksActive'
    BY <2>1 DEF Inv, TypeOK, LocksActive, reqs
  <2>. QED
    BY <2>1, <2>2, <2>3 DEF Inv, TypeOK, RequestAtHand, QueuesDistinct, QueuesWait, Waiting, Batches,
       Started, ActiveIsHead, OccupantMatches, reqs, occ, syncer
<1>. QED
  BY <1>2, <1>3, <1>4, <1>5

(* The request is added to the list: it is not there yet. *)
LEMMA AddRequestStep ==
    ASSUME OneSyncer, Inv, NEW t \in Threads, AddRequest(t)
    PROVE  Inv'
<1>. USE DEF AddRequest
<1>1. request[t] \in Requests /\ request[t].thread_id = t /\ pc[t] = "add"
  BY DEF Inv, TypeOK, RequestAtHand
<1>2. \A i \in 1..Len(requests) : requests[i] # request[t]
  BY <1>1 DEF Inv, QueuesWait, Waiting
<1>2b. \A s \in Syncers : \A i \in 1..Len(batch[s]) : batch[s][i] # request[t]
  <2>. SUFFICES ASSUME NEW s \in Syncers, NEW i \in 1..Len(batch[s]), batch[s][i] = request[t]
                PROVE  FALSE
    OBVIOUS
  <2>1. ~Waiting(batch[s][i])
    BY <1>1 DEF Waiting
  <2>2. i = 1 /\ Started(s)
    BY <2>1 DEF Inv, QueuesWait
  <2>. QED
    BY <1>1, <2>2, HeadIsFirst DEF Inv, Batches
<1>3. ~active[request[t]]
  BY <1>1 DEF Inv, ActiveIsHead, Batches
<1>4. TypeOK'
  BY <1>1 DEF Inv, TypeOK, occ, syncer
<1>5. /\ Len(requests') = Len(requests) + 1 /\ Len(requests) \in Nat
      /\ \A i \in 1..Len(requests) : requests'[i] = requests[i]
      /\ requests'[Len(requests) + 1] = request[t]
  BY <1>1 DEF Inv, TypeOK
<1>6. QueuesDistinct'
  BY <1>2, <1>2b, <1>5 DEF Inv, QueuesDistinct, syncer
<1>7. QueuesWait'
  BY <1>1, <1>3, <1>5 DEF Inv, TypeOK, QueuesWait, Waiting, Started, syncer
<1>8. RequestAtHand' /\ Batches' /\ ActiveIsHead' /\ OccupantMatches' /\ LocksActive'
  BY <1>1 DEF Inv, TypeOK, RequestAtHand, Batches, Started, ActiveIsHead, OccupantMatches,
     LocksActive, occ, syncer
<1>. QED
  BY <1>4, <1>6, <1>7, <1>8 DEF Inv

(* The grant is taken: the request becomes the only real lock. *)
LEMMA RequestSynchronizeStep ==
    ASSUME OneSyncer, Inv, NEW t \in Threads, RequestSynchronize(t)
    PROVE  Inv'
<1>1. request[t] \in Requests /\ request[t].thread_id = t /\ pc[t] = "sync"
  BY DEF RequestSynchronize, Inv, TypeOK, RequestAtHand
<1>2. CASE active[request[t]]
  <2>1. /\ locks' = [locks EXCEPT ![t] = Append(@, request[t])]
        /\ request' = [request EXCEPT ![t] = Null]
        /\ pc' = [pc EXCEPT ![t] = "run"]
        /\ UNCHANGED <<reqs, occ, syncer>>
    BY <1>2 DEF RequestSynchronize
  <2>2. TypeOK'
    BY <1>1, <2>1 DEF Inv, TypeOK, reqs, occ, syncer
  <2>3. LocksActive'
    BY <1>1, <1>2, <2>1 DEF Inv, TypeOK, LocksActive, reqs
  <2>4. QueuesWait'
    BY <1>1, <1>2, <2>1 DEF Inv, TypeOK, QueuesWait, Waiting, Started, reqs, syncer
  <2>5. RequestAtHand' /\ QueuesDistinct' /\ Batches' /\ ActiveIsHead' /\ OccupantMatches'
    BY <2>1 DEF Inv, TypeOK, RequestAtHand, QueuesDistinct, Batches, Started, ActiveIsHead,
       OccupantMatches, reqs, occ, syncer
  <2>. QED
    BY <2>2, <2>3, <2>4, <2>5 DEF Inv
<1>3. CASE ~active[request[t]]
  <2>1. pc' = [pc EXCEPT ![t] = "asleep"] /\ UNCHANGED <<locks, request, reqs, occ, syncer>>
    BY <1>3 DEF RequestSynchronize
  <2>. QED
    BY <1>1, <2>1 DEF Inv, TypeOK, RequestAtHand, QueuesDistinct, QueuesWait, Waiting, Batches, Started,
       ActiveIsHead, OccupantMatches, LocksActive, reqs, occ, syncer
<1>. QED
  BY <1>2, <1>3
(* Release of the last lock acquired.  If it is a real one it is the only real
   one of all threads; Finish leaves no active request. *)
LEMMA ReleaseStep ==
    ASSUME OneSyncer, Inv, NEW t \in Threads, Release(t)
    PROVE  Inv'
<1>. DEFINE n == Len(locks[t])
            r == locks[t][n]
<1>1. /\ pc[t] = "run" /\ n > 0 /\ n \in Nat
      /\ locks' = [locks EXCEPT ![t] = SubSeq(@, 1, n - 1)]
      /\ UNCHANGED syncer
  BY DEF Release, Inv, TypeOK
<1>2. locks[t] \in Seq(Requests \cup {Null}) /\ r \in Requests \cup {Null}
  BY <1>1 DEF Inv, TypeOK
<1>3. /\ SubSeq(locks[t], 1, n - 1) \in Seq(Requests \cup {Null})
      /\ Len(SubSeq(locks[t], 1, n - 1)) = n - 1
      /\ \A i \in 1..(n - 1) : SubSeq(locks[t], 1, n - 1)[i] = locks[t][i]
  BY <1>1, <1>2, SubSeqProperties
<1>4. locks' \in [Threads -> Seq(Requests \cup {Null})]
  BY <1>1, <1>3 DEF Inv, TypeOK
<1>5. /\ Len(locks'[t]) = n - 1
      /\ \A i \in 1..(n - 1) : locks'[t][i] = locks[t][i]
      /\ \A u \in Threads \ {t} : locks'[u] = locks[u]
  BY <1>1, <1>3 DEF Inv, TypeOK
<1>6. CASE r = Null
  <2>1. UNCHANGED <<pc, request, reqs, occ>>
    BY <1>6 DEF Release
  <2>2. TypeOK'
    BY <1>1, <1>4, <2>1 DEF Inv, TypeOK, reqs, occ, syncer
  <2>3. LocksActive'
    <3>1. \A i \in 1..Len(locks'[t]) : i \in 1..Len(locks[t]) /\ locks'[t][i] = locks[t][i]
      BY <1>1, <1>5
    <3>2. \A u \in Threads : \A i \in 1..Len(locks'[u]) : i \in 1..Len(locks[u]) /\ locks'[u][i] = locks[u][i]
      BY <1>5, <3>1
    <3>3. UNCHANGED <<pc, active>>
      BY <2>1 DEF reqs
    <3>. SUFFICES ASSUME NEW u \in Threads
                  PROVE  /\ \A i \in 1..Len(locks'[u]) : locks'[u][i] # Null =>
                               active'[locks'[u][i]] /\ locks'[u][i].thread_id = u /\ pc'[u] \in {"run", "get"}
                         /\ \A i, j \in 1..Len(locks'[u]) : locks'[u][i] # Null /\ locks'[u][j] # Null => i = j
      BY DEF LocksActive
    <3>4. \A i \in 1..Len(locks'[u]) : locks'[u][i] # Null =>
             active'[locks'[u][i]] /\ locks'[u][i].thread_id = u /\ pc'[u] \in {"run", "get"}
      BY <3>2, <3>3 DEF Inv, LocksActive
    <3>5. \A i, j \in 1..Len(locks'[u]) : locks'[u][i] # Null /\ locks'[u][j] # Null => i = j
      BY <3>2 DEF Inv, LocksActive
    <3>. QED
      BY <3>4, <3>5
  <2>4. RequestAtHand' /\ QueuesDistinct' /\ Batches' /\ ActiveIsHead' /\ OccupantMatches'
    BY <1>1, <2>1 DEF Inv, RequestAtHand, QueuesDistinct, Batches, Started, ActiveIsHead,
       OccupantMatches, reqs, occ, syncer
  <2>5. QueuesWait'
    BY <1>1, <2>1 DEF Inv, QueuesWait, Waiting, Started, reqs, syncer
  <2>. QED
    BY <2>2, <2>3, <2>4, <2>5 DEF Inv
<1>7. CASE r # Null
  <2>1. /\ active' = [active EXCEPT ![r] = FALSE]
        /\ has_occupant' = FALSE
        /\ request' = [request EXCEPT ![t] = r]
        /\ pc' = [pc EXCEPT ![t] = "wake"]
        /\ UNCHANGED <<requests, occupant>>
    BY <1>7 DEF Release, Finish
  <2>2. r \in Requests /\ active[r] /\ r.thread_id = t
    BY <1>1, <1>2, <1>7 DEF Inv, LocksActive
  <2>3. \A q \in Requests : ~active'[q]
    BY <2>1, <2>2, OneActive DEF Inv, TypeOK
  <2>4. \A u \in Threads : \A i \in 1..Len(locks'[u]) : locks'[u][i] = Null
    <3>1. \A i \in 1..(n - 1) : locks[t][i] = Null
      BY <1>1, <1>7 DEF Inv, LocksActive
    <3>2. \A u \in Threads \ {t} : \A i \in 1..Len(locks[u]) : locks[u][i] = Null
      BY <2>2, OneActive
    <3>. QED
      BY <1>5, <3>1, <3>2
  <2>5. TypeOK'
    BY <1>1, <1>4, <2>1, <2>2 DEF Inv, TypeOK, syncer
  <2>6. RequestAtHand'
    BY <1>1, <1>7, <2>1, <2>2 DEF Inv, TypeOK, RequestAtHand
  <2>7. QueuesDistinct'
    BY <1>1, <2>1 DEF Inv, QueuesDistinct, syncer
  <2>8. QueuesWait'
    BY <1>1, <2>1, <2>3 DEF Inv, TypeOK, QueuesWait, Waiting, Started, syncer
  <2>9. Batches'
    BY <1>1, <2>1 DEF Inv, TypeOK, Batches, Started, syncer
  <2>10. ActiveIsHead' /\ OccupantMatches' /\ LocksActive'
    BY <2>1, <2>3, <2>4 DEF ActiveIsHead, OccupantMatches, LocksActive
  <2>. QED
    BY <2>5, <2>6, <2>7, <2>8, <2>9, <2>10 DEF Inv
<1>. QED
  BY <1>6, <1>7

(* The wake-ups move a sleeper to the test of its condition. *)
LEMMA WakeStep ==
    ASSUME OneSyncer, Inv,
           \/ \E t \in Threads : FinishWake(t)
           \/ \E s \in Syncers : StartWake(s)
           \/ SpuriousWake
    PROVE  Inv'
<1>1. /\ UNCHANGED <<locks, reqs, occ, batch>>
      /\ \A s \in Syncers : (Started(s)' <=> Started(s)) /\ (spc'[s] = "idle" => spc[s] = "idle")
      /\ spc' \in [Syncers -> {"idle", "start", "wake", "test", "asleep"}]
  <2>1. CASE \E t \in Threads : FinishWake(t)
    BY <2>1 DEF FinishWake, Inv, TypeOK, Started
  <2>2. CASE \E s \in Syncers : StartWake(s)
    BY <2>2 DEF StartWake, Inv, TypeOK, Started
  <2>3. CASE SpuriousWake
    BY <2>3 DEF SpuriousWake, Inv, TypeOK, Started, syncer, issuer
  <2>. QED
    BY <2>1, <2>2, <2>3
<1>2. /\ pc' \in [Threads -> {"run", "get", "add", "sync", "asleep", "wake"}]
      /\ request' \in [Threads -> Requests \cup {Null}]
      /\ \A t \in Threads :
            \/ pc'[t] = pc[t] /\ request'[t] = request[t]
            \/ pc[t] = "asleep" /\ pc'[t] = "sync" /\ request'[t] = request[t]
            \/ pc[t] = "wake" /\ pc'[t] = "run" /\ request'[t] = Null
  <2>1. CASE \E t \in Threads : FinishWake(t)
    BY <2>1 DEF FinishWake, Inv, TypeOK
  <2>2. CASE \E s \in Syncers : StartWake(s)
    BY <2>2 DEF StartWake, Inv, TypeOK
  <2>3. CASE SpuriousWake
    <3>1. CASE /\ \E t \in Threads : pc[t] = "asleep" /\ pc' = [pc EXCEPT ![t] = "sync"]
               /\ UNCHANGED request
      BY <3>1 DEF Inv, TypeOK
    <3>2. CASE UNCHANGED <<pc, request>>
      BY <3>2 DEF Inv, TypeOK
    <3>. QED
      BY <2>3, <3>1, <3>2 DEF SpuriousWake, issuer
  <2>. QED
    BY <2>1, <2>2, <2>3
<1>3. TypeOK'
  BY <1>1, <1>2 DEF Inv, TypeOK, reqs, occ
<1>4. RequestAtHand'
  BY <1>2 DEF Inv, RequestAtHand
<1>5. QueuesDistinct' /\ OccupantMatches'
  BY <1>1 DEF Inv, QueuesDistinct, OccupantMatches, reqs, occ
<1>6. QueuesWait'
  <2>1. ASSUME NEW r \in Requests, Waiting(r)
        PROVE  request'[r.thread_id] = r /\ pc'[r.thread_id] \in {"sync", "asleep"} /\ ~active'[r]
    BY <1>1, <1>2, <2>1 DEF Waiting, reqs, Requests
  <2>2. \A i \in 1..Len(requests') : Waiting(requests[i])'
    BY <1>1, <2>1 DEF Inv, TypeOK, QueuesWait, Waiting, reqs
  <2>3. \A s \in Syncers : \A i \in 1..Len(batch'[s]) :
           i > 1 \/ ~Started(s)' => Waiting(batch[s][i])'
    <3>. SUFFICES ASSUME NEW s \in Syncers, NEW i \in 1..Len(batch'[s]), i > 1 \/ ~Started(s)'
                  PROVE  Waiting(batch[s][i])'
      OBVIOUS
    <3>1. Waiting(batch[s][i]) /\ batch[s][i] \in Requests
      BY <1>1 DEF Inv, TypeOK, QueuesWait
    <3>. QED
      BY <1>1, <2>1, <3>1 DEF Waiting
  <2>. QED
    BY <2>2, <2>3 DEF QueuesWait
<1>7. Batches' /\ ActiveIsHead'
  BY <1>1, <1>2 DEF Inv, Batches, ActiveIsHead, reqs
<1>8. LocksActive'
  BY <1>1, <1>2 DEF Inv, LocksActive, reqs
<1>. QED
  BY <1>3, <1>4, <1>5, <1>6, <1>7, <1>8 DEF Inv

(* Synchronize takes the list over as a whole. *)
LEMMA SynchronizeStep ==
    ASSUME OneSyncer, Inv, NEW s \in Syncers, Synchronize(s)
    PROVE  Inv'
<1>. USE DEF Synchronize
<1>1. batch[s] = <<>> /\ \A u \in Syncers : u = s
  BY DEF Inv, Batches, OneSyncer
<1>2. TypeOK'
  BY EmptySeq DEF Inv, TypeOK, issuer, occ
<1>3. batch'[s] = requests /\ ~Started(s)' /\ Len(requests') = 0 /\ spc'[s] = "start"
  BY DEF Inv, TypeOK, Started
<1>4. QueuesDistinct'
  BY <1>1, <1>3 DEF Inv, QueuesDistinct
<1>5. QueuesWait'
  BY <1>1, <1>3 DEF Inv, QueuesWait, Waiting, issuer
<1>6. Batches'
  BY <1>1, <1>3 DEF Batches
<1>7. \A r \in Requests : ~active[r]
  BY <1>1 DEF Inv, ActiveIsHead, Started
<1>8. RequestAtHand' /\ ActiveIsHead' /\ OccupantMatches' /\ LocksActive'
  BY <1>7 DEF Inv, RequestAtHand, ActiveIsHead, OccupantMatches, LocksActive, issuer, occ
<1>. QED
  BY <1>2, <1>4, <1>5, <1>6, <1>8 DEF Inv

(* The head of the batch is started: nothing was active before. *)
LEMMA StartRequestStep ==
    ASSUME OneSyncer, Inv, NEW s \in Syncers, StartRequest(s)
    PROVE  Inv'
<1>. DEFINE r == Head(batch[s])
<1>1. /\ spc[s] = "start" /\ batch[s] # <<>>
      /\ active' = [active EXCEPT ![r] = TRUE]
      /\ has_occupant' = TRUE
      /\ occupant' = r.thread_id
      /\ spc' = [spc EXCEPT ![s] = "wake"]
      /\ UNCHANGED <<issuer, requests, batch>>
  BY DEF StartRequest
<1>2. r = batch[s][1] /\ r \in Requests /\ 1 \in 1..Len(batch[s])
  BY <1>1, HeadIsFirst
<1>3. \A u \in Syncers : u = s
  BY DEF OneSyncer
<1>4. \A q \in Requests : ~active[q]
  BY <1>1, <1>3 DEF Inv, ActiveIsHead, Started
<1>5. Waiting(r)
  BY <1>1, <1>2 DEF Inv, QueuesWait, Started
<1>6. \A q \in Requests : active'[q] <=> q = r
  BY <1>1, <1>2, <1>4 DEF Inv, TypeOK
<1>. HIDE DEF r
<1>7. TypeOK'
  <2>1. r.thread_id \in Threads
    BY <1>2 DEF Requests
  <2>. QED
    BY <1>1, <1>2, <2>1 DEF Inv, TypeOK, issuer
<1>8. QueuesDistinct'
  BY <1>1 DEF Inv, QueuesDistinct
<1>9. QueuesWait'
  <2>1. \A q \in Requests : Waiting(q) /\ q # r => Waiting(q)'
    BY <1>1, <1>6 DEF Waiting, issuer
  <2>2. \A i \in 1..Len(requests) : requests[i] # r /\ requests[i] \in Requests
    BY <1>2 DEF Inv, TypeOK, QueuesDistinct
  <2>3. \A i \in 1..Len(batch[s]) : i > 1 => batch[s][i] # r /\ batch[s][i] \in Requests
    BY <1>2 DEF Inv, TypeOK, QueuesDistinct
  <2>4. Started(s)'
    BY <1>1 DEF Inv, TypeOK, Started
  <2>. QED
    BY <1>1, <1>3, <2>1, <2>2, <2>3, <2>4 DEF Inv, QueuesWait
<1>10. Batches'
  <2>1. \A t \in Threads : pc[t] = "add" => request[t] # r
    BY <1>5 DEF Inv, RequestAtHand, Waiting
  <2>. QED
    BY <1>1, <1>3, <2>1 DEF Inv, TypeOK, Batches, issuer, r
<1>11. ActiveIsHead'
  BY <1>1, <1>6 DEF Inv, TypeOK, ActiveIsHead, Started, r
<1>12. OccupantMatches'
  BY <1>1, <1>2, <1>6 DEF OccupantMatches
<1>13. RequestAtHand'
  BY <1>1 DEF Inv, RequestAtHand, issuer
<1>14. LocksActive'
  <2>1. \A t \in Threads : \A i \in 1..Len(locks[t]) : locks[t][i] = Null
    BY <1>4 DEF Inv, TypeOK, LocksActive
  <2>. QED
    BY <1>1, <2>1 DEF LocksActive, issuer
<1>. QED
  BY <1>7, <1>8, <1>9, <1>10, <1>11, <1>12, <1>13, <1>14 DEF Inv

(* The syncer leaves the head of the batch only when it is not active. *)
LEMMA WaitCompletionStep ==
    ASSUME OneSyncer, Inv, NEW s \in Syncers, WaitCompletion(s) \/ SynchronizeReturn(s)
    PROVE  Inv'
<1>1. UNCHANGED <<issuer, reqs, occ>> /\ \A u \in Syncers : u = s
  BY DEF WaitCompletion, SynchronizeReturn, OneSyncer
<1>2. \A q \in Requests : Waiting(q)' <=> Waiting(q)
  BY <1>1 DEF Waiting, issuer, reqs
<1>3. RequestAtHand' /\ OccupantMatches' /\ LocksActive'
  BY <1>1 DEF Inv, RequestAtHand, OccupantMatches, LocksActive, issuer, reqs, occ
<1>4. CASE SynchronizeReturn(s) \/ active[Head(batch[s])]
  <2>. batch' = batch
    BY <1>4 DEF WaitCompletion, SynchronizeReturn
  <2>1. /\ spc' \in [Syncers -> {"idle", "start", "wake", "test", "asleep"}]
        /\ Started(s)' <=> Started(s)
        /\ spc'[s] = "idle" => batch[s] = <<>>
    BY <1>4 DEF WaitCompletion, SynchronizeReturn, Inv, TypeOK, Started
  <2>2. TypeOK'
    BY <1>1, <2>1 DEF Inv, TypeOK, issuer, reqs, occ
  <2>3. QueuesDistinct'
    BY <1>1 DEF Inv, QueuesDistinct, reqs
  <2>4. QueuesWait'
    BY <1>1, <1>2, <2>1 DEF Inv, TypeOK, QueuesWait, reqs
  <2>5. Batches' /\ ActiveIsHead'
    BY <1>1, <2>1 DEF Inv, Batches, ActiveIsHead, issuer, reqs
  <2>. QED
    BY <1>3, <2>2, <2>3, <2>4, <2>5 DEF Inv
<1>5. CASE WaitCompletion(s) /\ ~active[Head(batch[s])]
  <2>1. /\ spc[s] = "test" /\ ~active[Head(batch[s])]
        /\ spc' = [spc EXCEPT ![s] = "start"]
        /\ batch' = [batch EXCEPT ![s] = Tail(@)]
    BY <1>5 DEF WaitCompletion
  <2>2. batch[s] \in Seq(Requests) /\ batch[s] # <<>>
    BY <2>1 DEF Inv, TypeOK, Batches, Started
  <2>3. /\ Tail(batch[s]) \in Seq(Requests)
        /\ Len(batch[s]) \in Nat
        /\ Len(Tail(batch[s])) = Len(batch[s]) - 1
        /\ \A i \in 1..Len(Tail(batch[s])) : Tail(batch[s])[i] = batch[s][i + 1]
    BY <2>2, HeadTailProperties
  <2>4. TypeOK'
    BY <1>1, <2>1, <2>3 DEF Inv, TypeOK, issuer, reqs, occ
  <2>5. batch'[s] = Tail(batch[s])
    BY <2>1 DEF Inv, TypeOK
  <2>6. QueuesDistinct'
    <3>1. \A i \in 1..Len(batch'[s]) : i + 1 \in 1..Len(batch[s]) /\ batch'[s][i] = batch[s][i + 1]
      BY <2>3, <2>5
    <3>2. \A i, j \in 1..Len(batch'[s]) : batch'[s][i] = batch'[s][j] => i = j
      BY <3>1, <2>3 DEF Inv, QueuesDistinct
    <3>. QED
      BY <1>1, <3>1, <3>2 DEF Inv, QueuesDistinct, reqs
  <2>7. QueuesWait'
    <3>1. \A i \in 1..Len(batch'[s]) : Waiting(batch'[s][i])
      <4>1. \A j \in 1..Len(batch[s]) : j > 1 => Waiting(batch[s][j])
        BY DEF Inv, QueuesWait
      <4>2. \A i \in 1..Len(batch'[s]) :
               i + 1 \in 1..Len(batch[s]) /\ i + 1 > 1 /\ batch'[s][i] = batch[s][i + 1]
        BY <2>3, <2>5
      <4>. QED
        BY <4>1, <4>2
    <3>2. \A i \in 1..Len(batch'[s]) : batch'[s][i] \in Requests
      BY <2>3, <2>5
    <3>. QED
      BY <1>1, <1>2, <3>1, <3>2 DEF Inv, TypeOK, QueuesWait, Waiting, issuer, reqs
  <2>8. \A q \in Requests : ~active[q]
    BY <1>1, <2>1 DEF Inv, ActiveIsHead
  <2>9. Batches' /\ ActiveIsHead'
    BY <1>1, <2>1, <2>8 DEF Inv, TypeOK, Batches, ActiveIsHead, Started, reqs
  <2>. QED
    BY <1>3, <2>4, <2>6, <2>7, <2>9 DEF Inv
<1>. QED
  BY <1>4, <1>5

-----------------------------------------------------------------------------
(* Every step preserves the invariant. *)
LEMMA NextInv ==
    ASSUME OneSyncer, Inv, [Next]_vars
    PROVE  Inv'
<1>1. CASE UNCHANGED vars
  <2>. USE <1>1 DEF vars, issuer, reqs, occ, syncer, Inv
  <2>1. TypeOK'
    BY DEF TypeOK
  <2>2. RequestAtHand' /\ OccupantMatches'
    BY DEF RequestAtHand, OccupantMatches
  <2>3. LocksActive'
    BY DEF LocksActive
  <2>4. QueuesDistinct'
    BY DEF QueuesDistinct
  <2>5. QueuesWait'
    BY DEF QueuesWait, Waiting, Started
  <2>6. Batches' /\ ActiveIsHead'
    BY DEF Batches, ActiveIsHead, Started
  <2>. QED
    BY <2>1, <2>2, <2>3, <2>4, <2>5, <2>6
<1>2. CASE Next
  BY <1>2, AcquireStep, ReleaseStep, AddRequestStep, RequestSynchronizeStep, WakeStep, SynchronizeStep,
     StartRequestStep, WaitCompletionStep DEF Next, IssuerStep, SyncerStep
<1>. QED
  BY <1>1, <1>2

(* The invariant holds in every state. *)
LEMMA Invariance ==
    ASSUME OneSyncer
    PROVE  Spec => []Inv
<1>1. Inv /\ [Next]_vars => Inv'
  BY NextInv
<1>. QED
  BY InitInv, <1>1, PTL DEF Spec

(* A thread with a lock is the issuer of the active request. *)
LEMMA HolderActive ==
    ASSUME Inv, NEW t \in Threads, NEW r \in Holding(t)
    PROVE  r \in Requests /\ active[r] /\ r.thread_id = t /\ pc[t] \in {"run", "get"}
<1>1. r \in Requests /\ r \in Elements(locks[t])
  BY DEF Holding
<1>2. PICK i \in 1..Len(locks[t]) : locks[t][i] = r
  BY <1>1 DEF Elements
<1>. QED
  BY <1>1, <1>2, NullAssumption DEF Inv, LocksActive

(* Variables of the specification have the values their declaration allows. *)
THEOREM TypeCorrect ==
    ASSUME OneSyncer
    PROVE  Spec => []TypeOK
<1>1. Inv => TypeOK
  BY DEF Inv
<1>. QED
  BY Invariance, <1>1, PTL

(* Synchronize stops for one thread at a time: no two threads have a lock of the
   synchronization point, and no thread has two real ones. *)
THEOREM SingleHolder ==
    ASSUME OneSyncer
    PROVE  Spec => []OneHolder
<1>1. Inv => OneHolder
  <2>. SUFFICES ASSUME Inv PROVE OneHolder
    OBVIOUS
  <2>1. \A t, u \in Threads : \A r \in Holding(t) : \A q \in Holding(u) : r = q /\ t = u
    <3>. SUFFICES ASSUME NEW t \in Threads, NEW u \in Threads,
                         NEW r \in Holding(t), NEW q \in Holding(u)
                  PROVE  r = q /\ t = u
      OBVIOUS
    <3>1. r \in Requests /\ active[r] /\ r.thread_id = t
      BY HolderActive
    <3>2. q \in Requests /\ active[q] /\ q.thread_id = u
      BY HolderActive
    <3>. QED
      BY <3>1, <3>2, OneActive
  <2>2. \A t, u \in Holders : t = u
    BY <2>1 DEF Holders
  <2>3. ASSUME NEW t \in Threads PROVE Cardinality(Holding(t)) <= 1
    <3>1. CASE Holding(t) = {}
      BY <3>1, FS_EmptySet
    <3>2. CASE Holding(t) # {}
      <4>1. PICK r \in Holding(t) : TRUE
        BY <3>2
      <4>2. Holding(t) = {r}
        BY <2>1, <4>1
      <4>3. Cardinality({r}) = 1
        BY FS_Singleton
      <4>. QED
        BY <4>2, <4>3
    <3>. QED
      BY <3>1, <3>2
  <2>. QED
    BY <2>2, <2>3 DEF OneHolder
<1>. QED
  BY Invariance, <1>1, PTL

(* The cached occupant is the thread that Synchronize has stopped for, and there
   is one exactly while a request is active. *)
THEOREM OccupantCorrect ==
    ASSUME OneSyncer
    PROVE  Spec => []OccupantMatches
<1>1. Inv => OccupantMatches
  BY DEF Inv
<1>. QED
  BY Invariance, <1>1, PTL

(* A thread that has the lock never queues another request behind itself: the
   recursive AcquireLock cannot deadlock. *)
THEOREM RecursiveAcquireSafe ==
    ASSUME OneSyncer
    PROVE  Spec => []NestedNeverWaits
<1>1. Inv => NestedNeverWaits
  BY HolderActive DEF NestedNeverWaits, Holders
<1>. QED
  BY Invariance, <1>1, PTL
=============================================================================
