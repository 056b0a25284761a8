--------------------------- MODULE NetHostProofs ----------------------------
(***************************************************************************)
(* Proofs about NetHost, for any number of connections, with peers that    *)
(* connect, fail and close at any time.                                    *)
(*                                                                         *)
(* Whoever changes the array of connections or destroys a connection that  *)
(* is in it has the array locked for writing and is alone with it (Locks), *)
(* so the array has exactly the connections that are alive, but for those  *)
(* its writer is about to remove and the one a server is about to add      *)
(* (Array, Closers).  A thread that is not yet done with its connection    *)
(* has a Thread object its destructor can wait for, unless that was not    *)
(* stored yet (Threads).  Once the host stops, Run adds at most one more   *)
(* connection (Survivor).                                                  *)
(***************************************************************************)
EXTENDS NetHost, SequenceTheorems, TLAPS

WriteLocations == DestroyLocations \cup {"add", "connect", "next", "removed"}
Writes(a) ==
    \/ pc[a] \in WriteLocations
    \/ kind = "client" /\ pc[a] \in {"start", "assign"}
Reads(a) == pc[a] = "sending"

(* Who has the lock of the array, and that writers are alone with it. *)
Locks ==
    /\ \A a \in Actors : /\ lock[a] = "write" <=> Writes(a)
                         /\ lock[a] = "read" <=> Reads(a)
    /\ \A a, b \in Actors : a # b /\ lock[a] = "write" => lock[b] = "none"

(* Where the thread of a connection may still be, without having deleted its Thread. *)
ThreadLocations == LoopLocations \cup {"shutdown", "shut_socket", "delete_thread"}

Threads ==
    \A k \in Conns :
        /\ object[k] = "none" => pc[k] = "none"
        /\ pc[k] \in ThreadLocations =>
              thread[k] \/ object[k] = "destroyed" \/ (pc[runner] = "assign" /\ arg[runner] = k)

Closers ==
    \A a \in Actors :
        /\ pc[a] \in DestroyLocations => object[arg[a]] = "alive" /\ Contains(connections, arg[a])
        /\ pc[a] = "removed" => object[arg[a]] = "destroyed" \/ ~Contains(connections, arg[a])

Destroying == pc[owner] \in DestroyLocations \cup {"next"}
Adding == pc[runner] \in {"add_lock", "add"}

Array ==
    /\ \A i, j \in DOMAIN connections : connections[i] = connections[j] => i = j
    /\ \A k \in Conns : Contains(connections, k) /\ object[k] # "alive" =>
          Destroying \/ \E c \in Callers : pc[c] = "removed" /\ arg[c] = k
    /\ \A k \in Conns : object[k] = "alive" => Contains(connections, k) \/ (Adding /\ arg[runner] = k)
    /\ \A k \in Conns : object[k] = "none" => ~Contains(connections, k)
    /\ Adding => object[arg[runner]] = "alive" /\ ~Contains(connections, arg[runner])

(* Which steps of Run are whose, and that a client starts what it has just added. *)
Running ==
    /\ kind = "server" => pc[runner] \notin {"lock", "connect"}
    /\ kind = "client" => pc[runner] \notin {"poll", "add_lock", "add"}
    /\ kind = "client" /\ pc[runner] = "start" =>
          connections = <<arg[runner]>> /\ pc[arg[runner]] = "none"

SettingUp == {"poll", "add_lock", "add", "lock", "connect"}

(* When ShutDown has returned, Run has at most the connection it was setting up. *)
Survivor ==
    pc[owner] = "returned" /\ Stopping =>
        /\ pc[runner] \in SettingUp => connections = <<>>
        /\ \A k \in Conns : Contains(connections, k) => k = arg[runner]

Inv == TypeOK /\ Locks /\ Threads /\ Closers /\ Array /\ Running /\ Survivor
-----------------------------------------------------------------------------
(* The actors are different from each other. *)
LEMMA Roles ==
    /\ runner \in Actors /\ owner \in Actors /\ user \in Actors /\ Conns \subseteq Actors
    /\ runner # owner /\ runner # user /\ owner # user
    /\ runner \notin Conns /\ owner \notin Conns /\ user \notin Conns
    /\ Callers \subseteq Actors /\ runner \notin Callers /\ owner \notin Callers
    /\ \A a \in Actors : a = runner \/ a = owner \/ a \in Callers
BY NetHostAssumption DEF Actors, Callers

(* Removing k from an array without duplicates. *)
LEMMA Removed ==
    ASSUME NEW S, NEW s \in Seq(S), NEW k,
           \A i, j \in DOMAIN s : s[i] = s[j] => i = j
    PROVE  /\ RemoveFound(s, k) \in Seq(S)
           /\ \A i, j \in DOMAIN RemoveFound(s, k) : RemoveFound(s, k)[i] = RemoveFound(s, k)[j] => i = j
           /\ \A e : Contains(RemoveFound(s, k), e) <=> Contains(s, e) /\ e # k
<1>. DEFINE r == RemoveFound(s, k)
            Good(n) == /\ n \in Nat /\ r \in [1 .. n -> S]
                       /\ \A i, j \in 1 .. n : r[i] = r[j] => i = j
                       /\ \A e : (\E i \in 1 .. n : r[i] = e) <=> (\E i \in 1 .. Len(s) : s[i] = e) /\ e # k
<1>1. /\ Len(s) \in Nat /\ DOMAIN s = 1 .. Len(s) /\ \A i \in 1 .. Len(s) : s[i] \in S
      /\ Contains(s, k) <=> \E i \in 1 .. Len(s) : s[i] = k
  BY DEF Contains
<1>2. ASSUME Contains(s, k) PROVE Good(Len(s) - 1)
  <2>1. PICK p \in 1 .. Len(s) : s[p] = k
    BY <1>1, <1>2
  <2>2. \A i \in 1 .. Len(s) : s[i] = k <=> i = p
    BY <1>1, <2>1
  <2>3. Len(s) - 1 \in Nat
    BY <1>1, <2>1
  <2>4. \A i \in 1 .. Len(s) - 1 : (\E j \in 1 .. i : s[j] = k) <=> p <= i
    BY <1>1, <2>2
  <2>5. /\ DOMAIN r = 1 .. Len(s) - 1
        /\ r = [i \in 1 .. Len(s) - 1 |-> r[i]]
        /\ \A i \in 1 .. Len(s) - 1 : r[i] = IF p <= i THEN s[i + 1] ELSE s[i]
    BY <1>2, <2>4 DEF RemoveFound
  <2>. HIDE DEF r
  <2>6. \A i \in 1 .. Len(s) - 1 : r[i] \in S
    BY <1>1, <2>5
  <2>7. r \in [1 .. Len(s) - 1 -> S]
    BY <2>5, <2>6
  <2>8. \A i, j \in 1 .. Len(s) - 1 : r[i] = r[j] => i = j
    BY <1>1, <2>5
  <2>9. ASSUME NEW e, NEW i \in 1 .. Len(s) - 1, r[i] = e
        PROVE  (\E j \in 1 .. Len(s) : s[j] = e) /\ e # k
    <3>1. CASE p <= i
      <4>1. i + 1 \in 1 .. Len(s) /\ s[i + 1] = e /\ i + 1 # p
        BY <1>1, <2>5, <2>9, <3>1
      <4>. QED
        BY <2>2, <4>1
    <3>2. CASE ~(p <= i)
      <4>1. i \in 1 .. Len(s) /\ s[i] = e /\ i # p
        BY <1>1, <2>5, <2>9, <3>2
      <4>. QED
        BY <2>2, <4>1
    <3>. QED
      BY <3>1, <3>2
  <2>10. ASSUME NEW e, NEW j \in 1 .. Len(s), s[j] = e, e # k
         PROVE  \E i \in 1 .. Len(s) - 1 : r[i] = e
    <3>0. j # p
      BY <2>1, <2>10
    <3>1. CASE j < p
      <4>1. j \in 1 .. Len(s) - 1 /\ r[j] = e
        BY <1>1, <2>5, <2>10, <3>1
      <4>. QED
        BY <4>1
    <3>2. CASE p < j
      <4>1. j - 1 \in 1 .. Len(s) - 1 /\ p <= j - 1 /\ (j - 1) + 1 = j
        BY <1>1, <3>2
      <4>2. r[j - 1] = e
        BY <2>5, <2>10, <4>1
      <4>. QED
        BY <4>1, <4>2
    <3>. QED
      BY <1>1, <3>0, <3>1, <3>2
  <2>. QED
    BY <2>3, <2>7, <2>8, <2>9, <2>10
<1>3. ASSUME ~Contains(s, k) PROVE Good(Len(s))
  <2>1. \A i \in 1 .. Len(s) : s[i] # k
    BY <1>1, <1>3
  <2>2. \A i \in 1 .. Len(s) : ~\E j \in 1 .. i : s[j] = k
    BY <1>1, <2>1
  <2>3. /\ r = [i \in 1 .. Len(s) |-> r[i]]
        /\ \A i \in 1 .. Len(s) : r[i] = s[i]
    BY <1>3, <2>2 DEF RemoveFound
  <2>. HIDE DEF r
  <2>4. r \in [1 .. Len(s) -> S]
    BY <1>1, <2>3
  <2>. QED
    BY <1>1, <2>1, <2>3, <2>4
<1>4. PICK n : Good(n)
  BY <1>2, <1>3
<1>. HIDE DEF r
<1>5. r \in Seq(S) /\ Len(r) = n /\ DOMAIN r = 1 .. n
  BY <1>4, SeqDef, LenProperties
<1>6. \A e : Contains(r, e) <=> Contains(s, e) /\ e # k
  BY <1>4, <1>5 DEF Contains
<1>. QED
  BY <1>4, <1>5, <1>6 DEF r

(* A step of one actor that takes the lock, gives it back, or leaves it alone. *)
LEMMA LockKept ==
    ASSUME Inv, NEW a \in Actors,
           \A b \in Actors \ {a} : (Writes(b)' <=> Writes(b)) /\ (Reads(b)' <=> Reads(b)),
           \/ /\ lock' = lock
              /\ Writes(a)' <=> Writes(a)
              /\ Reads(a)' <=> Reads(a)
           \/ RW!Lock(a, "write") /\ Writes(a)' /\ ~Reads(a)'
           \/ RW!Lock(a, "read") /\ ~Writes(a)' /\ Reads(a)'
           \/ RW!Unlock(a) /\ ~Writes(a)' /\ ~Reads(a)'
    PROVE  Locks' /\ RW!TypeOK'
<1>1. lock \in [Actors -> {"read", "write", "none"}]
  BY DEF Inv, TypeOK, RW!TypeOK, RW!Access
<1>2. \A b \in Actors \ {a} : (Writes(b)' <=> Writes(b)) /\ (Reads(b)' <=> Reads(b))
  OBVIOUS
<1>3. CASE lock' = lock /\ (Writes(a)' <=> Writes(a)) /\ (Reads(a)' <=> Reads(a))
  BY <1>2, <1>3 DEF Inv, TypeOK, RW!TypeOK, Locks
<1>4. CASE RW!Lock(a, "write") /\ Writes(a)' /\ ~Reads(a)'
  <2>1. lock'[a] = "write" /\ \A b \in Actors \ {a} : lock'[b] = lock[b] /\ lock[b] = "none"
    BY <1>1, <1>4 DEF RW!Lock
  <2>2. lock' \in [Actors -> {"read", "write", "none"}]
    BY <1>1, <1>4 DEF RW!Lock
  <2>. QED
    BY <1>2, <1>4, <2>1, <2>2 DEF Inv, Locks, RW!TypeOK, RW!Access
<1>5. CASE RW!Lock(a, "read") /\ ~Writes(a)' /\ Reads(a)'
  <2>1. lock'[a] = "read" /\ \A b \in Actors \ {a} : lock'[b] = lock[b] /\ lock[b] # "write"
    BY <1>1, <1>5 DEF RW!Lock
  <2>2. lock' \in [Actors -> {"read", "write", "none"}]
    BY <1>1, <1>5 DEF RW!Lock
  <2>. QED
    BY <1>2, <1>5, <2>1, <2>2 DEF Inv, Locks, RW!TypeOK, RW!Access
<1>6. CASE RW!Unlock(a) /\ ~Writes(a)' /\ ~Reads(a)'
  <2>1. lock'[a] = "none" /\ \A b \in Actors \ {a} : lock'[b] = lock[b]
    BY <1>1, <1>6 DEF RW!Unlock
  <2>2. lock' \in [Actors -> {"read", "write", "none"}]
    BY <1>1, <1>6 DEF RW!Unlock
  <2>. QED
    BY <1>2, <1>6, <2>1, <2>2 DEF Inv, Locks, RW!TypeOK, RW!Access
<1>. QED
  BY <1>3, <1>4, <1>5, <1>6

(* The writer of the array is alone with it. *)
LEMMA Alone ==
    ASSUME Inv, NEW a \in Actors, Writes(a)
    PROVE  \A b \in Actors : b # a => ~Writes(b) /\ ~Reads(b)
BY DEF Inv, Locks

(* The locations of each actor. *)
Locations(a) ==
    IF a = runner THEN RunnerLocations
    ELSE IF a = owner THEN OwnerLocations
    ELSE IF a = user THEN UserLocations ELSE ConnLocations

(* A step of one actor, which stays within the locations of that actor. *)
LEMMA PcMoves ==
    ASSUME TypeOK, NEW a \in Actors, NEW l \in Locations(a), Goto(a, l)
    PROVE  /\ pc'[a] = l /\ \A b \in Actors \ {a} : pc'[b] = pc[b]
           /\ pc' \in [Actors -> RunnerLocations \cup ConnLocations \cup OwnerLocations \cup UserLocations]
           /\ pc'[runner] \in RunnerLocations /\ pc'[owner] \in OwnerLocations /\ pc'[user] \in UserLocations
           /\ \A k \in Conns : pc'[k] \in ConnLocations
<1>1. l \in RunnerLocations \cup ConnLocations \cup OwnerLocations \cup UserLocations
  BY DEF Locations
<1>2. /\ pc'[a] = l /\ \A b \in Actors \ {a} : pc'[b] = pc[b]
      /\ pc' \in [Actors -> RunnerLocations \cup ConnLocations \cup OwnerLocations \cup UserLocations]
  BY <1>1 DEF TypeOK, Goto
<1>3. /\ a = runner => l \in RunnerLocations
      /\ a = owner => l \in OwnerLocations
      /\ a = user => l \in UserLocations
      /\ a \in Conns => l \in ConnLocations
  BY Roles DEF Locations
<1>. QED
  BY <1>2, <1>3, Roles DEF TypeOK

-----------------------------------------------------------------------------
(* Most steps move one actor and leave the array and the existence of connections
   alone.  What they must respect: *)
Plain(a, l) ==
    /\ pc[a] \notin {"none", "removed", "start", "assign"}
    /\ l \notin {"none", "start", "assign", "returned"}
    /\ l \in DestroyLocations => object[arg'[a]] = "alive" /\ Contains(connections, arg'[a])
    /\ l = "removed" => object[arg'[a]] = "destroyed" \/ ~Contains(connections, arg'[a])
    /\ \A k \in Conns : thread'[k] = thread[k] \/ pc[k] = "done" \/ (k = a /\ l \notin ThreadLocations)
    /\ a \in Conns /\ l \in ThreadLocations => pc[a] \in ThreadLocations
    /\ a = owner /\ Destroying => l \in DestroyLocations \cup {"next"}
    /\ host_active' = host_active \/ (a = runner /\ host_active') \/ (a = owner /\ pc[owner] = "idle")
    /\ a = runner =>
          /\ arg'[a] = arg[a]
          /\ pc[a] = "begin" => host_active'
          /\ l \in {"add_lock", "add"} <=> Adding
          /\ l \in SettingUp => host_active \/ pc[a] \in SettingUp
          /\ kind = "server" => l \notin {"lock", "connect"}
          /\ kind = "client" => l \notin {"poll", "add_lock", "add"}

LEMMA PlainStep ==
    ASSUME Inv, NEW a \in Actors, NEW l \in Locations(a), Goto(a, l), Plain(a, l),
           UNCHANGED <<kind, connections, object>>,
           arg' \in [Actors -> Conns], \A b \in Actors \ {a} : arg'[b] = arg[b],
           host_active' \in BOOLEAN, active' \in [Conns -> BOOLEAN], receiving' \in [Conns -> BOOLEAN],
           shut' \in [Conns -> BOOLEAN], thread' \in [Conns -> BOOLEAN],
           \/ /\ lock' = lock
              /\ l \in WriteLocations <=> pc[a] \in WriteLocations
              /\ l = "sending" <=> pc[a] = "sending"
           \/ RW!Lock(a, "write") /\ l \in WriteLocations
           \/ RW!Lock(a, "read") /\ l = "sending"
           \/ RW!Unlock(a) /\ l \notin WriteLocations \cup {"sending"}
    PROVE  Inv'
<1>1. /\ pc'[a] = l /\ \A b \in Actors \ {a} : pc'[b] = pc[b]
      /\ pc' \in [Actors -> RunnerLocations \cup ConnLocations \cup OwnerLocations \cup UserLocations]
      /\ pc'[runner] \in RunnerLocations /\ pc'[owner] \in OwnerLocations /\ pc'[user] \in UserLocations
      /\ \A k \in Conns : pc'[k] \in ConnLocations
  BY PcMoves DEF Inv
<1>2. \A b \in Actors \ {a} : (Writes(b)' <=> Writes(b)) /\ (Reads(b)' <=> Reads(b))
  BY <1>1 DEF Writes, Reads
<1>3. Locks' /\ RW!TypeOK'
  <2>1. /\ Writes(a)' <=> l \in WriteLocations
        /\ Writes(a) <=> pc[a] \in WriteLocations
        /\ Reads(a)' <=> l = "sending"
        /\ Reads(a) <=> pc[a] = "sending"
    BY <1>1 DEF Writes, Reads, Plain
  <2>2. "sending" \notin WriteLocations
    BY DEF WriteLocations, DestroyLocations
  <2>. QED
    BY <1>2, <2>1, <2>2, LockKept
<1>4. TypeOK'
  BY <1>1, <1>3 DEF Inv, TypeOK
<1>5. arg'[runner] = arg[runner] /\ arg[runner] \in Conns
  BY Roles DEF Plain, Inv, TypeOK
<1>6. pc'[runner] \in {"start", "assign"} <=> pc[runner] \in {"start", "assign"}
  BY <1>1, Roles DEF Plain
<1>7. pc'[runner] \in {"start", "assign"} => pc'[runner] = pc[runner]
  BY <1>1, Roles DEF Plain
<1>8. Adding' <=> Adding
  BY <1>1, Roles DEF Plain, Adding
<1>9. Threads'
  <2>. SUFFICES ASSUME NEW k \in Conns
                PROVE  /\ object[k] = "none" => pc'[k] = "none"
                       /\ pc'[k] \in ThreadLocations =>
                            thread'[k] \/ object[k] = "destroyed" \/ (pc'[runner] = "assign" /\ arg'[runner] = k)
    BY DEF Threads
  <2>1. object[k] = "none" => pc[k] = "none"
    BY DEF Inv, Threads
  <2>2. CASE k = a
    <3>1. object[k] # "none"
      BY <2>1, <2>2 DEF Plain
    <3>2. pc'[k] \in ThreadLocations => pc[k] \in ThreadLocations /\ pc[k] # "done" /\ thread'[k] = thread[k]
      BY <1>1, <2>2 DEF Plain, ThreadLocations, LoopLocations, SendLocations
    <3>3. pc[runner] = "assign" => pc'[runner] = "assign"
      BY <1>6, <1>7, <1>1, Roles, <2>2
    <3>. QED
      BY <1>5, <3>1, <3>2, <3>3 DEF Inv, Threads
  <2>3. CASE k # a
    <3>1. pc'[k] = pc[k]
      BY <1>1, <2>3, Roles
    <3>2. pc[k] \in ThreadLocations => thread'[k] = thread[k]
      BY <2>3 DEF Plain, ThreadLocations, LoopLocations, SendLocations
    <3>3. pc[runner] = "assign" => pc'[runner] = "assign"
      BY <1>1, Roles DEF Plain
    <3>. QED
      BY <1>5, <2>1, <3>1, <3>2, <3>3 DEF Inv, Threads
  <2>. QED
    BY <2>2, <2>3
<1>10. Closers'
  <2>1. ASSUME NEW b \in Actors \ {a} PROVE pc'[b] = pc[b] /\ arg'[b] = arg[b]
    BY <1>1
  <2>. QED
    BY <1>1, <2>1 DEF Inv, Closers, Plain
<1>11. Array'
  <2>1. Destroying => Destroying'
    BY <1>1, Roles DEF Plain, Destroying
  <2>2. \A c \in Callers : pc[c] = "removed" => pc'[c] = "removed" /\ arg'[c] = arg[c]
    BY <1>1, Roles DEF Plain
  <2>. QED
    BY <1>5, <1>8, <2>1, <2>2 DEF Inv, Array
<1>12. Running'
  <2>1. pc[runner] = "start" /\ kind = "client" => arg[runner] # a /\ arg[runner] \in Actors
    BY <1>5, Roles DEF Inv, Running, Plain
  <2>. QED
    BY <1>1, <1>5, <1>7, <2>1, Roles DEF Inv, Running, Plain
<1>13. Survivor'
  <2>1. SUFFICES ASSUME pc'[owner] = "returned", Stopping'
                 PROVE  /\ pc'[runner] \in SettingUp => connections = <<>>
                        /\ \A k \in Conns : Contains(connections, k) => k = arg[runner]
    BY <1>5 DEF Survivor
  <2>2. a # owner /\ pc[owner] = "returned"
    BY <1>1, <2>1, Roles DEF Plain
  <2>3. host_active' = host_active /\ ~host_active
    BY <2>1, <2>2 DEF Plain, Stopping
  <2>4. pc[runner] # "begin"
    BY <1>1, <2>1, <2>3, Roles DEF Plain, Stopping
  <2>5. pc'[runner] \in SettingUp => pc[runner] \in SettingUp
    BY <1>1, <2>3, Roles DEF Plain
  <2>. QED
    BY <2>2, <2>3, <2>4, <2>5 DEF Inv, Survivor, Stopping
<1>. QED
  BY <1>3, <1>4, <1>9, <1>10, <1>11, <1>12, <1>13 DEF Inv

-----------------------------------------------------------------------------
(* The thread in Run. *)
LEMMA RunPlain ==
    ASSUME Inv,
           Launch \/ TestActive \/ PollTimeout \/ AddLock \/ ConnectLock \/ ConnectNot
    PROVE  Inv'
<1>. USE DEF WriteLocations, DestroyLocations, ThreadLocations, LoopLocations, SendLocations
<1>1. runner \in Actors /\ runner # owner /\ runner \notin Conns
  BY Roles
<1>2. /\ pc[runner] \in RunnerLocations /\ Locations(runner) = RunnerLocations
      /\ kind \in Kinds /\ Kinds \subseteq {"server", "client"}
      /\ arg \in [Actors -> Conns] /\ host_active \in BOOLEAN /\ active \in [Conns -> BOOLEAN]
      /\ receiving \in [Conns -> BOOLEAN] /\ shut \in [Conns -> BOOLEAN] /\ thread \in [Conns -> BOOLEAN]
      /\ kind = "server" => pc[runner] \notin {"lock", "connect"}
      /\ kind = "client" => pc[runner] \notin {"poll", "add_lock", "add"}
  BY NetHostAssumption DEF Inv, TypeOK, Running, Locations
<1>3. CASE Launch
  <2>1. Plain(runner, "test") /\ "test" \in RunnerLocations
    BY <1>1, <1>2, <1>3 DEF Launch, Plain, RunnerLocations, Adding, SettingUp, conn
  <2>. QED
    BY <1>1, <1>2, <1>3, <2>1, PlainStep DEF Launch, conn
<1>4. CASE TestActive
  <2>. DEFINE l == IF ~host_active THEN "stopped" ELSE IF kind = "server" THEN "poll" ELSE "lock"
  <2>1. /\ Plain(runner, l) /\ l \in RunnerLocations
        /\ l \notin WriteLocations \cup {"sending"} /\ pc[runner] \notin WriteLocations \cup {"sending"}
    BY <1>1, <1>2, <1>4 DEF TestActive, Plain, RunnerLocations, Adding, SettingUp, host, conn
  <2>2. Goto(runner, l) /\ UNCHANGED <<arg, lock, kind, host_active, connections, object, active, receiving, shut, thread>>
    BY <1>4 DEF TestActive, host, conn
  <2>. HIDE DEF l
  <2>. QED
    BY <1>1, <1>2, <2>1, <2>2, PlainStep
<1>5. CASE PollTimeout
  <2>1. Plain(runner, "test") /\ "test" \in RunnerLocations
    BY <1>1, <1>2, <1>5 DEF PollTimeout, Plain, RunnerLocations, Adding, SettingUp, host, conn
  <2>. QED
    BY <1>1, <1>2, <1>5, <2>1, PlainStep DEF PollTimeout, host, conn
<1>6. CASE AddLock
  <2>1. Plain(runner, "add") /\ "add" \in RunnerLocations
    BY <1>1, <1>2, <1>6 DEF AddLock, Plain, RunnerLocations, Adding, SettingUp, host, conn
  <2>. QED
    BY <1>1, <1>2, <1>6, <2>1, PlainStep DEF AddLock, host, conn
<1>7. CASE ConnectLock
  <2>1. Plain(runner, "connect") /\ "connect" \in RunnerLocations
    BY <1>1, <1>2, <1>7 DEF ConnectLock, Plain, RunnerLocations, Adding, SettingUp, host, conn
  <2>. QED
    BY <1>1, <1>2, <1>7, <2>1, PlainStep DEF ConnectLock, host, conn
<1>8. CASE ConnectNot
  <2>1. Plain(runner, "test") /\ "test" \in RunnerLocations
    BY <1>1, <1>2, <1>8 DEF ConnectNot, Plain, RunnerLocations, Adding, SettingUp, host, conn
  <2>. QED
    BY <1>1, <1>2, <1>8, <2>1, PlainStep DEF ConnectNot, host, conn
<1>. QED
  BY <1>3, <1>4, <1>5, <1>6, <1>7, <1>8

(* The thread of a connection, up to its call of CloseConnection. *)
LEMMA ThreadPlain ==
    ASSUME Inv, NEW k \in Conns, LoopStep(k) \/ ShutDownStep(k)
    PROVE  Inv'
<1>. USE DEF WriteLocations, DestroyLocations, ThreadLocations, LoopLocations, SendLocations,
             ConnLocations, EndLocations, CloseLocations
<1>1. k \in Actors /\ k # runner /\ k # owner /\ k # user
  BY Roles
<1>2. /\ Locations(k) = ConnLocations
      /\ arg \in [Actors -> Conns] /\ host_active \in BOOLEAN /\ active \in [Conns -> BOOLEAN]
      /\ receiving \in [Conns -> BOOLEAN] /\ shut \in [Conns -> BOOLEAN] /\ thread \in [Conns -> BOOLEAN]
  BY <1>1 DEF Inv, TypeOK, Locations
<1>3. PICK l \in {"loop", "send_lock", "send", "recv", "receiving", "shutdown", "shut_socket",
                  "delete_thread", "close_lock", "done"} :
        /\ Goto(k, l)
        /\ pc[k] \in {"loop", "send", "recv", "receiving", "shutdown", "shut_socket", "delete_thread"}
        /\ l = "close_lock" \/ thread' = thread
        /\ l = "close_lock" => thread' = [thread EXCEPT ![k] = FALSE]
  BY DEF LoopStep, ShutDownStep, TestLoop, Send, SendFails, ReceiveLock, Receive, ReceiveFails,
         ShutDownSelf, ShutSocketSelf, DeleteThreadSelf, conn
<1>4. /\ UNCHANGED <<arg, lock, kind, host_active, connections, object>>
      /\ active' \in [Conns -> BOOLEAN] /\ receiving' \in [Conns -> BOOLEAN] /\ shut' \in [Conns -> BOOLEAN]
  BY <1>2 DEF LoopStep, ShutDownStep, TestLoop, Send, SendFails, ReceiveLock, Receive, ReceiveFails,
         ShutDownSelf, ShutSocketSelf, DeleteThreadSelf, host, conn
<1>5. thread' \in [Conns -> BOOLEAN] /\ \A j \in Conns \ {k} : thread'[j] = thread[j]
  BY <1>2, <1>3
<1>6. Plain(k, l)
  BY <1>1, <1>3, <1>4, <1>5 DEF Plain
<1>. QED
  BY <1>1, <1>2, <1>3, <1>4, <1>5, <1>6, PlainStep

(* ShutDown up to the destruction of a connection, the calls of the user, and the calls
   that take the lock. *)
LEMMA CallPlain ==
    ASSUME Inv
    PROVE  /\ ShutDown \/ ShutDownLock \/ ShutDownNext => Inv'
           /\ \A k \in Conns : CloseConnection(k) => Inv'
           /\ SendCommand => Inv'
           /\ \A a \in Callers : CloseLock(a) \/ SendLock(a) \/ SendAdd(a) => Inv'
<1>. USE DEF WriteLocations, DestroyLocations, ThreadLocations, LoopLocations, SendLocations,
             EndLocations, CloseLocations
<1>1. /\ owner \in Actors /\ user \in Actors /\ user # owner /\ owner # runner /\ user # runner
      /\ owner \notin Conns /\ user \notin Conns /\ Callers \subseteq Actors
      /\ \A a \in Callers : a # runner /\ a # owner /\ (a = user \/ a \in Conns)
  BY Roles DEF Callers
<1>2. /\ Locations(owner) = OwnerLocations /\ Locations(user) = UserLocations
      /\ \A a \in Callers : {"send_lock", "sending", "destroy", "removed"} \subseteq Locations(a)
  BY <1>1 DEF Locations, UserLocations, ConnLocations
<1>3. /\ arg \in [Actors -> Conns] /\ host_active \in BOOLEAN /\ active \in [Conns -> BOOLEAN]
      /\ receiving \in [Conns -> BOOLEAN] /\ shut \in [Conns -> BOOLEAN] /\ thread \in [Conns -> BOOLEAN]
      /\ connections \in Seq(Conns)
  BY DEF Inv, TypeOK
<1>4. ASSUME ShutDown PROVE Inv'
  <2>1. Plain(owner, "shutdown_lock") /\ "shutdown_lock" \in OwnerLocations
    BY <1>1, <1>4 DEF ShutDown, Plain, OwnerLocations, Destroying, conn
  <2>. QED
    BY <1>1, <1>2, <1>3, <1>4, <2>1, PlainStep DEF ShutDown, conn
<1>5. ASSUME ShutDownLock PROVE Inv'
  <2>1. Plain(owner, "next") /\ "next" \in OwnerLocations
    BY <1>1, <1>5 DEF ShutDownLock, Plain, OwnerLocations, Destroying, host, conn
  <2>. QED
    BY <1>1, <1>2, <1>3, <1>5, <2>1, PlainStep DEF ShutDownLock, host, conn
<1>6. ASSUME ShutDownNext PROVE Inv'
  <2>1. PICK i \in DOMAIN connections :
          object[connections[i]] = "alive" /\ arg' = [arg EXCEPT ![owner] = connections[i]]
    BY <1>6 DEF ShutDownNext
  <2>2. connections[i] \in Conns /\ Contains(connections, connections[i])
    BY <1>3, <2>1 DEF Contains
  <2>3. arg' \in [Actors -> Conns] /\ arg'[owner] = connections[i] /\ \A b \in Actors \ {owner} : arg'[b] = arg[b]
    BY <1>1, <1>3, <2>1, <2>2
  <2>4. Plain(owner, "destroy") /\ "destroy" \in OwnerLocations
    BY <1>1, <1>6, <2>1, <2>2, <2>3 DEF ShutDownNext, Plain, OwnerLocations, Destroying, host, conn
  <2>. QED
    BY <1>1, <1>2, <1>3, <1>6, <2>3, <2>4, PlainStep DEF ShutDownNext, host, conn
<1>7. ASSUME NEW k \in Conns, CloseConnection(k) PROVE Inv'
  <2>1. arg' \in [Actors -> Conns] /\ \A b \in Actors \ {user} : arg'[b] = arg[b]
    BY <1>1, <1>3, <1>7 DEF CloseConnection
  <2>2. Plain(user, "close_lock") /\ "close_lock" \in UserLocations
    BY <1>1, <1>7 DEF CloseConnection, Plain, UserLocations, host, conn
  <2>. QED
    BY <1>1, <1>2, <1>3, <1>7, <2>1, <2>2, PlainStep DEF CloseConnection, host, conn
<1>8. ASSUME SendCommand PROVE Inv'
  <2>1. Plain(user, "send_lock") /\ "send_lock" \in UserLocations
    BY <1>1, <1>8 DEF SendCommand, Plain, UserLocations, host, conn
  <2>. QED
    BY <1>1, <1>2, <1>3, <1>8, <2>1, PlainStep DEF SendCommand, host, conn
<1>9. ASSUME NEW a \in Callers, CloseLock(a) PROVE Inv'
  <2>1. PICK k \in IF a \in Conns /\ object[a] = "destroyed" THEN Conns ELSE {arg[a]} :
          /\ arg' = [arg EXCEPT ![a] = k]
          /\ Goto(a, IF Contains(connections, k) THEN "destroy" ELSE "removed")
    BY <1>9 DEF CloseLock, Found
  <2>2. k \in Conns /\ a \in Actors
    BY <1>1, <1>3, <2>1
  <2>3. arg' \in [Actors -> Conns] /\ arg'[a] = k /\ \A b \in Actors \ {a} : arg'[b] = arg[b]
    BY <1>3, <2>1, <2>2
  <2>. DEFINE l == IF Contains(connections, k) THEN "destroy" ELSE "removed"
  <2>4. Contains(connections, k) => object[k] = "alive"
    <3>1. \A b \in Actors : ~Writes(b)
      BY <1>9, <2>2 DEF CloseLock, RW!Lock, Inv, Locks
    <3>2. ~Destroying /\ \A c \in Callers : pc[c] # "removed"
      BY <1>1, <3>1 DEF Writes, Destroying
    <3>. QED
      BY <2>2, <3>2 DEF Inv, Array
  <2>5. Plain(a, l) /\ l \in Locations(a) /\ l \in WriteLocations
    BY <1>1, <1>2, <1>9, <2>2, <2>3, <2>4 DEF CloseLock, Plain, host, conn
  <2>6. Goto(a, l) /\ RW!Lock(a, "write")
        /\ UNCHANGED <<kind, host_active, connections, object, active, receiving, shut, thread>>
    BY <1>9, <2>1 DEF CloseLock, host, conn
  <2>. HIDE DEF l
  <2>. QED
    BY <1>3, <2>2, <2>3, <2>5, <2>6, PlainStep
<1>10. ASSUME NEW a \in Callers, SendLock(a) PROVE Inv'
  <2>1. Plain(a, "sending") /\ a \in Actors /\ "sending" \in Locations(a)
    BY <1>1, <1>2, <1>10 DEF SendLock, Plain, host, conn
  <2>. QED
    BY <1>1, <1>3, <1>10, <2>1, PlainStep DEF SendLock, LockRead, host, conn
<1>11. ASSUME NEW a \in Callers, SendAdd(a) PROVE Inv'
  <2>. DEFINE l == IF a = user THEN "idle" ELSE "loop"
  <2>1. l \in Locations(a) /\ l \notin WriteLocations \cup {"sending"}
    BY <1>1 DEF Locations, UserLocations, ConnLocations
  <2>2. Plain(a, l) /\ a \in Actors
    BY <1>1, <1>11 DEF SendAdd, Plain, host, conn
  <2>3. Goto(a, l) /\ RW!Unlock(a)
        /\ UNCHANGED <<arg, kind, host_active, connections, object, active, receiving, shut, thread>>
    BY <1>11 DEF SendAdd, host, conn
  <2>. HIDE DEF l
  <2>. QED
    BY <1>3, <2>1, <2>2, <2>3, PlainStep
<1>. QED
  BY <1>4, <1>5, <1>6, <1>7, <1>8, <1>9, <1>10, <1>11

(* ~Connection up to the destruction of its members. *)
LEMMA DestroyPlain ==
    ASSUME Inv, NEW a \in Callers \cup {owner}, NEW l \in DestroyLocations, pc[a] \in DestroyLocations,
           Goto(a, l), UNCHANGED <<arg, lock, kind, host_active, connections, object>>,
           active' \in [Conns -> BOOLEAN], receiving' = receiving, shut' \in [Conns -> BOOLEAN],
           \/ thread' = thread
           \/ thread' = [thread EXCEPT ![arg[a]] = FALSE] /\ pc[arg[a]] = "done"
    PROVE  Inv'
<1>. USE DEF WriteLocations, DestroyLocations, ThreadLocations, LoopLocations, SendLocations
<1>1. a \in Actors /\ a # runner
  BY Roles
<1>2. DestroyLocations \subseteq Locations(a)
  BY <1>1 DEF Locations, OwnerLocations, UserLocations, CloseLocations, ConnLocations, EndLocations
<1>3. /\ arg \in [Actors -> Conns] /\ host_active \in BOOLEAN
      /\ receiving \in [Conns -> BOOLEAN] /\ thread \in [Conns -> BOOLEAN]
      /\ object[arg[a]] = "alive" /\ Contains(connections, arg[a])
  BY <1>1 DEF Inv, TypeOK, Closers
<1>4. /\ thread' \in [Conns -> BOOLEAN]
      /\ \A k \in Conns : thread'[k] = thread[k] \/ pc[k] = "done"
  BY <1>1, <1>3
<1>5. Plain(a, l)
  BY <1>1, <1>3, <1>4 DEF Plain
<1>. QED
  BY <1>1, <1>2, <1>3, <1>4, <1>5, PlainStep

(* ~Connection ends: the writer of the array has destroyed a connection. *)
LEMMA DestroyedStep ==
    ASSUME Inv, NEW a \in Callers \cup {owner}, pc[a] \in DestroyLocations, Destroyed(a)
    PROVE  Inv'
<1>. DEFINE l == IF a = owner THEN "next" ELSE "removed"
<1>1. a \in Actors /\ a # runner /\ (a = owner \/ a \in Callers) /\ (a \in Callers => a # owner)
  BY Roles
<1>2. PICK k \in Conns : k = arg[a]
  BY <1>1 DEF Inv, TypeOK
<1>3. /\ thread' = [thread EXCEPT ![k] = FALSE] /\ object' = [object EXCEPT ![k] = "destroyed"]
      /\ Goto(a, l) /\ UNCHANGED <<arg, lock, kind, host_active, connections, active, receiving, shut>>
  BY <1>2 DEF Destroyed, host
<1>4. l \in Locations(a) /\ l \in {"next", "removed"}
  BY <1>1, Roles DEF Locations, OwnerLocations, UserLocations, CloseLocations, ConnLocations, EndLocations
<1>5. l = "removed" <=> a \in Callers
  BY <1>1
<1>. HIDE DEF l
<1>6. /\ pc'[a] = l /\ \A b \in Actors \ {a} : pc'[b] = pc[b]
      /\ pc' \in [Actors -> RunnerLocations \cup ConnLocations \cup OwnerLocations \cup UserLocations]
      /\ pc'[runner] \in RunnerLocations /\ pc'[owner] \in OwnerLocations /\ pc'[user] \in UserLocations
      /\ \A j \in Conns : pc'[j] \in ConnLocations
  BY <1>1, <1>3, <1>4, PcMoves DEF Inv
<1>7. Writes(a) /\ Writes(a)' /\ ~Reads(a) /\ ~Reads(a)'
  BY <1>4, <1>6 DEF Writes, Reads, WriteLocations, DestroyLocations
<1>8. \A b \in Actors : b # a => ~Writes(b) /\ ~Writes(b)'
  BY <1>1, <1>3, <1>6, <1>7, Alone DEF Writes
<1>9. Locks' /\ RW!TypeOK'
  <2>1. \A b \in Actors \ {a} : (Writes(b)' <=> Writes(b)) /\ (Reads(b)' <=> Reads(b))
    BY <1>3, <1>6 DEF Writes, Reads
  <2>. QED
    BY <1>1, <1>3, <1>7, <2>1, LockKept
<1>10. /\ object[k] = "alive" /\ Contains(connections, k)
       /\ object'[k] = "destroyed" /\ \A j \in Conns \ {k} : object'[j] = object[j] /\ thread'[j] = thread[j]
       /\ object' \in [Conns -> {"none", "alive", "destroyed"}] /\ thread' \in [Conns -> BOOLEAN]
  BY <1>1, <1>2, <1>3 DEF Inv, TypeOK, Closers
<1>11. TypeOK'
  BY <1>3, <1>6, <1>9, <1>10 DEF Inv, TypeOK
<1>12. pc'[runner] = pc[runner] /\ a # runner
  BY <1>1, <1>6, Roles
<1>13. Threads'
  <2>1. ASSUME NEW j \in Conns \ {k}, j # a
        PROVE  /\ object'[j] = "none" => pc'[j] = "none"
               /\ pc'[j] \in ThreadLocations =>
                     thread'[j] \/ object'[j] = "destroyed" \/ (pc'[runner] = "assign" /\ arg'[runner] = j)
    <3>1. pc'[j] = pc[j]
      BY <1>6, <2>1, Roles
    <3>. QED
      BY <1>3, <1>10, <1>12, <2>1, <3>1 DEF Inv, Threads
  <2>2. ASSUME a \in Conns, a # k
        PROVE  object'[a] # "none" /\ pc'[a] \notin ThreadLocations
    <3>1. object[a] # "none"
      BY <2>2 DEF Inv, Threads, DestroyLocations
    <3>. QED
      BY <1>4, <1>6, <1>10, <2>2, <3>1 DEF ThreadLocations, LoopLocations, SendLocations
  <2>. QED
    BY <1>10, <2>1, <2>2 DEF Threads
<1>14. Closers'
  <2>1. \A b \in Actors \ {a} : pc'[b] \notin DestroyLocations \cup {"removed"}
    BY <1>8 DEF Writes, WriteLocations
  <2>2. l \notin DestroyLocations
    BY <1>4 DEF DestroyLocations
  <2>. QED
    BY <1>2, <1>3, <1>6, <1>10, <2>1, <2>2 DEF Closers
<1>15. Array'
  <2>1. Destroying' \/ \E c \in Callers : pc'[c] = "removed" /\ arg'[c] = k
    BY <1>1, <1>2, <1>3, <1>4, <1>5, <1>6 DEF Destroying
  <2>2. ASSUME NEW j \in Conns \ {k}, Contains(connections, j), object[j] # "alive"
        PROVE  Destroying'
    <3>1. \A c \in Callers : pc[c] # "removed"
      <4>1. \A c \in Callers : c \in Actors
        BY Roles
      <4>. QED
        BY <1>8, <4>1 DEF Writes, WriteLocations, DestroyLocations
    <3>2. Destroying
      BY <2>2, <3>1 DEF Inv, Array
    <3>3. Writes(owner)
      BY <3>2 DEF Writes, WriteLocations, Destroying
    <3>4. a = owner
      BY <1>8, <3>3, Roles
    <3>. QED
      BY <1>1, <1>4, <1>5, <1>6, <3>4 DEF Destroying
  <2>3. (Adding' <=> Adding) /\ arg'[runner] = arg[runner] /\ arg[runner] \in Conns
    BY <1>3, <1>12, Roles DEF Adding, Inv, TypeOK
  <2>4. Adding => arg[runner] # k
    BY <1>10 DEF Inv, Array
  <2>. QED
    BY <1>3, <1>10, <2>1, <2>2, <2>3, <2>4 DEF Inv, Array
<1>16. Running'
  <2>1. kind = "client" => pc[runner] # "start"
    BY <1>8, <1>12, Roles DEF Writes
  <2>. QED
    BY <1>3, <1>12, <2>1 DEF Inv, Running
<1>17. Survivor'
  <2>1. pc'[owner] = "returned" => pc[owner] = "returned"
    BY <1>1, <1>4, <1>6, Roles
  <2>2. Stopping' <=> Stopping
    BY <1>3, <1>12 DEF Stopping
  <2>. QED
    BY <1>3, <1>12, <2>1, <2>2 DEF Inv, Survivor
<1>. QED
  BY <1>9, <1>11, <1>13, <1>14, <1>15, <1>16, <1>17 DEF Inv

(* ~Connection as a whole. *)
LEMMA DestroyInv ==
    ASSUME Inv, NEW a \in Callers \cup {owner}, DestroyStep(a)
    PROVE  Inv'
<1>1. /\ active \in [Conns -> BOOLEAN] /\ receiving \in [Conns -> BOOLEAN] /\ shut \in [Conns -> BOOLEAN]
  BY DEF Inv, TypeOK
<1>2. CASE Destroy(a)
  <2>. DEFINE l == IF active[arg[a]] THEN "d_socket" ELSE "d_members"
  <2>1. /\ l \in DestroyLocations /\ pc[a] \in DestroyLocations /\ Goto(a, l)
        /\ UNCHANGED <<arg, lock, kind, host_active, connections, object, receiving, shut, thread>>
        /\ active' \in [Conns -> BOOLEAN]
    BY <1>1, <1>2 DEF Destroy, DestroyLocations, host
  <2>. HIDE DEF l
  <2>. QED
    BY <1>1, <2>1, DestroyPlain
<1>3. CASE ShutSocket(a)
  <2>1. /\ "d_thread" \in DestroyLocations /\ pc[a] \in DestroyLocations /\ Goto(a, "d_thread")
        /\ UNCHANGED <<arg, lock, kind, host_active, connections, object, receiving, active, thread>>
        /\ shut' \in [Conns -> BOOLEAN]
    BY <1>1, <1>3 DEF ShutSocket, DestroyLocations, host
  <2>. QED
    BY <1>1, <2>1, DestroyPlain
<1>4. CASE DeleteThread(a)
  <2>. DEFINE l == IF thread[arg[a]] THEN "d_join" ELSE "d_members"
  <2>1. /\ l \in DestroyLocations /\ pc[a] \in DestroyLocations /\ Goto(a, l)
        /\ UNCHANGED <<arg, lock, kind, host_active, connections, object, receiving, active, shut, thread>>
    BY <1>4 DEF DeleteThread, DestroyLocations, host, conn
  <2>. HIDE DEF l
  <2>. QED
    BY <1>1, <2>1, DestroyPlain
<1>5. CASE JoinThread(a)
  <2>1. /\ "d_members" \in DestroyLocations /\ pc[a] \in DestroyLocations /\ Goto(a, "d_members")
        /\ UNCHANGED <<arg, lock, kind, host_active, connections, object, receiving, active, shut>>
        /\ thread' = [thread EXCEPT ![arg[a]] = FALSE] /\ pc[arg[a]] = "done"
    BY <1>5 DEF JoinThread, DestroyLocations, host
  <2>. QED
    BY <1>1, <2>1, DestroyPlain
<1>6. CASE DestroyMembers(a)
  <2>1. pc[a] \in DestroyLocations /\ "m_join" \in DestroyLocations
    BY <1>6 DEF DestroyMembers, DestroyLocations
  <2>2. \/ Destroyed(a)
        \/ /\ Goto(a, "m_join")
           /\ UNCHANGED <<arg, lock, kind, host_active, connections, object, receiving, active, shut, thread>>
    BY <1>6 DEF DestroyMembers, host, conn
  <2>. QED
    BY <1>1, <2>1, <2>2, DestroyPlain, DestroyedStep
<1>7. CASE JoinMember(a)
  BY <1>7, DestroyedStep DEF JoinMember, DestroyLocations
<1>. QED
  BY <1>2, <1>3, <1>4, <1>5, <1>6, <1>7 DEF DestroyStep

-----------------------------------------------------------------------------
(* Run makes a connection, starts its thread and stores its Thread object. *)
LEMMA RunnerMoves ==
    ASSUME Inv, NEW l \in RunnerLocations, Goto(runner, l)
    PROVE  /\ runner \in Actors /\ pc'[runner] = l /\ \A b \in Actors \ {runner} : pc'[b] = pc[b]
           /\ pc' \in [Actors -> RunnerLocations \cup ConnLocations \cup OwnerLocations \cup UserLocations]
           /\ pc'[runner] \in RunnerLocations /\ pc'[owner] \in OwnerLocations /\ pc'[user] \in UserLocations
           /\ \A k \in Conns : pc'[k] \in ConnLocations
           /\ \A k \in Conns : pc'[k] = pc[k]
           /\ \A c \in Callers : pc'[c] = pc[c]
           /\ pc'[owner] = pc[owner] /\ (Destroying' <=> Destroying)
<1>1. runner \in Actors /\ l \in Locations(runner)
  BY Roles DEF Locations
<1>2. /\ pc'[runner] = l /\ \A b \in Actors \ {runner} : pc'[b] = pc[b]
      /\ pc' \in [Actors -> RunnerLocations \cup ConnLocations \cup OwnerLocations \cup UserLocations]
      /\ pc'[runner] \in RunnerLocations /\ pc'[owner] \in OwnerLocations /\ pc'[user] \in UserLocations
      /\ \A k \in Conns : pc'[k] \in ConnLocations
  BY <1>1, PcMoves DEF Inv
<1>3. \A b \in Conns \cup Callers \cup {owner} : b \in Actors \ {runner}
  BY Roles
<1>. QED
  BY <1>1, <1>2, <1>3 DEF Destroying

(* What the construction of a connection changes. *)
LEMMA Constructed ==
    ASSUME Inv, NEW k \in Conns, NEW l \in RunnerLocations, Construct(k, l)
    PROVE  /\ object[k] = "none" /\ pc[k] = "none" /\ ~Contains(connections, k)
           /\ object'[k] = "alive" /\ \A j \in Conns \ {k} : object'[j] = object[j]
           /\ arg'[runner] = k /\ \A b \in Actors \ {runner} : arg'[b] = arg[b]
           /\ object' \in [Conns -> {"none", "alive", "destroyed"}]
           /\ active' \in [Conns -> BOOLEAN] /\ arg' \in [Actors -> Conns]
           /\ \A b \in Actors : object[arg[b]] # "none" => object'[arg[b]] = object[arg[b]]
           /\ Goto(runner, l) /\ UNCHANGED <<receiving, shut, thread>>
<1>1. runner \in Actors
  BY Roles
<1>2. /\ object \in [Conns -> {"none", "alive", "destroyed"}] /\ active \in [Conns -> BOOLEAN]
      /\ arg \in [Actors -> Conns]
  BY DEF Inv, TypeOK
<1>3. /\ object[k] = "none" /\ object' = [object EXCEPT ![k] = "alive"]
      /\ active' = [active EXCEPT ![k] = TRUE] /\ arg' = [arg EXCEPT ![runner] = k]
      /\ Goto(runner, l) /\ UNCHANGED <<receiving, shut, thread>>
  BY DEF Construct
<1>4. pc[k] = "none" /\ ~Contains(connections, k)
  BY <1>3 DEF Inv, Threads, Array
<1>. QED
  BY <1>1, <1>2, <1>3, <1>4

(* A new connection has no thread, and nobody closes it. *)
LEMMA ConstructedKept ==
    ASSUME Inv, NEW k \in Conns, NEW l \in RunnerLocations, Construct(k, l),
           pc[runner] \in {"poll", "connect"},
           l \notin DestroyLocations \cup {"removed"},
           \A b \in Actors \ {runner} : pc[b] \in DestroyLocations \cup {"removed"} => connections' = connections
    PROVE  Threads' /\ Closers'
<1>1. /\ object[k] = "none" /\ pc[k] = "none"
      /\ object'[k] = "alive" /\ \A j \in Conns \ {k} : object'[j] = object[j]
      /\ \A b \in Actors \ {runner} : arg'[b] = arg[b]
      /\ \A b \in Actors : object[arg[b]] # "none" => object'[arg[b]] = object[arg[b]]
      /\ Goto(runner, l) /\ UNCHANGED <<receiving, shut, thread>>
  BY Constructed
<1>2. /\ pc'[runner] = l /\ \A b \in Actors \ {runner} : pc'[b] = pc[b]
      /\ \A j \in Conns : pc'[j] = pc[j]
  BY <1>1, RunnerMoves
<1>3. Threads'
  BY <1>1, <1>2 DEF Inv, Threads, ThreadLocations, LoopLocations, SendLocations
<1>4. ASSUME NEW b \in Actors \ {runner}
      PROVE  /\ pc'[b] \in DestroyLocations => object'[arg'[b]] = "alive" /\ Contains(connections', arg'[b])
             /\ pc'[b] = "removed" => object'[arg'[b]] = "destroyed" \/ ~Contains(connections', arg'[b])
  BY <1>1, <1>2 DEF Inv, Closers
<1>. QED
  BY <1>2, <1>3, <1>4 DEF Closers

LEMMA AcceptStep ==
    ASSUME Inv, NEW k \in Conns, Accept(k)
    PROVE  Inv'
<1>1. /\ pc[runner] = "poll" /\ Construct(k, "add_lock")
      /\ UNCHANGED <<lock, kind, host_active, connections>>
  BY DEF Accept, host
<1>2. "add_lock" \in RunnerLocations /\ "add_lock" \notin DestroyLocations \cup {"removed"}
  BY DEF RunnerLocations, DestroyLocations
<1>3. /\ object[k] = "none" /\ pc[k] = "none" /\ ~Contains(connections, k)
      /\ object'[k] = "alive" /\ \A j \in Conns \ {k} : object'[j] = object[j]
      /\ arg'[runner] = k /\ \A b \in Actors \ {runner} : arg'[b] = arg[b]
      /\ object' \in [Conns -> {"none", "alive", "destroyed"}]
      /\ active' \in [Conns -> BOOLEAN] /\ arg' \in [Actors -> Conns]
      /\ Goto(runner, "add_lock") /\ UNCHANGED <<receiving, shut, thread>>
  BY <1>1, <1>2, Constructed
<1>4. /\ runner \in Actors /\ pc'[runner] = "add_lock" /\ \A b \in Actors \ {runner} : pc'[b] = pc[b]
      /\ \A c \in Callers : pc'[c] = pc[c]
      /\ pc'[owner] = pc[owner] /\ (Destroying' <=> Destroying)
  BY <1>2, <1>3, RunnerMoves
<1>5. Locks' /\ RW!TypeOK'
  <2>1. \A b \in Actors : (Writes(b)' <=> Writes(b)) /\ (Reads(b)' <=> Reads(b))
    BY <1>1, <1>4 DEF Writes, Reads, WriteLocations, DestroyLocations
  <2>. QED
    BY <1>1, <1>4, <2>1, LockKept
<1>6. TypeOK'
  <2>1. /\ pc' \in [Actors -> RunnerLocations \cup ConnLocations \cup OwnerLocations \cup UserLocations]
        /\ pc'[runner] \in RunnerLocations /\ pc'[owner] \in OwnerLocations /\ pc'[user] \in UserLocations
        /\ \A j \in Conns : pc'[j] \in ConnLocations
    BY <1>2, <1>3, RunnerMoves
  <2>. QED
    BY <1>1, <1>3, <1>5, <2>1 DEF Inv, TypeOK
<1>7. Threads' /\ Closers'
  BY <1>1, <1>2, ConstructedKept
<1>8. Array'
  <2>1. ~Adding /\ Adding'
    BY <1>1, <1>4 DEF Adding
  <2>2. \A c \in Callers : arg'[c] = arg[c]
    BY <1>3, Roles
  <2>. QED
    BY <1>1, <1>3, <1>4, <2>1, <2>2 DEF Inv, Array
<1>9. Running'
  BY <1>1, <1>4 DEF Inv, Running
<1>10. Survivor'
  <2>. SUFFICES ASSUME pc'[owner] = "returned", Stopping' PROVE connections = <<>>
    BY <1>1 DEF Survivor, Contains
  <2>. QED
    BY <1>1, <1>4 DEF Inv, Survivor, Stopping, SettingUp
<1>. QED
  BY <1>5, <1>6, <1>7, <1>8, <1>9, <1>10 DEF Inv

LEMMA ConnectStep ==
    ASSUME Inv, NEW k \in Conns, Connect(k)
    PROVE  Inv'
<1>1. /\ pc[runner] = "connect" /\ Construct(k, "start") /\ connections = <<>> /\ connections' = <<k>>
      /\ UNCHANGED <<lock, kind, host_active>>
  BY DEF Connect
<1>2. "start" \in RunnerLocations /\ "start" \notin DestroyLocations \cup {"removed"}
  BY DEF RunnerLocations, DestroyLocations
<1>3. /\ object[k] = "none" /\ pc[k] = "none"
      /\ object'[k] = "alive" /\ \A j \in Conns \ {k} : object'[j] = object[j]
      /\ arg'[runner] = k /\ \A b \in Actors \ {runner} : arg'[b] = arg[b]
      /\ object' \in [Conns -> {"none", "alive", "destroyed"}]
      /\ active' \in [Conns -> BOOLEAN] /\ arg' \in [Actors -> Conns]
      /\ Goto(runner, "start") /\ UNCHANGED <<receiving, shut, thread>>
  BY <1>1, <1>2, Constructed
<1>4. /\ runner \in Actors /\ pc'[runner] = "start" /\ \A b \in Actors \ {runner} : pc'[b] = pc[b]
      /\ \A j \in Conns : pc'[j] = pc[j]
      /\ pc'[owner] = pc[owner]
  BY <1>2, <1>3, RunnerMoves
<1>5. kind = "client"
  BY <1>1, NetHostAssumption DEF Inv, TypeOK, Running
<1>6. Writes(runner) /\ Writes(runner)' /\ ~Reads(runner) /\ ~Reads(runner)'
  BY <1>1, <1>4, <1>5 DEF Writes, Reads, WriteLocations
<1>7. \A b \in Actors \ {runner} : ~Writes(b) /\ pc[b] \notin DestroyLocations \cup {"removed"}
  <2>1. \A b \in Actors \ {runner} : ~Writes(b)
    BY <1>4, <1>6, Alone
  <2>. QED
    BY <2>1 DEF Writes, WriteLocations
<1>8. Locks' /\ RW!TypeOK'
  <2>1. \A b \in Actors \ {runner} : (Writes(b)' <=> Writes(b)) /\ (Reads(b)' <=> Reads(b))
    BY <1>1, <1>4 DEF Writes, Reads
  <2>. QED
    BY <1>1, <1>4, <1>6, <2>1, LockKept
<1>9. /\ connections' \in Seq(Conns) /\ DOMAIN connections' = {1} /\ connections'[1] = k
      /\ \A e : Contains(connections', e) <=> e = k
      /\ \A e : ~Contains(connections, e)
  BY <1>1 DEF Contains
<1>10. TypeOK'
  <2>1. /\ pc' \in [Actors -> RunnerLocations \cup ConnLocations \cup OwnerLocations \cup UserLocations]
        /\ pc'[runner] \in RunnerLocations /\ pc'[owner] \in OwnerLocations /\ pc'[user] \in UserLocations
        /\ \A j \in Conns : pc'[j] \in ConnLocations
    BY <1>2, <1>3, RunnerMoves
  <2>. QED
    BY <1>1, <1>3, <1>8, <1>9, <2>1 DEF Inv, TypeOK
<1>11. Threads' /\ Closers'
  BY <1>1, <1>2, <1>7, ConstructedKept
<1>12. Array'
  <2>1. ~Adding /\ ~Adding'
    BY <1>1, <1>4 DEF Adding
  <2>2. \A j \in Conns \ {k} : object'[j] # "alive"
    BY <1>3, <1>9, <2>1 DEF Inv, Array
  <2>. QED
    BY <1>3, <1>9, <2>1, <2>2 DEF Array
<1>13. Running'
  BY <1>1, <1>3, <1>4, <1>5 DEF Running
<1>14. Survivor'
  BY <1>3, <1>4, <1>9 DEF Survivor, SettingUp
<1>. QED
  BY <1>8, <1>10, <1>11, <1>12, <1>13, <1>14 DEF Inv

LEMMA AddStep ==
    ASSUME Inv, Add
    PROVE  Inv'
<1>1. PICK k \in Conns : k = arg[runner]
  BY Roles DEF Inv, TypeOK
<1>2. /\ pc[runner] = "add" /\ Goto(runner, "start") /\ RW!Unlock(runner)
      /\ UNCHANGED <<arg, kind, host_active, object, active, receiving, shut, thread>>
      /\ connections' = Append(connections, k)
  BY <1>1 DEF Add, conn
<1>3. /\ runner \in Actors /\ pc'[runner] = "start" /\ \A b \in Actors \ {runner} : pc'[b] = pc[b]
      /\ pc' \in [Actors -> RunnerLocations \cup ConnLocations \cup OwnerLocations \cup UserLocations]
      /\ pc'[runner] \in RunnerLocations /\ pc'[owner] \in OwnerLocations /\ pc'[user] \in UserLocations
      /\ \A j \in Conns : pc'[j] \in ConnLocations
      /\ \A j \in Conns : pc'[j] = pc[j]
      /\ \A c \in Callers : pc'[c] = pc[c]
      /\ pc'[owner] = pc[owner] /\ (Destroying' <=> Destroying)
  <2>1. "start" \in RunnerLocations
    BY DEF RunnerLocations
  <2>. QED
    BY <1>2, <2>1, RunnerMoves
<1>4. kind = "server"
  BY <1>2, NetHostAssumption DEF Inv, TypeOK, Running
<1>5. Writes(runner) /\ ~Writes(runner)' /\ ~Reads(runner)'
  BY <1>2, <1>3, <1>4 DEF Writes, Reads, WriteLocations, DestroyLocations
<1>6. \A b \in Actors \ {runner} : pc[b] \notin DestroyLocations \cup {"removed"}
  <2>1. \A b \in Actors \ {runner} : ~Writes(b)
    BY <1>3, <1>5, Alone
  <2>. QED
    BY <2>1 DEF Writes, WriteLocations
<1>7. Locks' /\ RW!TypeOK'
  <2>1. \A b \in Actors \ {runner} : (Writes(b)' <=> Writes(b)) /\ (Reads(b)' <=> Reads(b))
    BY <1>2, <1>3 DEF Writes, Reads
  <2>. QED
    BY <1>2, <1>3, <1>5, <2>1, LockKept
<1>8. /\ Len(connections) \in Nat /\ DOMAIN connections = 1 .. Len(connections)
      /\ Len(connections') = Len(connections) + 1 /\ DOMAIN connections' = 1 .. Len(connections) + 1
      /\ connections' \in Seq(Conns) /\ connections'[Len(connections) + 1] = k
      /\ \A i \in 1 .. Len(connections) : connections'[i] = connections[i]
  <2>1. connections \in Seq(Conns)
    BY DEF Inv, TypeOK
  <2>. QED
    BY <1>2, <2>1
<1>9. /\ ~Contains(connections, k) /\ object[k] = "alive"
      /\ \A i, j \in 1 .. Len(connections) : connections[i] = connections[j] => i = j
  BY <1>1, <1>2, <1>8 DEF Inv, Array, Adding
<1>10. \A e : Contains(connections', e) <=> Contains(connections, e) \/ e = k
  BY <1>8 DEF Contains
<1>11. \A i, j \in DOMAIN connections' : connections'[i] = connections'[j] => i = j
  <2>1. \A i \in 1 .. Len(connections) : connections[i] # k
    BY <1>9 DEF Contains
  <2>2. \A i \in DOMAIN connections' : i \in 1 .. Len(connections) \/ i = Len(connections) + 1
    BY <1>8
  <2>. QED
    BY <1>8, <1>9, <2>1, <2>2
<1>12. TypeOK'
  BY <1>2, <1>3, <1>7, <1>8 DEF Inv, TypeOK
<1>13. Threads'
  BY <1>2, <1>3 DEF Inv, Threads
<1>14. Closers'
  BY <1>3, <1>6 DEF Closers, DestroyLocations
<1>15. Array'
  <2>1. Adding /\ ~Adding'
    BY <1>2, <1>3 DEF Adding
  <2>. QED
    BY <1>1, <1>2, <1>3, <1>9, <1>10, <1>11, <2>1 DEF Inv, Array
<1>16. Running'
  BY <1>2, <1>3, <1>4 DEF Running
<1>17. Survivor'
  <2>. SUFFICES ASSUME pc'[owner] = "returned", Stopping' PROVE connections = <<>>
    BY <1>1, <1>2, <1>3, <1>10 DEF Survivor, Contains, SettingUp
  <2>. QED
    BY <1>2, <1>3 DEF Inv, Survivor, Stopping, SettingUp
<1>. QED
  BY <1>7, <1>12, <1>13, <1>14, <1>15, <1>16, <1>17 DEF Inv

(* The thread of the last connection is started. *)
LEMMA Started ==
    ASSUME Inv, pc[runner] = "start", NEW k \in Conns, Contains(connections, k), pc[k] = "none",
           k = arg[runner] \/ kind = "server",
           arg' = [arg EXCEPT ![runner] = k],
           pc' = [pc EXCEPT ![runner] = "assign", ![k] = "loop"],
           UNCHANGED <<lock, kind, host_active, connections, object, active, receiving, shut, thread>>
    PROVE  Inv'
<1>1. k \in Actors /\ k # runner /\ k # owner /\ k # user /\ runner \in Actors /\ runner # owner /\ runner # user
  BY Roles
<1>2. "assign" \in RunnerLocations /\ "loop" \in ConnLocations
  BY DEF RunnerLocations, ConnLocations, LoopLocations
<1>3. /\ pc'[runner] = "assign" /\ pc'[k] = "loop" /\ \A b \in Actors \ {runner, k} : pc'[b] = pc[b]
      /\ pc' \in [Actors -> RunnerLocations \cup ConnLocations \cup OwnerLocations \cup UserLocations]
      /\ arg' \in [Actors -> Conns] /\ arg'[runner] = k /\ \A b \in Actors \ {runner} : arg'[b] = arg[b]
  BY <1>1, <1>2 DEF Inv, TypeOK
<1>4. /\ pc'[owner] = pc[owner] /\ pc'[user] = pc[user] /\ \A j \in Conns \ {k} : pc'[j] = pc[j]
      /\ \A c \in Callers \ {k} : pc'[c] = pc[c] /\ arg'[c] = arg[c]
      /\ k # owner
  BY <1>1, <1>3, Roles
<1>5. TypeOK'
  BY <1>2, <1>3, <1>4 DEF Inv, TypeOK, RW!TypeOK
<1>6. Locks'
  <2>1. /\ Writes(runner)' <=> Writes(runner)
        /\ ~Reads(runner) /\ ~Reads(runner)'
        /\ ~Writes(k) /\ ~Writes(k)' /\ ~Reads(k) /\ ~Reads(k)'
    BY <1>3 DEF Writes, Reads, WriteLocations, DestroyLocations
  <2>2. \A b \in Actors \ {runner, k} : (Writes(b)' <=> Writes(b)) /\ (Reads(b)' <=> Reads(b))
    BY <1>3 DEF Writes, Reads
  <2>3. \A b \in Actors : (Writes(b)' <=> Writes(b)) /\ (Reads(b)' <=> Reads(b))
    BY <2>1, <2>2
  <2>. QED
    BY <2>3 DEF Inv, Locks
<1>7. Threads'
  <2>1. object[k] # "none"
    BY DEF Inv, Array
  <2>. QED
    BY <1>3, <1>4, <2>1 DEF Inv, Threads
<1>8. Closers'
  <2>1. ASSUME NEW b \in Actors \ {runner, k} PROVE pc'[b] = pc[b] /\ arg'[b] = arg[b]
    BY <1>3
  <2>. QED
    BY <1>3, <2>1 DEF Inv, Closers, DestroyLocations
<1>9. Array'
  <2>1. ~Adding /\ ~Adding' /\ (Destroying' <=> Destroying)
    BY <1>3, <1>4 DEF Adding, Destroying
  <2>2. \A c \in Callers : pc[c] = "removed" => pc'[c] = "removed" /\ arg'[c] = arg[c]
    BY <1>4
  <2>3. connections' = connections /\ object' = object
    OBVIOUS
  <2>4. Array
    BY DEF Inv
  <2>5. ASSUME NEW j \in Conns, Contains(connections, j), object[j] # "alive"
        PROVE  Destroying' \/ \E c \in Callers : pc'[c] = "removed" /\ arg'[c] = j
    <3>1. CASE Destroying
      BY <2>1, <3>1
    <3>2. CASE ~Destroying
      <4>1. PICK c \in Callers : pc[c] = "removed" /\ arg[c] = j
        BY <2>4, <2>5, <3>2 DEF Array
      <4>2. pc'[c] = "removed" /\ arg'[c] = j
        BY <2>2, <4>1
      <4>. QED
        BY <4>2, Zenon
    <3>. QED
      BY <3>1, <3>2
  <2>. QED
    BY <2>1, <2>3, <2>4, <2>5 DEF Array
<1>10. Running'
  BY <1>3 DEF Running
<1>11. Survivor'
  <2>1. Stopping' <=> Stopping
    BY <1>3 DEF Stopping
  <2>. QED
    BY <1>3, <1>4, <2>1 DEF Inv, Survivor, SettingUp
<1>. QED
  BY <1>5, <1>6, <1>7, <1>8, <1>9, <1>10, <1>11 DEF Inv

(* A server finds no connection, or one that is started; a client only what it made. *)
LEMMA NotStarted ==
    ASSUME Inv, pc[runner] = "start", kind = "server", NEW l \in {"stopped", "test"}, Goto(runner, l),
           \/ arg' = arg
           \/ \E k \in Conns : Contains(connections, k) /\ arg' = [arg EXCEPT ![runner] = k],
           UNCHANGED <<lock, kind, host_active, connections, object, active, receiving, shut, thread>>
    PROVE  Inv'
<1>1. l \in RunnerLocations
  BY DEF RunnerLocations
<1>2. /\ runner \in Actors /\ pc'[runner] = l /\ \A b \in Actors \ {runner} : pc'[b] = pc[b]
      /\ pc' \in [Actors -> RunnerLocations \cup ConnLocations \cup OwnerLocations \cup UserLocations]
      /\ pc'[runner] \in RunnerLocations /\ pc'[owner] \in OwnerLocations /\ pc'[user] \in UserLocations
      /\ \A j \in Conns : pc'[j] \in ConnLocations
      /\ \A j \in Conns : pc'[j] = pc[j]
      /\ \A c \in Callers : pc'[c] = pc[c]
      /\ pc'[owner] = pc[owner] /\ (Destroying' <=> Destroying)
  BY <1>1, RunnerMoves
<1>3. /\ arg' \in [Actors -> Conns] /\ \A b \in Actors \ {runner} : arg'[b] = arg[b]
      /\ arg'[runner] = arg[runner] \/ Contains(connections, arg'[runner])
      /\ arg'[runner] \in Conns
  BY <1>2 DEF Inv, TypeOK
<1>4. Locks' /\ RW!TypeOK'
  <2>1. \A b \in Actors : (Writes(b)' <=> Writes(b)) /\ (Reads(b)' <=> Reads(b))
    BY <1>2 DEF Writes, Reads, WriteLocations, DestroyLocations
  <2>. QED
    BY <1>2, <2>1, LockKept
<1>5. TypeOK'
  BY <1>2, <1>3, <1>4 DEF Inv, TypeOK
<1>6. Threads'
  BY <1>2 DEF Inv, Threads
<1>7. Closers'
  BY <1>2, <1>3 DEF Inv, Closers, DestroyLocations
<1>8. Array'
  <2>1. ~Adding /\ ~Adding'
    BY <1>2 DEF Adding
  <2>2. \A c \in Callers : arg'[c] = arg[c]
    BY <1>3, Roles
  <2>. QED
    BY <1>2, <2>1, <2>2 DEF Inv, Array
<1>9. Running'
  BY <1>2 DEF Running
<1>10. Survivor'
  <2>1. Stopping' <=> Stopping
    BY <1>2 DEF Stopping
  <2>. QED
    BY <1>2, <1>3, <2>1 DEF Inv, Survivor, SettingUp
<1>. QED
  BY <1>4, <1>5, <1>6, <1>7, <1>8, <1>9, <1>10 DEF Inv

LEMMA StartThreadStep ==
    ASSUME Inv, StartThread
    PROVE  Inv'
<1>1. /\ pc[runner] = "start"
      /\ UNCHANGED <<lock, kind, host_active, connections, object, active, receiving, shut, thread>>
  BY DEF StartThread, host, conn
<1>2. /\ kind \in {"server", "client"} /\ connections \in Seq(Conns)
      /\ kind = "client" => connections = <<arg[runner]>> /\ pc[arg[runner]] = "none"
  BY <1>1, NetHostAssumption DEF Inv, TypeOK, Running
<1>3. CASE connections = <<>>
  <2>1. kind = "server"
    BY <1>2, <1>3
  <2>2. Goto(runner, "stopped") /\ arg' = arg
    BY <1>3 DEF StartThread
  <2>. QED
    BY <1>1, <2>1, <2>2, NotStarted
<1>4. CASE connections # <<>>
  <2>1. PICK k \in Conns : k = Last(connections) /\ Contains(connections, k)
    <3>1. Len(connections) \in 1 .. Len(connections) /\ DOMAIN connections = 1 .. Len(connections)
      BY <1>2, <1>4, EmptySeq, LenProperties
    <3>2. Last(connections) \in Conns /\ Contains(connections, Last(connections))
      BY <1>2, <3>1 DEF Last, Contains
    <3>. QED
      BY <3>2
  <2>2. /\ arg' = [arg EXCEPT ![runner] = k]
        /\ IF pc[k] = "none" THEN pc' = [pc EXCEPT ![runner] = "assign", ![k] = "loop"]
                             ELSE Goto(runner, "test")
    BY <1>4, <2>1 DEF StartThread
  <2>3. kind = "client" => k = arg[runner]
    <3>1. ASSUME NEW x, connections = <<x>> PROVE Last(connections) = x
      BY <3>1 DEF Last
    <3>. QED
      BY <1>2, <2>1, <3>1
  <2>. QED
    BY <1>1, <1>2, <2>1, <2>2, <2>3, Started, NotStarted
<1>. QED
  BY <1>3, <1>4

LEMMA AssignThreadStep ==
    ASSUME Inv, AssignThread
    PROVE  Inv'
<1>1. PICK k \in Conns : k = arg[runner]
  BY Roles DEF Inv, TypeOK
<1>2. /\ pc[runner] = "assign" /\ Goto(runner, "test") /\ thread' = [thread EXCEPT ![k] = TRUE]
      /\ UNCHANGED <<arg, kind, host_active, connections, object, active, receiving, shut>>
      /\ IF kind = "client" THEN RW!Unlock(runner) ELSE lock' = lock
  BY <1>1 DEF AssignThread, host
<1>3. /\ runner \in Actors /\ pc'[runner] = "test" /\ \A b \in Actors \ {runner} : pc'[b] = pc[b]
      /\ pc' \in [Actors -> RunnerLocations \cup ConnLocations \cup OwnerLocations \cup UserLocations]
      /\ pc'[runner] \in RunnerLocations /\ pc'[owner] \in OwnerLocations /\ pc'[user] \in UserLocations
      /\ \A j \in Conns : pc'[j] \in ConnLocations
      /\ \A j \in Conns : pc'[j] = pc[j]
      /\ \A c \in Callers : pc'[c] = pc[c]
      /\ pc'[owner] = pc[owner] /\ (Destroying' <=> Destroying)
  <2>1. "test" \in RunnerLocations
    BY DEF RunnerLocations
  <2>. QED
    BY <1>2, <2>1, RunnerMoves
<1>4. thread' \in [Conns -> BOOLEAN] /\ thread'[k] /\ \A j \in Conns \ {k} : thread'[j] = thread[j]
  BY <1>2 DEF Inv, TypeOK
<1>5. Locks' /\ RW!TypeOK'
  <2>1. \A b \in Actors \ {runner} : (Writes(b)' <=> Writes(b)) /\ (Reads(b)' <=> Reads(b))
    BY <1>2, <1>3 DEF Writes, Reads
  <2>2. /\ ~Writes(runner)' /\ ~Reads(runner) /\ ~Reads(runner)'
        /\ kind # "client" => ~Writes(runner)
    BY <1>2, <1>3 DEF Writes, Reads, WriteLocations, DestroyLocations
  <2>. QED
    BY <1>2, <1>3, <2>1, <2>2, LockKept
<1>6. TypeOK'
  BY <1>2, <1>3, <1>4, <1>5 DEF Inv, TypeOK
<1>7. Threads'
  BY <1>1, <1>2, <1>3, <1>4 DEF Inv, Threads
<1>8. Closers'
  <2>1. ASSUME NEW b \in Actors \ {runner} PROVE pc'[b] = pc[b]
    BY <1>3
  <2>. QED
    BY <1>2, <1>3, <2>1 DEF Inv, Closers, DestroyLocations
<1>9. Array'
  <2>1. ~Adding /\ ~Adding'
    BY <1>2, <1>3 DEF Adding
  <2>. QED
    BY <1>2, <1>3, <2>1 DEF Inv, Array
<1>10. Running'
  BY <1>3 DEF Running
<1>11. Survivor'
  BY <1>2, <1>3 DEF Inv, Survivor, Stopping, SettingUp
<1>. QED
  BY <1>5, <1>6, <1>7, <1>8, <1>9, <1>10, <1>11 DEF Inv

-----------------------------------------------------------------------------
(* ShutDown empties the array: everything in it was destroyed. *)
LEMMA ShutDownReturnStep ==
    ASSUME Inv, ShutDownReturn
    PROVE  Inv'
<1>1. /\ pc[owner] = "next" /\ \A i \in DOMAIN connections : object[connections[i]] # "alive"
      /\ connections' = <<>> /\ RW!Unlock(owner) /\ arg' = [arg EXCEPT ![owner] = Unused]
      /\ Goto(owner, "returned")
      /\ UNCHANGED <<kind, host_active, object, active, receiving, shut, thread>>
  BY DEF ShutDownReturn, conn
<1>2. owner \in Actors /\ owner # runner /\ owner \notin Conns /\ owner \notin Callers /\ runner \in Actors
  BY Roles
<1>3. /\ pc'[owner] = "returned" /\ \A b \in Actors \ {owner} : pc'[b] = pc[b]
      /\ pc' \in [Actors -> RunnerLocations \cup ConnLocations \cup OwnerLocations \cup UserLocations]
      /\ pc'[runner] \in RunnerLocations /\ pc'[owner] \in OwnerLocations /\ pc'[user] \in UserLocations
      /\ \A j \in Conns : pc'[j] \in ConnLocations
  <2>1. "returned" \in Locations(owner)
    BY <1>2 DEF Locations, OwnerLocations
  <2>. QED
    BY <1>1, <1>2, <2>1, PcMoves DEF Inv
<1>4. /\ pc'[runner] = pc[runner] /\ \A j \in Conns : pc'[j] = pc[j]
      /\ \A c \in Callers : pc'[c] = pc[c]
  BY <1>2, <1>3, Roles
<1>5. arg' \in [Actors -> Conns] /\ \A b \in Actors \ {owner} : arg'[b] = arg[b]
  <2>1. Unused \in Conns
    BY NetHostAssumption DEF Unused
  <2>. QED
    BY <1>1, <1>2, <2>1 DEF Inv, TypeOK
<1>6. arg'[runner] = arg[runner] /\ arg[runner] \in Conns
  BY <1>2, <1>5 DEF Inv, TypeOK
<1>7. Writes(owner) /\ ~Writes(owner)' /\ ~Reads(owner)'
  BY <1>1, <1>3 DEF Writes, Reads, WriteLocations, DestroyLocations
<1>8. \A b \in Actors \ {owner} : pc[b] \notin DestroyLocations \cup {"removed", "connect"} /\ ~Writes(b)
  <2>1. \A b \in Actors \ {owner} : ~Writes(b)
    BY <1>2, <1>7, Alone
  <2>. QED
    BY <2>1 DEF Writes, WriteLocations
<1>9. Locks' /\ RW!TypeOK'
  <2>1. \A b \in Actors \ {owner} : (Writes(b)' <=> Writes(b)) /\ (Reads(b)' <=> Reads(b))
    BY <1>1, <1>3 DEF Writes, Reads
  <2>. QED
    BY <1>1, <1>2, <1>7, <2>1, LockKept
<1>10. connections' \in Seq(Conns) /\ DOMAIN connections' = {} /\ \A e : ~Contains(connections', e)
  BY <1>1, EmptySeq DEF Contains
<1>11. TypeOK'
  BY <1>1, <1>3, <1>5, <1>9, <1>10 DEF Inv, TypeOK
<1>12. Threads'
  BY <1>1, <1>4, <1>6 DEF Inv, Threads
<1>13. Closers'
  BY <1>3, <1>8 DEF Closers, DestroyLocations
<1>14. Array'
  <2>1. Adding' <=> Adding
    BY <1>4 DEF Adding
  <2>2. \A k \in Conns : object[k] = "alive" => ~Contains(connections, k)
    BY <1>1 DEF Contains
  <2>. QED
    BY <1>1, <1>6, <1>10, <2>1, <2>2 DEF Inv, Array
<1>15. Running'
  <2>1. kind = "client" => pc[runner] # "start"
    BY <1>2, <1>8 DEF Writes
  <2>. QED
    BY <1>1, <1>4, <2>1 DEF Inv, Running
<1>16. Survivor'
  BY <1>1, <1>10 DEF Survivor
<1>. QED
  BY <1>9, <1>11, <1>12, <1>13, <1>14, <1>15, <1>16 DEF Inv

(* CloseConnection removes what it has destroyed, if it was there. *)
LEMMA CloseReturnStep ==
    ASSUME Inv, NEW a \in Callers, CloseReturn(a)
    PROVE  Inv'
<1>. DEFINE l == IF a = user THEN "idle" ELSE "done"
            n == IF a = user THEN Unused ELSE a
<1>1. a \in Actors /\ a # runner /\ a # owner /\ runner \in Actors /\ (a = user \/ a \in Conns)
  BY Roles DEF Callers
<1>2. PICK k \in Conns : k = arg[a]
  BY <1>1 DEF Inv, TypeOK
<1>3. /\ pc[a] = "removed" /\ connections' = RemoveFound(connections, k) /\ RW!Unlock(a)
      /\ arg' = [arg EXCEPT ![a] = n] /\ Goto(a, l)
      /\ UNCHANGED <<kind, host_active, object, active, receiving, shut, thread>>
  BY <1>2 DEF CloseReturn, conn
<1>4. n \in Conns /\ l \in Locations(a) /\ l \in {"idle", "done"}
  BY <1>1, Roles, NetHostAssumption DEF Unused, Locations, UserLocations, ConnLocations
<1>. HIDE DEF l, n
<1>5. /\ pc'[a] = l /\ \A b \in Actors \ {a} : pc'[b] = pc[b]
      /\ pc' \in [Actors -> RunnerLocations \cup ConnLocations \cup OwnerLocations \cup UserLocations]
      /\ pc'[runner] \in RunnerLocations /\ pc'[owner] \in OwnerLocations /\ pc'[user] \in UserLocations
      /\ \A j \in Conns : pc'[j] \in ConnLocations
  BY <1>1, <1>3, <1>4, PcMoves DEF Inv
<1>6. arg' \in [Actors -> Conns] /\ \A b \in Actors \ {a} : arg'[b] = arg[b]
  BY <1>1, <1>3, <1>4 DEF Inv, TypeOK
<1>7. /\ pc'[runner] = pc[runner] /\ pc'[owner] = pc[owner] /\ arg'[runner] = arg[runner]
      /\ arg[runner] \in Conns
  BY <1>1, <1>5, <1>6, Roles DEF Inv, TypeOK
<1>8. Writes(a) /\ ~Writes(a)' /\ ~Reads(a)'
  BY <1>3, <1>4, <1>5 DEF Writes, Reads, WriteLocations, DestroyLocations
<1>9. \A b \in Actors \ {a} : pc[b] \notin DestroyLocations \cup {"removed", "next"} /\ ~Writes(b)
  <2>1. \A b \in Actors \ {a} : ~Writes(b)
    BY <1>1, <1>8, Alone
  <2>. QED
    BY <2>1 DEF Writes, WriteLocations
<1>10. Locks' /\ RW!TypeOK'
  <2>1. \A b \in Actors \ {a} : (Writes(b)' <=> Writes(b)) /\ (Reads(b)' <=> Reads(b))
    BY <1>3, <1>5 DEF Writes, Reads
  <2>. QED
    BY <1>1, <1>3, <1>8, <2>1, LockKept
<1>11. /\ connections' \in Seq(Conns)
       /\ \A i, j \in DOMAIN connections' : connections'[i] = connections'[j] => i = j
       /\ \A e : Contains(connections', e) <=> Contains(connections, e) /\ e # k
  <2>1. connections \in Seq(Conns) /\ \A i, j \in DOMAIN connections : connections[i] = connections[j] => i = j
    BY DEF Inv, TypeOK, Array
  <2>. QED
    BY <1>3, <2>1, Removed
<1>12. TypeOK'
  BY <1>3, <1>5, <1>6, <1>10, <1>11 DEF Inv, TypeOK
<1>13. Threads'
  <2>1. ASSUME NEW j \in Conns, j # a PROVE pc'[j] = pc[j]
    BY <1>5, <2>1, Roles
  <2>2. a \in Conns => object[a] # "none" /\ pc'[a] \notin ThreadLocations
    BY <1>3, <1>4, <1>5 DEF Inv, Threads, ThreadLocations, LoopLocations, SendLocations
  <2>. QED
    BY <1>3, <1>7, <2>1, <2>2 DEF Inv, Threads
<1>14. Closers'
  BY <1>4, <1>5, <1>9 DEF Closers, DestroyLocations
<1>15. Array'
  <2>1. Adding' <=> Adding
    BY <1>7 DEF Adding
  <2>2. ~Destroying /\ \A c \in Callers : pc[c] = "removed" => c = a
    BY <1>1, <1>9, Roles DEF Destroying
  <2>3. \A j \in Conns : Contains(connections, j) /\ object[j] # "alive" => j = k
    BY <1>2, <2>2 DEF Inv, Array
  <2>4. object[k] = "alive" => ~Contains(connections, k)
    BY <1>1, <1>2, <1>3 DEF Inv, Closers
  <2>. QED
    BY <1>3, <1>7, <1>11, <2>1, <2>3, <2>4 DEF Inv, Array
<1>16. Running'
  <2>1. kind = "client" => pc[runner] # "start"
    BY <1>1, <1>9 DEF Writes
  <2>. QED
    BY <1>3, <1>7, <2>1 DEF Inv, Running
<1>17. Survivor'
  <2>1. Stopping' <=> Stopping
    BY <1>3, <1>7 DEF Stopping
  <2>2. ASSUME connections = <<>> PROVE connections' = <<>>
    <3>1. \A e : ~Contains(connections', e)
      BY <1>11, <2>2 DEF Contains
    <3>2. Len(connections') = 0
      BY <1>11, <3>1 DEF Contains
    <3>. QED
      BY <1>11, <3>2, EmptySeq
  <2>. QED
    BY <1>7, <1>11, <2>1, <2>2 DEF Inv, Survivor
<1>. QED
  BY <1>10, <1>12, <1>13, <1>14, <1>15, <1>16, <1>17 DEF Inv

-----------------------------------------------------------------------------
(* The invariant holds initially and is kept by every step. *)
LEMMA InitInv ==
    ASSUME Init
    PROVE  Inv
<1>1. /\ kind \in Kinds /\ connections = <<>> /\ host_active = FALSE
      /\ \A k \in Conns : object[k] = "none"
      /\ object \in [Conns -> {"none", "alive", "destroyed"}] /\ active \in [Conns -> BOOLEAN]
      /\ receiving \in [Conns -> BOOLEAN] /\ shut \in [Conns -> BOOLEAN] /\ thread \in [Conns -> BOOLEAN]
  BY DEF Init
<1>2. /\ pc[runner] = "begin" /\ pc[owner] = "idle" /\ pc[user] = "idle"
      /\ \A k \in Conns : pc[k] = "none"
      /\ \A a \in Actors : pc[a] \in {"begin", "idle", "none"}
      /\ pc = [a \in Actors |-> pc[a]]
  BY Roles DEF Init, Actors
<1>3. arg \in [Actors -> Conns]
  <2>1. Unused \in Conns
    BY NetHostAssumption DEF Unused
  <2>. QED
    BY <2>1 DEF Init
<1>4. lock \in [Actors -> {"read", "write", "none"}] /\ \A a \in Actors : lock[a] = "none"
  BY DEF Init, RW!Init
<1>5. pc \in [Actors -> RunnerLocations \cup ConnLocations \cup OwnerLocations \cup UserLocations]
  BY <1>2 DEF RunnerLocations, ConnLocations, OwnerLocations
<1>6. TypeOK
  <2>1. RW!TypeOK
    BY <1>4 DEF RW!TypeOK, RW!Access
  <2>2. /\ pc[runner] \in RunnerLocations /\ pc[owner] \in OwnerLocations /\ pc[user] \in UserLocations
        /\ \A k \in Conns : pc[k] \in ConnLocations
    BY <1>2 DEF RunnerLocations, ConnLocations, OwnerLocations, UserLocations
  <2>3. connections \in Seq(Conns) /\ host_active \in BOOLEAN
    BY <1>1, EmptySeq
  <2>. QED
    BY <1>1, <1>3, <1>5, <2>1, <2>2, <2>3 DEF TypeOK
<1>7. Locks
  BY <1>2, <1>4 DEF Locks, Writes, Reads, WriteLocations, DestroyLocations
<1>8. Threads
  BY <1>2 DEF Threads, ThreadLocations, LoopLocations, SendLocations
<1>9. Closers
  BY <1>2 DEF Closers, DestroyLocations
<1>10. Array
  <2>1. \A k : ~Contains(connections, k)
    BY <1>1 DEF Contains
  <2>. QED
    BY <1>1, <1>2, <2>1 DEF Array, Adding
<1>11. Running /\ Survivor
  BY <1>2 DEF Running, Survivor
<1>. QED
  BY <1>6, <1>7, <1>8, <1>9, <1>10, <1>11 DEF Inv

LEMMA NextInv ==
    ASSUME Inv, Next
    PROVE  Inv'
<1>1. user \in Callers /\ Conns \subseteq Callers
  BY DEF Callers
<1>2. ASSUME NEW a \in Callers, CallStep(a) PROVE Inv'
  BY <1>2, CloseReturnStep, DestroyInv, CallPlain DEF CallStep
<1>3. CASE Run
  BY <1>3, RunPlain, AddStep, StartThreadStep, AssignThreadStep DEF Run
<1>4. CASE \E k \in Conns : Accept(k) \/ Connect(k) \/ ConnectionStep(k) \/ CloseConnection(k)
  BY <1>1, <1>2, <1>4, AcceptStep, ConnectStep, ThreadPlain, CallPlain DEF ConnectionStep
<1>5. CASE ShutDown \/ OwnerStep
  BY <1>5, CallPlain, ShutDownReturnStep, DestroyInv DEF OwnerStep
<1>6. CASE SendCommand \/ CallStep(user)
  BY <1>1, <1>2, <1>6, CallPlain
<1>7. CASE \E a \in Actors : LockStep(a)
  BY <1>7, RunPlain, CallPlain DEF LockStep
<1>. QED
  BY <1>3, <1>4, <1>5, <1>6, <1>7 DEF Next

LEMMA StutterInv ==
    ASSUME Inv, UNCHANGED vars
    PROVE  Inv'
<1>. USE DEF vars, host, conn
<1>1. TypeOK' /\ Locks'
  BY DEF Inv, TypeOK, Locks, RW!TypeOK, Writes, Reads
<1>2. Threads' /\ Closers'
  BY DEF Inv, Threads, Closers
<1>3. Array'
  BY DEF Inv, Array, Adding, Destroying
<1>4. Running' /\ Survivor'
  BY DEF Inv, Running, Survivor, Stopping
<1>. QED
  BY <1>1, <1>2, <1>3, <1>4 DEF Inv

LEMMA Invariance == Spec => []Inv
<1>1. Init => Inv
  BY InitInv
<1>2. Inv /\ [Next]_vars => Inv'
  BY NextInv, StutterInv
<1>. QED
  BY <1>1, <1>2, PTL DEF Spec

(* The variables of the host and of its connections keep their types. *)
THEOREM TypeCorrect == Spec => []TypeOK
<1>1. Inv => TypeOK
  BY DEF Inv
<1>. QED
  BY <1>1, Invariance, PTL

(* Host::SendCommand, with the array locked for reading, never finds a connection that
   was destroyed: ShutDown and CloseConnection destroy with the array locked for writing
   and remove what they destroyed before they unlock it. *)
THEOREM ReadersSafe == Spec => []ReadersSeeLiveConnections
<1>1. ASSUME Inv PROVE ReadersSeeLiveConnections
  <2>. SUFFICES ASSUME NEW a \in Actors, lock[a] = "read", NEW k \in Conns, Contains(connections, k)
                PROVE  object[k] = "alive"
    BY DEF ReadersSeeLiveConnections
  <2>1. \A b \in Actors : ~Writes(b)
    BY <1>1 DEF Inv, Locks
  <2>2. \A b \in Actors : pc[b] \notin DestroyLocations \cup {"next", "removed"}
    BY <2>1 DEF Writes, WriteLocations
  <2>3. ~Destroying /\ \A c \in Callers : pc[c] # "removed"
    BY <2>2, Roles DEF Destroying
  <2>. QED
    BY <1>1, <2>3 DEF Inv, Array
<1>. QED
  BY <1>1, Invariance, PTL

(* After Host::ShutDown no connection is left but the one that Run was setting up. *)
THEOREM ShutDownLeavesLast == Spec => []OnlyLastSurvivesShutDown
<1>1. ASSUME Inv PROVE OnlyLastSurvivesShutDown
  BY <1>1 DEF Inv, Array, Survivor, OnlyLastSurvivesShutDown
<1>. QED
  BY <1>1, Invariance, PTL

(* Only the end of ~Connection destroys a connection. *)
LEMMA DestroyedBy ==
    ASSUME Inv, Next, NEW k \in Conns, object[k] # "destroyed", object'[k] = "destroyed"
    PROVE  \E a \in Callers \cup {owner} : (DestroyMembers(a) \/ JoinMember(a)) /\ Destroyed(a) /\ arg[a] = k
<1>. DEFINE By(a) == (DestroyMembers(a) \/ JoinMember(a)) /\ Destroyed(a)
<1>0. /\ object \in [Conns -> {"none", "alive", "destroyed"}] /\ arg \in [Actors -> Conns]
      /\ user \in Callers /\ Conns \subseteq Callers /\ Callers \cup {owner} \subseteq Actors
  BY Roles DEF Inv, TypeOK, Callers
<1>1. ASSUME NEW j \in Conns, NEW l, Construct(j, l) PROVE FALSE
  BY <1>0, <1>1 DEF Construct
<1>2. ASSUME NEW a, DestroyStep(a) PROVE object' = object \/ By(a)
  BY <1>2 DEF DestroyStep, Destroy, ShutSocket, DeleteThread, JoinThread, DestroyMembers, JoinMember, conn
<1>3. ASSUME NEW a \in Callers, CallStep(a) PROVE object' = object \/ By(a)
  BY <1>2, <1>3 DEF CallStep, CloseReturn, SendAdd, conn
<1>4. CASE Run
  BY <1>4 DEF Run, Launch, TestActive, PollTimeout, AddLock, Add, ConnectLock, ConnectNot, StartThread,
              AssignThread, conn
<1>5. ASSUME NEW j \in Conns, Accept(j) \/ Connect(j) \/ ConnectionStep(j) \/ CloseConnection(j)
      PROVE  \E a \in Callers \cup {owner} : By(a)
  <2>1. CASE Accept(j) \/ Connect(j)
    BY <1>1, <2>1 DEF Accept, Connect
  <2>2. CASE LoopStep(j) \/ ShutDownStep(j) \/ CloseConnection(j)
    <3>1. object' = object
      BY <2>2 DEF LoopStep, ShutDownStep, TestLoop, Send, SendFails, ReceiveLock, Receive, ReceiveFails,
                  ShutDownSelf, ShutSocketSelf, DeleteThreadSelf, CloseConnection, conn
    <3>. QED
      BY <3>1
  <2>3. CASE CallStep(j)
    BY <1>0, <1>3, <2>3
  <2>. QED
    BY <1>5, <2>1, <2>2, <2>3 DEF ConnectionStep
<1>6. ASSUME ShutDown \/ OwnerStep PROVE \E a \in Callers \cup {owner} : By(a)
  <2>1. object' = object \/ By(owner)
    BY <1>2, <1>6 DEF OwnerStep, ShutDown, ShutDownNext, ShutDownReturn, conn
  <2>. QED
    BY <2>1
<1>7. ASSUME SendCommand \/ CallStep(user) PROVE \E a \in Callers \cup {owner} : By(a)
  <2>1. object' = object \/ By(user)
    BY <1>0, <1>3, <1>7 DEF SendCommand, conn
  <2>. QED
    BY <1>0, <2>1
<1>8. CASE \E a \in Actors : LockStep(a)
  BY <1>8 DEF LockStep, AddLock, ConnectLock, ShutDownLock, CloseLock, SendLock, conn
<1>9. PICK a \in Callers \cup {owner} : By(a)
  BY <1>4, <1>5, <1>6, <1>7, <1>8 DEF Next
<1>10. arg[a] = k
  BY <1>0, <1>9 DEF Destroyed
<1>. QED
  BY <1>9, <1>10

(* ~Connection in another thread finds the thread of the connection not running: it was
   joined, never started, or it has given up its Thread object and waits for the lock; a
   client even starts it with the array locked, so only a server can be caught between
   the start of the thread and the assignment of its Thread object. *)
THEOREM DestructorWaits == Spec => DestructorWaitsForThread
<1>. DEFINE Waits(k) == \/ pc[k] \in {"none", "done", "close_lock"}
                        \/ pc[k] = "d_members" /\ arg[k] = k
                        \/ kind = "server" /\ pc[runner] = "assign" /\ arg[runner] = k
            Safe == \A k \in Conns : object[k] # "destroyed" /\ object'[k] = "destroyed" => Waits(k)
<1>1. ASSUME Inv, Next PROVE Safe
  <2>. SUFFICES ASSUME NEW k \in Conns, object[k] # "destroyed", object'[k] = "destroyed" PROVE Waits(k)
    OBVIOUS
  <2>1. PICK a \in Callers \cup {owner} : (DestroyMembers(a) \/ JoinMember(a)) /\ Destroyed(a) /\ arg[a] = k
    BY <1>1, DestroyedBy
  <2>2. a \in Actors /\ a # runner /\ k \in Actors /\ runner \in Actors
    BY Roles
  <2>3. CASE JoinMember(a)
    BY <2>1, <2>3 DEF JoinMember
  <2>4. CASE DestroyMembers(a) /\ a = k
    BY <2>1, <2>4 DEF DestroyMembers
  <2>5. CASE DestroyMembers(a) /\ a # k
    <3>1. pc[a] = "d_members"
      BY <2>5 DEF DestroyMembers
    <3>2. ~thread[k]
      <4>1. pc'[a] # "m_join"
        BY <1>1, <2>1, <2>2 DEF Destroyed, Goto, Inv, TypeOK
      <4>. QED
        BY <1>1, <2>1, <2>2, <2>5, <4>1 DEF DestroyMembers, Goto, Inv, TypeOK
    <3>3. Writes(a)
      BY <3>1 DEF Writes, WriteLocations, DestroyLocations
    <3>4. ~Writes(k) /\ ~Writes(runner)
      BY <1>1, <2>2, <2>5, <3>3, Alone
    <3>5. pc[k] \in ThreadLocations \/ pc[k] \in {"none", "done", "close_lock"}
      BY <1>1, <3>4 DEF Inv, TypeOK, Writes, WriteLocations, ConnLocations, EndLocations, CloseLocations,
                        ThreadLocations
    <3>6. pc[k] \in ThreadLocations => pc[runner] = "assign" /\ arg[runner] = k
      BY <1>1, <3>2 DEF Inv, Threads
    <3>7. pc[runner] = "assign" => kind = "server"
      BY <1>1, <3>4, NetHostAssumption DEF Inv, TypeOK, Writes
    <3>. QED
      BY <3>5, <3>6, <3>7
  <2>. QED
    BY <2>1, <2>3, <2>4, <2>5
<1>2. Inv /\ [Next]_vars => [Safe]_vars
  BY <1>1
<1>. QED
  BY <1>2, Invariance, PTL DEF Spec, DestructorWaitsForThread
=============================================================================
