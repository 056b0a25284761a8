------------------------------ MODULE NetHost -------------------------------
(***************************************************************************)
(* ut::net::Host, Server, Client, Connection and the actions a connection  *)
(* executes (src/net/).                                                    *)
(*                                                                         *)
(* One thread is in Host::Run and creates connections; each connection has *)
(* a thread of its own, that sends and receives commands until the peer    *)
(* closes or an error occurs and then deletes its own connection; the      *)
(* owner calls Host::ShutDown, which deletes all connections; a user sends *)
(* commands and closes connections.  The array of connections is guarded   *)
(* by a ut::RWLock, whose abstract specification is used here.             *)
(*                                                                         *)
(* Nothing restrains the application and the peers: a peer may connect,    *)
(* close or fail at any time, a command that is executed may send          *)
(* commands, and ShutDown and CloseConnection may be called at any time.   *)
(* A connection can then be used after it was destroyed; its members are   *)
(* taken to have kept their values, and its address to be any.             *)
(***************************************************************************)
EXTENDS Integers, Sequences, SequencesExt

CONSTANTS
    Conns,        \* the connections that can be made (bound)
    Kinds,        \* the kinds of host to look at
    runner, owner, user

(* What arg[a] is while a works on no connection. *)
Unused == CHOOSE k \in Conns : TRUE

(* Callers call Host::CloseConnection and Host::SendCommand. *)
Callers == Conns \cup {user}
Actors == Callers \cup {runner, owner}

ASSUME NetHostAssumption ==
    /\ Conns # {}
    /\ Kinds \subseteq {"server", "client"}
    /\ runner \notin Conns \cup {owner, user} /\ owner \notin Conns \cup {user}
    /\ user \notin Conns

VARIABLES
    kind,         \* "server" or "client"
    pc,           \* pc[a]: where actor a is; pc[k] is the thread of connection k
    arg,          \* arg[a]: the connection a sets up, closes or destroys
    lock,         \* lock[a]: the access of a to Host::connections
    connections,  \* Host::connections
    host_active,  \* Host::active
    object,       \* object[k]: "none", "alive" or "destroyed"
    active,       \* active[k]: Connection::active
    receiving,    \* receiving[k]: Connection::socket is locked during a receive
    shut,         \* shut[k]: the socket has been shut down
    thread        \* thread[k]: Connection::thread is not null

host == <<kind, host_active, connections>>
conn == <<object, active, receiving, shut, thread>>
vars == <<pc, arg, lock, host, conn>>

RW == INSTANCE RWLock WITH Threads <- Actors, hold <- lock

Goto(a, location) == pc' = [pc EXCEPT ![a] = location]

(* Both implementations of the lock let no reader in while a writer waits. *)
LockRead(a) ==
    /\ \A b \in Actors : pc[b] \notin {"add_lock", "lock", "shutdown_lock", "close_lock"}
    /\ RW!Lock(a, "read")

RunnerLocations == {"begin", "test", "stopped", "poll", "add_lock", "add", "lock", "connect",
                    "start", "assign"}
SendLocations == {"send_lock", "sending"}
DestroyLocations == {"destroy", "d_socket", "d_thread", "d_join", "d_members", "m_join"}
CloseLocations == DestroyLocations \cup {"close_lock", "removed"}
LoopLocations == SendLocations \cup {"loop", "send", "recv", "receiving"}
EndLocations == CloseLocations \cup {"shutdown", "shut_socket", "delete_thread"}
ConnLocations == LoopLocations \cup EndLocations \cup {"none", "done"}
OwnerLocations == DestroyLocations \cup {"idle", "shutdown_lock", "next", "returned"}
UserLocations == CloseLocations \cup SendLocations \cup {"idle"}

TypeOK ==
    /\ kind \in Kinds
    /\ pc \in [Actors -> RunnerLocations \cup ConnLocations \cup OwnerLocations \cup UserLocations]
    /\ pc[runner] \in RunnerLocations /\ pc[owner] \in OwnerLocations /\ pc[user] \in UserLocations
    /\ \A k \in Conns : pc[k] \in ConnLocations
    /\ arg \in [Actors -> Conns]
    /\ RW!TypeOK
    /\ connections \in Seq(Conns)
    /\ host_active \in BOOLEAN
    /\ object \in [Conns -> {"none", "alive", "destroyed"}]
    /\ active \in [Conns -> BOOLEAN]
    /\ receiving \in [Conns -> BOOLEAN]
    /\ shut \in [Conns -> BOOLEAN]
    /\ thread \in [Conns -> BOOLEAN]

Init ==
    /\ kind \in Kinds
    /\ pc = [a \in Actors |-> CASE a = runner -> "begin"
                                [] a \in Conns -> "none"
                                [] OTHER -> "idle"]
    /\ arg = [a \in Actors |-> IF a \in Conns THEN a ELSE Unused]
    /\ RW!Init
    /\ connections = <<>>
    /\ host_active = FALSE
    /\ object = [k \in Conns |-> "none"]
    /\ active = [k \in Conns |-> FALSE]
    /\ receiving = [k \in Conns |-> FALSE]
    /\ shut = [k \in Conns |-> FALSE]
    /\ thread = [k \in Conns |-> FALSE]

-----------------------------------------------------------------------------
(* Server::Run and Client::Run: activate the host ... *)
Launch ==
    /\ pc[runner] = "begin"
    /\ host_active' = TRUE
    /\ Goto(runner, "test")
    /\ UNCHANGED <<arg, lock, kind, connections, conn>>

(* Faulty form: the loop does not look at active. *)
TestActive_Ignored ==
    /\ pc[runner] = "test"
    /\ Goto(runner, IF kind = "server" THEN "poll" ELSE "lock")
    /\ UNCHANGED <<arg, lock, host, conn>>

(* ... and loop while it is active. *)
TestActive ==
    /\ pc[runner] = "test"
    /\ Goto(runner, IF ~host_active THEN "stopped"
                    ELSE IF kind = "server" THEN "poll" ELSE "lock")
    /\ UNCHANGED <<arg, lock, host, conn>>

(* A connection is constructed: pc and the state of the connection. *)
Construct(k, location) ==
    /\ object[k] = "none"
    /\ k = CHOOSE j \in Conns : object[j] = "none"
    /\ object' = [object EXCEPT ![k] = "alive"]
    /\ active' = [active EXCEPT ![k] = TRUE]
    /\ arg' = [arg EXCEPT ![runner] = k]
    /\ Goto(runner, location)
    /\ UNCHANGED <<receiving, shut, thread>>

(* Server: poll ends without a client, or one is accepted ... *)
PollTimeout ==
    /\ pc[runner] = "poll"
    /\ Goto(runner, "test")
    /\ UNCHANGED <<arg, lock, host, conn>>

Accept(k) ==
    /\ pc[runner] = "poll"
    /\ Construct(k, "add_lock")
    /\ UNCHANGED <<lock, host>>

(* ... and its connection is added with the lock held. *)
AddLock ==
    /\ pc[runner] = "add_lock"
    /\ RW!Lock(runner, "write")
    /\ Goto(runner, "add")
    /\ UNCHANGED <<arg, host, conn>>

Add ==
    /\ pc[runner] = "add"
    /\ connections' = Append(connections, arg[runner])
    /\ RW!Unlock(runner)
    /\ Goto(runner, "start")
    /\ UNCHANGED <<arg, kind, host_active, conn>>

(* Client: with the lock held, connect if there is no connection; the attempt may
   fail. *)
ConnectLock ==
    /\ pc[runner] = "lock"
    /\ RW!Lock(runner, "write")
    /\ Goto(runner, "connect")
    /\ UNCHANGED <<arg, host, conn>>

ConnectNot ==
    /\ pc[runner] = "connect"
    /\ RW!Unlock(runner)
    /\ Goto(runner, "test")
    /\ UNCHANGED <<arg, host, conn>>

Connect(k) ==
    /\ pc[runner] = "connect"
    /\ connections = <<>>
    /\ Construct(k, "start")
    /\ connections' = <<k>>
    /\ UNCHANGED <<lock, kind, host_active>>

(* RunInSeparateThread of the last connection, which the server looks up without
   the lock (there may be none any more, or one that has been started): the thread
   of the connection begins to run ... *)
StartThread ==
    /\ pc[runner] = "start"
    /\ IF connections = <<>>
       THEN Goto(runner, "stopped") /\ UNCHANGED arg
       ELSE /\ arg' = [arg EXCEPT ![runner] = Last(connections)]
            /\ IF pc[Last(connections)] = "none"
               THEN pc' = [pc EXCEPT ![runner] = "assign", ![Last(connections)] = "loop"]
               ELSE Goto(runner, "test")
    /\ UNCHANGED <<lock, host, conn>>

(* ... and its Thread object is assigned to Connection::thread.  A client then releases
   the lock. *)
AssignThread ==
    /\ pc[runner] = "assign"
    /\ thread' = [thread EXCEPT ![arg[runner]] = TRUE]
    /\ IF kind = "client" THEN RW!Unlock(runner) ELSE UNCHANGED lock
    /\ Goto(runner, "test")
    /\ UNCHANGED <<arg, host, object, active, receiving, shut>>

Run ==
    \/ Launch \/ TestActive
    \/ PollTimeout \/ AddLock \/ Add
    \/ ConnectLock \/ ConnectNot
    \/ StartThread \/ AssignThread

-----------------------------------------------------------------------------
(* ConnectionJob::Execute and Loop::Execute: send and receive in turn while the
   connection is active. *)
TestLoop(k) ==
    /\ pc[k] = "loop"
    /\ Goto(k, IF active[k] THEN "send" ELSE "shutdown")
    /\ UNCHANGED <<arg, lock, host, conn>>

(* SendCommandFromStack: the oldest command, or the idle one if there is none, is sent
   with the socket locked. *)
Send(k) ==
    /\ pc[k] = "send"
    /\ ~receiving[k] /\ ~shut[k]
    /\ Goto(k, "recv")
    /\ UNCHANGED <<arg, lock, host, conn>>

SendFails(k) ==
    /\ pc[k] = "send"
    /\ ~receiving[k]
    /\ Goto(k, "shutdown")
    /\ UNCHANGED <<arg, lock, host, conn>>

(* ReceiveCommand: lock the socket and block in the receive ... *)
ReceiveLock(k) ==
    /\ pc[k] = "recv"
    /\ ~receiving[k]
    /\ receiving' = [receiving EXCEPT ![k] = TRUE]
    /\ Goto(k, "receiving")
    /\ UNCHANGED <<arg, lock, host, object, active, shut, thread>>

(* Faulty form: the socket remains locked. *)
Receive_KeepsLock(k) ==
    /\ pc[k] = "receiving"
    /\ Goto(k, "loop") \/ Goto(k, "send_lock")
    /\ UNCHANGED <<arg, lock, host, conn>>

(* ... until a command comes and Connection::ExecuteCommand executes it.  What it does
   is up to the application; it may call Host::SendCommand ... *)
Receive(k) ==
    /\ pc[k] = "receiving"
    /\ receiving' = [receiving EXCEPT ![k] = FALSE]
    /\ Goto(k, "loop") \/ Goto(k, "send_lock")
    /\ UNCHANGED <<arg, lock, host, object, active, shut, thread>>

(* Faulty form: the socket remains locked. *)
ReceiveFails_KeepsLock(k) ==
    /\ pc[k] = "receiving"
    /\ Goto(k, "shutdown")
    /\ UNCHANGED <<arg, lock, host, conn>>

(* ... or the peer closes, the receive times out, or another error ends it. *)
ReceiveFails(k) ==
    /\ pc[k] = "receiving"
    /\ receiving' = [receiving EXCEPT ![k] = FALSE]
    /\ Goto(k, "shutdown")
    /\ UNCHANGED <<arg, lock, host, object, active, shut, thread>>

LoopStep(k) ==
    \/ TestLoop(k) \/ Send(k) \/ SendFails(k)
    \/ ReceiveLock(k) \/ Receive(k) \/ ReceiveFails(k)

-----------------------------------------------------------------------------
(* Connection::ShutDown(true), by the thread of the connection: the first to find
   it active closes it ... *)
ShutDownSelf(k) ==
    /\ pc[k] = "shutdown"
    /\ active' = [active EXCEPT ![k] = FALSE]
    /\ Goto(k, IF active[k] THEN "shut_socket" ELSE "done")
    /\ UNCHANGED <<arg, lock, host, object, receiving, shut, thread>>

(* ... shuts the socket down ... *)
ShutSocketSelf(k) ==
    /\ pc[k] = "shut_socket"
    /\ ~receiving[k]
    /\ shut' = [shut EXCEPT ![k] = TRUE]
    /\ Goto(k, "delete_thread")
    /\ UNCHANGED <<arg, lock, host, object, active, receiving, thread>>

(* ... deletes its own Thread object, which does not wait for the own thread, and
   asks the host to delete the connection. *)
DeleteThreadSelf(k) ==
    /\ pc[k] = "delete_thread"
    /\ thread' = [thread EXCEPT ![k] = FALSE]
    /\ Goto(k, "close_lock")
    /\ UNCHANGED <<arg, lock, host, object, active, receiving, shut>>

ShutDownStep(k) == ShutDownSelf(k) \/ ShutSocketSelf(k) \/ DeleteThreadSelf(k)

-----------------------------------------------------------------------------
(* Host::ShutDown: deactivate the host, then destroy all connections with the lock
   held. *)
ShutDown ==
    /\ pc[owner] = "idle"
    /\ host_active' = FALSE
    /\ Goto(owner, "shutdown_lock")
    /\ UNCHANGED <<arg, lock, kind, connections, conn>>

ShutDownLock ==
    /\ pc[owner] = "shutdown_lock"
    /\ RW!Lock(owner, "write")
    /\ Goto(owner, "next")
    /\ UNCHANGED <<arg, host, conn>>

ShutDownNext ==
    /\ pc[owner] = "next"
    /\ \E i \in DOMAIN connections :
          /\ object[connections[i]] = "alive"
          /\ \A j \in 1 .. i - 1 : object[connections[j]] # "alive"
          /\ arg' = [arg EXCEPT ![owner] = connections[i]]
    /\ Goto(owner, "destroy")
    /\ UNCHANGED <<lock, host, conn>>

ShutDownReturn ==
    /\ pc[owner] = "next"
    /\ \A i \in DOMAIN connections : object[connections[i]] # "alive"
    /\ connections' = <<>>
    /\ RW!Unlock(owner)
    /\ arg' = [arg EXCEPT ![owner] = Unused]
    /\ Goto(owner, "returned")
    /\ UNCHANGED <<kind, host_active, conn>>

(* Host::CloseConnection, called by the user, or by the thread of a connection that
   has shut itself down ... *)
CloseConnection(k) ==
    /\ pc[user] = "idle"
    /\ arg' = [arg EXCEPT ![user] = k]
    /\ Goto(user, "close_lock")
    /\ UNCHANGED <<lock, host, conn>>

(* ... finds the connection by its address, which it reads from the connection that
   calls: if that was destroyed meanwhile, it may find another one ... *)
Found(a) ==
    \E k \in IF a \in Conns /\ object[a] = "destroyed" THEN Conns ELSE {arg[a]} :
        /\ arg' = [arg EXCEPT ![a] = k]
        /\ Goto(a, IF Contains(connections, k) THEN "destroy" ELSE "removed")

(* Faulty form: for reading. *)
CloseLock_Read(a) ==
    /\ pc[a] = "close_lock"
    /\ RW!Lock(a, "read")
    /\ Found(a)
    /\ UNCHANGED <<host, conn>>

(* ... with the lock held. *)
CloseLock(a) ==
    /\ pc[a] = "close_lock"
    /\ RW!Lock(a, "write")
    /\ Found(a)
    /\ UNCHANGED <<host, conn>>

(* Array::Remove of the first element that is k: the ones after it are shifted to the
   left. *)
RemoveFound(s, k) ==
    [i \in 1 .. (IF Contains(s, k) THEN Len(s) - 1 ELSE Len(s)) |->
        IF \E j \in 1 .. i : s[j] = k THEN s[i + 1] ELSE s[i]]

(* The connection found was destroyed; with its return the thread of a connection
   ends. *)
CloseReturn(a) ==
    /\ pc[a] = "removed"
    /\ connections' = RemoveFound(connections, arg[a])
    /\ RW!Unlock(a)
    /\ arg' = [arg EXCEPT ![a] = IF a = user THEN Unused ELSE a]
    /\ Goto(a, IF a = user THEN "idle" ELSE "done")
    /\ UNCHANGED <<kind, host_active, conn>>

-----------------------------------------------------------------------------
(* ~Connection, in Host::ShutDown or Host::CloseConnection: Connection::ShutDown(false)
   returns at once if the connection is already inactive ... *)
Destroy(a) ==
    /\ pc[a] = "destroy"
    /\ active' = [active EXCEPT ![arg[a]] = FALSE]
    /\ Goto(a, IF active[arg[a]] THEN "d_socket" ELSE "d_members")
    /\ UNCHANGED <<arg, lock, host, object, receiving, shut, thread>>

(* ... otherwise it shuts the socket down ... *)
ShutSocket(a) ==
    /\ pc[a] = "d_socket"
    /\ ~receiving[arg[a]]
    /\ shut' = [shut EXCEPT ![arg[a]] = TRUE]
    /\ Goto(a, "d_thread")
    /\ UNCHANGED <<arg, lock, host, object, active, receiving, thread>>

(* Faulty form: the thread is not waited for. *)
DeleteThread_NoJoin(a) ==
    /\ pc[a] = "d_thread"
    /\ thread' = [thread EXCEPT ![arg[a]] = FALSE]
    /\ Goto(a, "d_members")
    /\ UNCHANGED <<arg, lock, host, object, active, receiving, shut>>

(* ... and deletes the Thread object, if there is one ... *)
DeleteThread(a) ==
    /\ pc[a] = "d_thread"
    /\ Goto(a, IF thread[arg[a]] THEN "d_join" ELSE "d_members")
    /\ UNCHANGED <<arg, lock, host, conn>>

(* ... whose destructor waits for the thread. *)
JoinThread(a) ==
    /\ pc[a] = "d_join"
    /\ pc[arg[a]] = "done"
    /\ thread' = [thread EXCEPT ![arg[a]] = FALSE]
    /\ Goto(a, "d_members")
    /\ UNCHANGED <<arg, lock, host, object, active, receiving, shut>>

(* The members are destroyed, first Connection::thread: another thread that is still
   there is waited for, the own one is not. *)
Destroyed(a) ==
    /\ thread' = [thread EXCEPT ![arg[a]] = FALSE]
    /\ object' = [object EXCEPT ![arg[a]] = "destroyed"]
    /\ Goto(a, IF a = owner THEN "next" ELSE "removed")
    /\ UNCHANGED <<arg, lock, host, active, receiving, shut>>

DestroyMembers(a) ==
    /\ pc[a] = "d_members"
    /\ IF thread[arg[a]] /\ arg[a] # a
       THEN Goto(a, "m_join") /\ UNCHANGED <<arg, lock, host, conn>>
       ELSE Destroyed(a)

JoinMember(a) ==
    /\ pc[a] = "m_join"
    /\ pc[arg[a]] = "done"
    /\ Destroyed(a)

DestroyStep(a) ==
    Destroy(a) \/ ShutSocket(a) \/ DeleteThread(a) \/ JoinThread(a) \/ DestroyMembers(a)
               \/ JoinMember(a)

-----------------------------------------------------------------------------
(* Host::SendCommand, called by the user or by a command that is executed, takes the
   lock for reading ... *)
SendCommand ==
    /\ pc[user] = "idle"
    /\ Goto(user, "send_lock")
    /\ UNCHANGED <<arg, lock, host, conn>>

SendLock(a) ==
    /\ pc[a] = "send_lock"
    /\ LockRead(a)
    /\ Goto(a, "sending")
    /\ UNCHANGED <<arg, host, conn>>

(* ... and adds a command to the connection with a given address, or a copy to each
   connection.  What they have to send makes no difference to them. *)
SendAdd(a) ==
    /\ pc[a] = "sending"
    /\ RW!Unlock(a)
    /\ Goto(a, IF a = user THEN "idle" ELSE "loop")
    /\ UNCHANGED <<arg, host, conn>>

CallStep(a) == CloseReturn(a) \/ DestroyStep(a) \/ SendAdd(a)
ConnectionStep(k) == LoopStep(k) \/ ShutDownStep(k) \/ CallStep(k)
OwnerStep == ShutDownNext \/ ShutDownReturn \/ DestroyStep(owner)

(* The steps that take the lock of the connections. *)
LockStep(a) ==
    \/ a = runner /\ (AddLock \/ ConnectLock)
    \/ a = owner /\ ShutDownLock
    \/ a \in Callers /\ (CloseLock(a) \/ SendLock(a))

Next ==
    \/ Run
    \/ \E k \in Conns : Accept(k) \/ Connect(k) \/ ConnectionStep(k) \/ CloseConnection(k)
    \/ ShutDown \/ OwnerStep
    \/ SendCommand \/ CallStep(user)
    \/ \E a \in Actors : LockStep(a)

(* Every thread that can go on does, and a blocking receive ends: the peer sends
   its idle command, or the receive times out.  A thread that waits for the lock
   gets it in the end (the others release it again and again, and writers go
   first); for the user not even this is needed.  Nothing makes clients connect,
   connections fail, or the owner and the user call anything. *)
Fairness ==
    /\ WF_vars(Run)
    /\ \A k \in Conns : WF_vars(ConnectionStep(k))
    /\ WF_vars(OwnerStep) /\ WF_vars(CallStep(user))
    /\ \A a \in Actors \ {user} : SF_vars(LockStep(a))

Spec == Init /\ [][Next]_vars /\ Fairness

-----------------------------------------------------------------------------
(* Who reads the array of connections with the lock held, to send a command, finds
   only connections that are alive. *)
ReadersSeeLiveConnections ==
    \A a \in Actors : lock[a] = "read" =>
        \A k \in Conns : Contains(connections, k) =>
            object[k] = "alive"

(* A connection that is destroyed by another thread than its own has no thread that
   could still send, receive or execute: the thread was never started, has ended, or
   has shut its connection down and only waits for the lock in CloseConnection.  One
   exception: a server has started the thread and not yet stored its Thread object. *)
DestructorWaitsForThread ==
    [][\A k \in Conns : object[k] # "destroyed" /\ object'[k] = "destroyed" =>
          \/ pc[k] \in {"none", "done", "close_lock"}
          \/ pc[k] = "d_members" /\ arg[k] = k
          \/ kind = "server" /\ pc[runner] = "assign" /\ arg[runner] = k]_vars

(* "Closes ... connection thread" in the comment of ~Connection: the thread of a
   connection that was destroyed does not run, unless it destroyed it itself. *)
DestructorClosesThread ==
    \A k \in Conns : object[k] = "destroyed" =>
        pc[k] \in {"none", "done"} \/ (pc[k] = "removed" /\ arg[k] = k)

(* Run has activated the host, and it has been deactivated. *)
Stopping == ~host_active /\ pc[runner] # "begin"

(* When ShutDown has returned, the only connection that can be left is the last one
   that Run has set up: it may have been in the middle of that. *)
OnlyLastSurvivesShutDown ==
    pc[owner] = "returned" /\ Stopping =>
        \A k \in Conns : object[k] = "alive" => k = arg[runner]

(* A thread waits, with the lock of the connections held, for the end of a connection
   thread that waits for this lock. *)
Deadlocked ==
    \E a \in Actors : pc[a] \in {"d_join", "m_join"} /\ pc[arg[a]] \in {"close_lock", "send_lock"}

(* Joining a thread with the lock held is safe: it fails, since the thread may execute
   a command that calls SendCommand, or end by itself before its Thread was stored. *)
NeverDeadlocked == ~Deadlocked

(* "... and stops network routine": ShutDown returns, and Run ends, even though the
   owner waits for connection threads with the lock held, and for the socket that a
   connection thread receives from.  Only that deadlock can prevent it. *)
ShutDownReturns ==
    pc[owner] = "shutdown_lock" /\ Stopping ~>
        Deadlocked \/ (pc[owner] = "returned" /\ pc[runner] = "stopped")

(* A connection that was closed by the peer, an error or a timeout does not stay: its
   thread ends and the host forgets it.  Only that deadlock can prevent it. *)
ClosedIsRemoved ==
    \A k \in Conns : pc[k] \in EndLocations ~>
        Deadlocked \/ (pc[k] = "done" /\ ~Contains(connections, k))
=============================================================================
