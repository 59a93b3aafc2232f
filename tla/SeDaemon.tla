------------------------------ MODULE SeDaemon ------------------------------
(***************************************************************************)
(* se-daemon (daemon/se_daemon.c): the process that owns the I2C buses and *)
(* relays the frames of many client connections.  The main thread accepts  *)
(* connections under a counting semaphore; one detached worker thread per  *)
(* connection reads requests, runs their handlers and answers.  A bus is   *)
(* protected by one pthread mutex, which a WRITE takes and an UNLOCK, a    *)
(* failed WRITE or the end of the worker gives back.                       *)
(*                                                                         *)
(* A member of Conn is a connection together with its client and its       *)
(* worker; it can be used again once its worker is gone.  Payloads are     *)
(* abstracted to the command, the bus, the I2C address and, for what a     *)
(* device will answer, the connection whose bytes reached it last.  A bus  *)
(* has several devices, each at its own address.                           *)
(***************************************************************************)
EXTENDS Naturals, FiniteSets

CONSTANTS
    Conn,        \* connections, each with its client and its worker thread
    Bus,         \* the buses 0 .. I2C_BUS_MAX-1
    Addr,        \* the addresses of the devices on a bus, dev_addr
    Fd,          \* descriptor numbers open("/dev/i2c-N") can return
    MaxClients,  \* MAX_CLIENTS
    BusOf,       \* the buses the client of a connection addresses
    Documented,  \* connections whose client follows the protocol of stse_ipc.h
    MaxPolls,    \* READs such a client sends before it gives up and unlocks
    NoConn, Lost, NoBus, NoFd, NoAddr

ASSUME ConnAssumption ==
    IsFiniteSet(Conn) /\ NoConn \notin Conn /\ Lost \notin Conn /\ NoConn # Lost
ASSUME BusAssumption ==
    Bus # {} /\ NoBus \notin Bus /\ NoFd \notin Fd /\ NoAddr \notin Addr
ASSUME ParameterAssumption ==
    /\ MaxClients \in Nat /\ MaxPolls \in Nat
    /\ BusOf \in [Conn -> SUBSET Bus] /\ Documented \subseteq Conn

VARIABLES
    \* main thread and its globals
    main,     \* where the main thread is
    cur,      \* the connection accept() returned, while main handles it
    sem,      \* g_conn_sem
    leaked,   \* history: slots taken for a thread that was never created
    running,  \* g_running
    swept,    \* buses the closing loop at shutdown has passed
    \* descriptors
    busFd,    \* g_i2c_fds
    fdBus,    \* the bus device behind an open descriptor, NoBus if closed
    \* buses
    mutex,    \* owner of g_i2c_mutexes[b]; Lost: locked by a thread that ended
    dev,      \* whose bytes reached the device at an address of b last, NoConn: nobody alive
    \* clients
    peer,     \* the client's end: "off", "open", or "gone" (closed by it)
    req,      \* the request in the socket or in the handler
    polls,    \* READs the client sent in this transaction
    \* workers
    pc,       \* where the worker is
    holds,    \* conn_t.holds_mutex_bus
    fd,       \* busfd, the descriptor the running handler took a copy of
    status,   \* status of the response about to be sent
    from,     \* connection whose bytes the read data answer, NoConn: nobody's
    wrote     \* history: addresses the connection wrote to since it has its bus

serverVars == <<main, cur, sem, leaked, running, swept>>
fdVars     == <<busFd, fdBus>>
busVars    == <<mutex, dev>>
clientVars == <<peer, req, polls>>
workerVars == <<pc, holds, fd, status, from, wrote>>
vars == <<serverVars, fdVars, busVars, clientVars, workerVars>>

-----------------------------------------------------------------------------
(* Requests.  "INVALID" is a known command whose payload a handler refuses: *)
(* too short, bus out of range, data_len or read_len out of bounds.  "BAD"  *)
(* is a frame the worker drops the connection for: wrong magic or version,  *)
(* oversize, unknown command, or cut short until the 5 s timeout.           *)

DeviceCmd == {"WAKE", "WRITE", "READ"}
BusCmd    == DeviceCmd \cup {"INIT"}
Cmd       == BusCmd \cup {"UNLOCK", "INVALID", "BAD", "none"}
AnyBus    == CHOOSE b \in Bus : TRUE
Request   == [cmd : DeviceCmd, bus : Bus, addr : Addr]
             \cup [cmd : Cmd \ DeviceCmd, bus : Bus, addr : {NoAddr}]
Plain(cmd) == [cmd |-> cmd, bus |-> AnyBus, addr |-> NoAddr]
NoReq   == Plain("none")

MainStates == {"accept", "admit", "create", "close", "exited"}
InTransfer == {"wakeXfer", "writeXfer", "readXfer"}
WorkerStates == {"none", "recv", "wakeLock", "writeLock", "reply",
                 "release", "close", "post"} \cup InTransfer

\* What a client may send: anything, to any device of its buses; a documented
\* client sends well-formed requests, WRITE, then READs of the device it wrote
\* to, then UNLOCK, and the rest outside.
Requests(c) ==
    LET onBus(cmds, B, A) == [cmd : cmds, bus : B, addr : A]
    IN  CASE c \notin Documented ->
               onBus(DeviceCmd, BusOf[c], Addr) \cup onBus({"INIT"}, BusOf[c], {NoAddr})
               \cup {Plain("UNLOCK"), Plain("INVALID"), Plain("BAD")}
          [] c \in Documented /\ holds[c] = NoBus ->
               onBus({"WAKE", "WRITE"}, BusOf[c], Addr) \cup onBus({"INIT"}, BusOf[c], {NoAddr})
               \cup {Plain("UNLOCK")}
          [] OTHER ->
               {Plain("UNLOCK")} \cup
               (IF polls[c] < MaxPolls THEN onBus({"READ"}, {holds[c]}, wrote[c]) ELSE {})

Init ==
    /\ main = "accept" /\ cur = NoConn /\ running = TRUE
    /\ sem = MaxClients /\ leaked = 0 /\ swept = {}
    \* the bus named by --bus is opened before the first accept(), or cannot be
    /\ \/ /\ busFd = [b \in Bus |-> NoFd]
          /\ fdBus = [f \in Fd |-> NoBus]
       \/ \E b \in Bus, f \in Fd :
             /\ busFd = [x \in Bus |-> IF x = b THEN f ELSE NoFd]
             /\ fdBus = [g \in Fd |-> IF g = f THEN b ELSE NoBus]
    /\ mutex = [b \in Bus |-> NoConn]
    /\ dev = [b \in Bus |-> [a \in Addr |-> NoConn]]
    /\ peer = [c \in Conn |-> "off"] /\ req = [c \in Conn |-> NoReq]
    /\ polls = [c \in Conn |-> 0]
    /\ pc = [c \in Conn |-> "none"] /\ holds = [c \in Conn |-> NoBus]
    /\ fd = [c \in Conn |-> NoFd]
    /\ status = [c \in Conn |-> "none"] /\ from = [c \in Conn |-> NoConn]
    /\ wrote = [c \in Conn |-> {}]

-----------------------------------------------------------------------------
(* Clients. *)

\* connect(): the connection waits in the backlog of the listening socket.
Connect(c) ==
    /\ running /\ peer[c] = "off" /\ pc[c] = "none"
    /\ peer' = [peer EXCEPT ![c] = "open"]
    /\ UNCHANGED <<req, polls, serverVars, fdVars, busVars, workerVars>>

\* The client writes one request; it waits for the answer before the next.  What
\* it writes before its worker runs nobody reads until then: it is sent then.
ClientSend(c) ==
    /\ peer[c] = "open" /\ pc[c] = "recv" /\ req[c] = NoReq
    /\ \E q \in Requests(c) :
          /\ req' = [req EXCEPT ![c] = q]
          /\ polls' = [polls EXCEPT ![c] =
                         IF c \in Documented /\ q.cmd = "READ" THEN @ + 1 ELSE 0]
    /\ UNCHANGED <<peer, serverVars, fdVars, busVars, workerVars>>

\* The client closes its end or dies; what it had sent stays readable.
Disconnect(c) ==
    /\ peer[c] = "open"
    /\ peer' = [peer EXCEPT ![c] = "gone"]
    /\ UNCHANGED <<req, polls, serverVars, fdVars, busVars, workerVars>>

\* The daemon closes its end: nothing sent on this connection is read again.
CloseConn(c) ==
    /\ peer' = [peer EXCEPT ![c] = "off"]
    /\ req' = [req EXCEPT ![c] = NoReq]
    /\ polls' = [polls EXCEPT ![c] = 0]

-----------------------------------------------------------------------------
(* The main thread: the accept loop, the connection limit, the shutdown. *)

Queued(c) == peer[c] # "off" /\ pc[c] = "none" /\ c # cur

Accept(c) ==
    /\ main = "accept" /\ running /\ Queued(c)
    /\ main' = "admit" /\ cur' = c
    /\ UNCHANGED <<sem, leaked, running, swept, fdVars, busVars, clientVars, workerVars>>

\* calloc() of the conn_t fails.
AcceptNoMemory(c) ==
    /\ main = "accept" /\ running /\ Queued(c)
    /\ CloseConn(c)
    /\ UNCHANGED <<serverVars, fdVars, busVars, workerVars>>

\* Faulty variant: the result of sem_trywait() is not looked at.
Admit_Unchecked ==
    /\ main = "admit"
    /\ sem' = sem - 1 /\ main' = "create"
    /\ UNCHANGED <<cur, leaked, running, swept, fdVars, busVars, clientVars, workerVars>>

\* sem_trywait() succeeds.
Admit ==
    /\ main = "admit" /\ sem > 0
    /\ sem' = sem - 1 /\ main' = "create"
    /\ UNCHANGED <<cur, leaked, running, swept, fdVars, busVars, clientVars, workerVars>>

\* Faulty variant: the refusal gives back a slot it never took.
Reject_Posts ==
    /\ main = "admit" /\ sem = 0
    /\ CloseConn(cur)
    /\ main' = "accept" /\ cur' = NoConn
    /\ sem' = sem + 1
    /\ UNCHANGED <<leaked, running, swept, fdVars, busVars, workerVars>>

\* sem_trywait() fails: the connection is refused, not queued.
Reject ==
    /\ main = "admit" /\ sem = 0
    /\ CloseConn(cur)
    /\ main' = "accept" /\ cur' = NoConn
    /\ UNCHANGED <<sem, leaked, running, swept, fdVars, busVars, workerVars>>

Create ==
    /\ main = "create"
    /\ pc' = [pc EXCEPT ![cur] = "recv"]
    /\ main' = "accept" /\ cur' = NoConn
    /\ UNCHANGED <<sem, leaked, running, swept, fdVars, busVars, clientVars,
                   holds, fd, status, from, wrote>>

\* pthread_create() fails: the connection is closed, the slot is not posted.
CreateFails ==
    /\ main = "create"
    /\ CloseConn(cur)
    /\ leaked' = leaked + 1
    /\ main' = "accept" /\ cur' = NoConn
    /\ UNCHANGED <<sem, running, swept, fdVars, busVars, workerVars>>

\* sig_handler(): closes the listening socket, which resets the backlog.
Signal ==
    /\ running
    /\ running' = FALSE
    /\ peer' = [c \in Conn |-> IF Queued(c) THEN "off" ELSE peer[c]]
    /\ req' = [c \in Conn |-> IF Queued(c) THEN NoReq ELSE req[c]]
    /\ polls' = [c \in Conn |-> IF Queued(c) THEN 0 ELSE polls[c]]
    /\ UNCHANGED <<main, cur, sem, leaked, swept, fdVars, busVars, workerVars>>

StopAccepting ==
    /\ main = "accept" /\ ~running
    /\ main' = "close"
    /\ UNCHANGED <<cur, sem, leaked, running, swept, fdVars, busVars, clientVars, workerVars>>

\* Faulty variant: the loop waits for the bus mutex before it closes.
CloseBus_UnderMutex(b) ==
    /\ main = "close" /\ b \notin swept /\ mutex[b] = NoConn
    /\ swept' = swept \cup {b}
    /\ fdBus' = [f \in Fd |-> IF f = busFd[b] THEN NoBus ELSE fdBus[f]]
    /\ UNCHANGED <<main, cur, sem, leaked, running, busFd, busVars, clientVars, workerVars>>

\* One turn of the closing loop: close(g_i2c_fds[b]), the entry stays.
CloseBus(b) ==
    /\ main = "close" /\ b \notin swept
    /\ swept' = swept \cup {b}
    /\ fdBus' = [f \in Fd |-> IF f = busFd[b] THEN NoBus ELSE fdBus[f]]
    /\ UNCHANGED <<main, cur, sem, leaked, running, busFd, busVars, clientVars, workerVars>>

\* main() returns: the worker threads end wherever they are.
Exit ==
    /\ main = "close" /\ swept = Bus
    /\ main' = "exited"
    /\ UNCHANGED <<cur, sem, leaked, running, swept, fdVars, busVars, clientVars, workerVars>>

-----------------------------------------------------------------------------
(* Worker threads. *)

At(c, where) == pc' = [pc EXCEPT ![c] = where]
Received(c, cmd) == pc[c] = "recv" /\ req[c].cmd = cmd

\* The handler has its result s, and d's data if it is a read, and sends it.
Answer(c, s, d) ==
    /\ At(c, "reply")
    /\ status' = [status EXCEPT ![c] = s]
    /\ from' = [from EXCEPT ![c] = d]
    /\ fd' = [fd EXCEPT ![c] = NoFd]

\* A handler that refuses, or is done, without touching bus or descriptors.
OnlyAnswer(c, s) ==
    /\ Answer(c, s, NoConn)
    /\ UNCHANGED <<holds, wrote, serverVars, fdVars, busVars, clientVars>>

RefuseInvalid(c) == Received(c, "INVALID") /\ OnlyAnswer(c, "error")

\* Faulty variants: the device is opened whether it is open or not, and the
\* descriptor that was there is forgotten, or closed.
HandleInit_OpensAgain(c) ==
    LET b == req[c].bus IN
    /\ Received(c, "INIT")
    /\ Answer(c, "ok", NoConn)
    /\ \E f \in Fd :
          /\ fdBus[f] = NoBus
          /\ busFd' = [busFd EXCEPT ![b] = f]
          /\ fdBus' = [fdBus EXCEPT ![f] = b]
    /\ UNCHANGED <<holds, wrote, serverVars, busVars, clientVars>>

HandleInit_Reopens(c) ==
    LET b == req[c].bus IN
    /\ Received(c, "INIT")
    /\ Answer(c, "ok", NoConn)
    /\ \E f \in Fd :
          /\ fdBus[f] = NoBus
          /\ busFd' = [busFd EXCEPT ![b] = f]
          /\ fdBus' = [g \in Fd |-> IF g = f THEN b ELSE IF g = busFd[b] THEN NoBus ELSE fdBus[g]]
    /\ UNCHANGED <<holds, wrote, serverVars, busVars, clientVars>>

\* handle_i2c_init: under g_init_mutex, open the device unless it is open.
HandleInit(c) ==
    LET b == req[c].bus IN
    /\ Received(c, "INIT")
    /\ \/ /\ busFd[b] # NoFd
          /\ Answer(c, "ok", NoConn)
          /\ UNCHANGED fdVars
       \/ /\ busFd[b] = NoFd
          /\ Answer(c, "ok", NoConn)
          /\ \E f \in Fd :
                /\ fdBus[f] = NoBus
                /\ busFd' = [busFd EXCEPT ![b] = f]
                /\ fdBus' = [fdBus EXCEPT ![f] = b]
       \/ /\ busFd[b] = NoFd          \* open() fails
          /\ Answer(c, "error", NoConn)
          /\ UNCHANGED fdVars
    /\ UNCHANGED <<holds, wrote, serverVars, busVars, clientVars>>

\* get_bus_fd() found nothing for the bus: wake, write and read all refuse.
RefuseUnopened(c) ==
    /\ \E cmd \in DeviceCmd : Received(c, cmd)
    /\ busFd[req[c].bus] = NoFd
    /\ OnlyAnswer(c, "error")

\* The handler has its copy of the bus descriptor and goes on to `where'.
TakeFd(c, where) ==
    /\ busFd[req[c].bus] # NoFd
    /\ fd' = [fd EXCEPT ![c] = busFd[req[c].bus]]
    /\ At(c, where)
    /\ UNCHANGED <<holds, wrote, status, from, serverVars, fdVars, busVars, clientVars>>

\* Faulty variant: the mutex is recursive, its count not kept.
Lock_Recursive(c) ==
    LET b == req[c].bus IN
    /\ mutex[b] \in {NoConn, c}
    /\ mutex' = [mutex EXCEPT ![b] = c]

\* pthread_mutex_lock(): also waits when c is the owner (a default mutex).
Lock(c) ==
    LET b == req[c].bus IN
    /\ mutex[b] = NoConn
    /\ mutex' = [mutex EXCEPT ![b] = c]

Unlock(b) == mutex' = [mutex EXCEPT ![b] = NoConn]

\* The bytes reach the device at the address of the request, and no other.
ReachDevice(c) == dev' = [dev EXCEPT ![req[c].bus][req[c].addr] = c]

\* A transfer that fails, or whose outcome nobody looks at, may have reached
\* the device or not.
MayReachDevice(c) == ReachDevice(c) \/ UNCHANGED dev

HandleWake(c) == Received(c, "WAKE") /\ TakeFd(c, "wakeLock")

\* Faulty variant: the wake does not take the mutex.
WakeLock_NoMutex(c) ==
    /\ pc[c] = "wakeLock"
    /\ At(c, "wakeXfer")
    /\ UNCHANGED <<busVars, holds, wrote, fd, status, from, serverVars, fdVars, clientVars>>

WakeLock(c) ==
    /\ pc[c] = "wakeLock"
    /\ Lock(c) /\ At(c, "wakeXfer")
    /\ UNCHANGED <<dev, holds, wrote, fd, status, from, serverVars, fdVars, clientVars>>

\* The dummy write, its result ignored, and the unlock.
WakeXfer(c) ==
    /\ pc[c] = "wakeXfer"
    /\ MayReachDevice(c) /\ Unlock(req[c].bus)
    /\ Answer(c, "ok", NoConn)
    /\ UNCHANGED <<holds, wrote, serverVars, fdVars, clientVars>>

\* Faulty variant: any mutex the connection has is taken for that of the bus.
HandleWrite_AnyMutex(c) ==
    /\ Received(c, "WRITE")
    /\ TakeFd(c, IF holds[c] # NoBus THEN "writeXfer" ELSE "writeLock")

HandleWrite(c) ==
    /\ Received(c, "WRITE")
    /\ TakeFd(c, IF holds[c] = req[c].bus THEN "writeXfer" ELSE "writeLock")

\* The record of a mutex on another bus, if there is one, is overwritten.
WriteLock(c) ==
    /\ pc[c] = "writeLock"
    /\ Lock(c) /\ At(c, "writeXfer")
    /\ holds' = [holds EXCEPT ![c] = req[c].bus]
    /\ wrote' = [wrote EXCEPT ![c] = {}]
    /\ UNCHANGED <<dev, fd, status, from, serverVars, fdVars, clientVars>>

\* Faulty variant: the error path leaves the status at 0.
WriteXfer_StatusKept(c) ==
    /\ pc[c] = "writeXfer"
    /\ \/ /\ ReachDevice(c)
          /\ wrote' = [wrote EXCEPT ![c] = @ \cup {req[c].addr}]
          /\ UNCHANGED <<mutex, holds>>
       \/ /\ MayReachDevice(c) /\ Unlock(req[c].bus)
          /\ holds' = [holds EXCEPT ![c] = NoBus]
          /\ wrote' = [wrote EXCEPT ![c] = {}]
    /\ Answer(c, "ok", NoConn)
    /\ UNCHANGED <<serverVars, fdVars, clientVars>>

\* On success the mutex stays with the connection until UNLOCK.
WriteXfer(c) ==
    /\ pc[c] = "writeXfer"
    /\ \/ /\ ReachDevice(c)
          /\ wrote' = [wrote EXCEPT ![c] = @ \cup {req[c].addr}]
          /\ Answer(c, "ok", NoConn)
          /\ UNCHANGED <<mutex, holds>>
       \/ /\ MayReachDevice(c) /\ Unlock(req[c].bus)
          /\ holds' = [holds EXCEPT ![c] = NoBus]
          /\ wrote' = [wrote EXCEPT ![c] = {}]
          /\ Answer(c, "error", NoConn)
    /\ UNCHANGED <<serverVars, fdVars, clientVars>>

\* A read on a bus the connection has not locked is refused.
RefuseRead(c) ==
    /\ Received(c, "READ") /\ busFd[req[c].bus] # NoFd
    /\ holds[c] # req[c].bus
    /\ OnlyAnswer(c, "error")

\* Faulty variant: the read does not ask who has the bus.
HandleRead_AnyReader(c) ==
    /\ Received(c, "READ")
    /\ TakeFd(c, "readXfer")

\* The bus must be the connection's; any device of it may be read, also one
\* the connection has not written to.
HandleRead(c) ==
    /\ Received(c, "READ") /\ holds[c] = req[c].bus
    /\ TakeFd(c, "readXfer")

\* The device at the address of this request answers what it received last; a
\* failed read (or no memory for the response) keeps the mutex.
ReadXfer(c) ==
    /\ pc[c] = "readXfer"
    /\ \/ Answer(c, "ok", dev[req[c].bus][req[c].addr])
       \/ Answer(c, "error", NoConn)
    /\ UNCHANGED <<holds, wrote, serverVars, fdVars, busVars, clientVars>>

\* Faulty variants: the record stays, or only the record goes.
HandleUnlock_RecordStays(c) ==
    /\ Received(c, "UNLOCK")
    /\ IF holds[c] # NoBus THEN Unlock(holds[c]) ELSE UNCHANGED mutex
    /\ Answer(c, "ok", NoConn)
    /\ UNCHANGED <<dev, holds, wrote, serverVars, fdVars, clientVars>>

HandleUnlock_RecordOnly(c) ==
    /\ Received(c, "UNLOCK")
    /\ holds' = [holds EXCEPT ![c] = NoBus]
    /\ wrote' = [wrote EXCEPT ![c] = {}]
    /\ Answer(c, "ok", NoConn)
    /\ UNCHANGED <<busVars, serverVars, fdVars, clientVars>>

HandleUnlock(c) ==
    /\ Received(c, "UNLOCK")
    /\ IF holds[c] # NoBus THEN Unlock(holds[c]) ELSE UNCHANGED mutex
    /\ holds' = [holds EXCEPT ![c] = NoBus]
    /\ wrote' = [wrote EXCEPT ![c] = {}]
    /\ Answer(c, "ok", NoConn)
    /\ UNCHANGED <<dev, serverVars, fdVars, clientVars>>

\* send_response(): fails with EPIPE when the client has gone.
Reply(c) ==
    /\ pc[c] = "reply"
    /\ At(c, IF peer[c] = "open" THEN "recv" ELSE "release")
    /\ req' = [req EXCEPT ![c] = NoReq]
    /\ status' = [status EXCEPT ![c] = "none"]
    /\ from' = [from EXCEPT ![c] = NoConn]
    /\ UNCHANGED <<peer, polls, holds, wrote, fd, serverVars, fdVars, busVars>>

\* Faulty variant: the socket has no receive timeout.
EndOfInput_NoTimeout(c) ==
    /\ pc[c] = "recv" /\ req[c] = NoReq /\ peer[c] = "gone"
    /\ At(c, "release")
    /\ UNCHANGED <<holds, wrote, fd, status, from, serverVars, fdVars, busVars, clientVars>>

\* read_all() finds end of file, or nothing for 5 s.
EndOfInput(c) ==
    /\ pc[c] = "recv" /\ req[c] = NoReq
    /\ At(c, "release")
    /\ UNCHANGED <<holds, wrote, fd, status, from, serverVars, fdVars, busVars, clientVars>>

\* A frame the worker gives up on; any frame with a payload when realloc fails.
DropFrame(c) ==
    /\ pc[c] = "recv" /\ req[c].cmd \notin {"none", "UNLOCK"}
    /\ At(c, "release")
    /\ req' = [req EXCEPT ![c] = NoReq]
    /\ UNCHANGED <<peer, polls, holds, wrote, fd, status, from, serverVars, fdVars, busVars>>

\* Faulty variant: the worker ends without unlocking.
Release_NoUnlock(c) ==
    /\ pc[c] = "release"
    /\ mutex' = [b \in Bus |-> IF mutex[b] # c THEN mutex[b] ELSE Lost]
    /\ holds' = [holds EXCEPT ![c] = NoBus]
    /\ wrote' = [wrote EXCEPT ![c] = {}]
    /\ At(c, "close")
    /\ UNCHANGED <<dev, fd, status, from, serverVars, fdVars, clientVars>>

\* Cleanup: unlock what conn_t records.  What else the thread has locked
\* nobody can unlock any more.
Release(c) ==
    /\ pc[c] = "release"
    /\ mutex' = [b \in Bus |-> IF mutex[b] # c THEN mutex[b]
                               ELSE IF b = holds[c] THEN NoConn ELSE Lost]
    /\ holds' = [holds EXCEPT ![c] = NoBus]
    /\ wrote' = [wrote EXCEPT ![c] = {}]
    /\ At(c, "close")
    /\ UNCHANGED <<dev, fd, status, from, serverVars, fdVars, clientVars>>

\* close(c->fd): from here the client can know, and connect again.
Close(c) ==
    /\ pc[c] = "close"
    /\ CloseConn(c) /\ At(c, "post")
    /\ UNCHANGED <<holds, wrote, fd, status, from, serverVars, fdVars, busVars>>

\* c is no longer a name of the connection whose bytes a device may still hold.
ForgetBytes(c) ==
    dev' = [b \in Bus |-> [a \in Addr |-> IF dev[b][a] = c THEN NoConn ELSE dev[b][a]]]

\* Faulty variant: the worker ends without posting.
Post_Forgotten(c) ==
    /\ pc[c] = "post"
    /\ At(c, "none")
    /\ ForgetBytes(c)
    /\ UNCHANGED <<serverVars, fdVars, mutex, clientVars, holds, wrote, fd, status, from>>

\* sem_post(&g_conn_sem) and the end of the thread.
Post(c) ==
    /\ pc[c] = "post"
    /\ sem' = sem + 1
    /\ At(c, "none")
    /\ ForgetBytes(c)
    /\ UNCHANGED <<main, cur, leaked, running, swept, fdVars, mutex, clientVars,
                   holds, wrote, fd, status, from>>

-----------------------------------------------------------------------------
Client(c) == Connect(c) \/ ClientSend(c) \/ Disconnect(c)

MainThread ==
    \/ \E c \in Conn : Accept(c) \/ AcceptNoMemory(c)
    \/ Admit \/ Reject \/ Create \/ CreateFails
    \/ StopAccepting \/ (\E b \in Bus : CloseBus(b)) \/ Exit

Worker(c) ==
    \/ RefuseInvalid(c) \/ RefuseUnopened(c) \/ RefuseRead(c)
    \/ HandleInit(c) \/ HandleUnlock(c)
    \/ HandleWake(c) \/ WakeLock(c) \/ WakeXfer(c)
    \/ HandleWrite(c) \/ WriteLock(c) \/ WriteXfer(c)
    \/ HandleRead(c) \/ ReadXfer(c)
    \/ Reply(c) \/ EndOfInput(c) \/ DropFrame(c)
    \/ Release(c) \/ Close(c) \/ Post(c)

\* Nothing happens in an exited process.
Exited == main = "exited" /\ UNCHANGED vars

Next ==
    \/ main # "exited" /\ (\/ MainThread \/ Signal
                           \/ \E c \in Conn : Client(c) \/ Worker(c))
    \/ Exited

Spec == Init /\ [][Next]_vars

\* The scheduler runs every thread that can run.  Clients, signals and the
\* order in which waiting threads obtain a mutex are left free.
Fairness ==
    /\ WF_vars(main # "exited" /\ MainThread)
    /\ \A c \in Conn : WF_vars(main # "exited" /\ Worker(c))

FairSpec == Spec /\ Fairness

-----------------------------------------------------------------------------
(* Properties. *)

DeviceOK ==
    /\ dev \in [Bus -> [Addr -> Conn \cup {NoConn}]]
    /\ wrote \in [Conn -> SUBSET Addr]

\* Every variable has its type.
TypeOK ==
    /\ main \in MainStates /\ cur \in Conn \cup {NoConn}
    /\ sem \in Nat /\ leaked \in Nat
    /\ running \in BOOLEAN /\ swept \subseteq Bus
    /\ busFd \in [Bus -> Fd \cup {NoFd}] /\ fdBus \in [Fd -> Bus \cup {NoBus}]
    /\ mutex \in [Bus -> Conn \cup {NoConn, Lost}]
    /\ peer \in [Conn -> {"off", "open", "gone"}]
    /\ req \in [Conn -> Request] /\ polls \in [Conn -> Nat]
    /\ pc \in [Conn -> WorkerStates] /\ holds \in [Conn -> Bus \cup {NoBus}]
    /\ fd \in [Conn -> Fd \cup {NoFd}]
    /\ status \in [Conn -> {"none", "ok", "error"}] /\ from \in [Conn -> Conn \cup {NoConn}]
    /\ DeviceOK

\* Two workers are never inside ioctl() on the same bus, the lock-free looking
\* wake included, whatever the clients send.
BusExclusive ==
    \A c, d \in Conn :
        (pc[c] \in InTransfer /\ pc[d] \in InTransfer /\ req[c].bus = req[d].bus) => c = d

\* The data a READ brings answer the connection's own bytes if it has written to
\* that device since it has the bus: no other client's command, and no wake, came
\* between.  A client that reads another device of its bus is given the answer
\* to whatever reached that one last, for handle_i2c_read compares the bus and
\* not dev_addr with those of the WRITE; but it is never the answer to a command
\* whose sender still has the bus.
OwnReply ==
    \A c \in Conn :
        from[c] \notin {NoConn, c} =>
            req[c].addr \notin wrote[c] /\ holds[from[c]] # req[c].bus

\* The record holds_mutex_bus, of one bus, is enough for a client that uses one
\* bus, or locks one at a time as the protocol says.
OneAtATime(c) == c \in Documented \/ (\A a, b \in BusOf[c] : a = b)

\* What a client concludes from an answer is so when the answer is sent: after
\* a successful WRITE it has the bus and the device has its bytes, a READ came
\* from a bus it has and, where it wrote, answers its bytes, and after UNLOCK it
\* has none.
ReplyTellsLock ==
    \A c \in Conn :
        pc[c] = "reply" /\ status[c] = "ok" =>
            CASE req[c].cmd = "WRITE"  -> /\ holds[c] = req[c].bus
                                          /\ mutex[req[c].bus] = c
                                          /\ dev[req[c].bus][req[c].addr] = c
              [] req[c].cmd = "READ"   -> /\ holds[c] = req[c].bus
                                          /\ req[c].addr \in wrote[c] => from[c] = c
              [] req[c].cmd = "UNLOCK" -> OneAtATime(c) => \A b \in Bus : mutex[b] # c
              [] OTHER -> TRUE

\* As long as every client locks one bus at a time, no mutex stays locked by a
\* thread that has ended, at whatever point the worker left its loop.
NoLostMutex ==
    (\A c \in Conn : OneAtATime(c)) => \A b \in Bus : mutex[b] # Lost

\* A worker that serves a documented client never waits for a mutex while it
\* has one: neither for its own nor in a circle with other workers.
NoHoldAndWait ==
    \A c \in Documented :
        pc[c] \in {"wakeLock", "writeLock"} => \A b \in Bus : mutex[b] # c

\* The connections that have taken a slot of the semaphore.
Slots == {c \in Conn : pc[c] # "none" \/ (main = "create" /\ c = cur)}

\* Every slot is free, taken by one live connection, or was lost by a failed
\* pthread_create(): never more than MAX_CLIENTS workers.
SlotAccounting == sem + Cardinality(Slots) + leaked = MaxClients

\* Until the shutdown loop runs, the descriptor a handler copied before it
\* waited for the mutex is still the open descriptor of its bus.
FdFresh ==
    swept = {} => \A c \in Conn : fd[c] # NoFd => /\ fdBus[fd[c]] = req[c].bus
                                                  /\ busFd[req[c].bus] = fd[c]

\* Concurrent INITs never open a bus twice: each open descriptor is recorded.
OneFdPerBus ==
    swept = {} => \A f \in Fd : fdBus[f] # NoBus => busFd[fdBus[f]] = f

\* While a connection has a bus recorded as its own, the bytes that reach a
\* device of that bus are those of its own WRITEs to that device.
OnlyHolderReachesDevice ==
    [][\A c \in Conn, b \in Bus, a \in Addr :
          holds[c] = b /\ dev'[b][a] \notin {dev[b][a], NoConn} =>
              pc[c] = "writeXfer" /\ req[c].addr = a /\ dev'[b][a] = c]_vars

-----------------------------------------------------------------------------
(* The inductive invariant behind them. *)

LockInv ==
    \A c \in Conn :
        /\ holds[c] # NoBus => mutex[holds[c]] = c /\ pc[c] \notin {"none", "close", "post"}
        /\ pc[c] = "wakeXfer" => mutex[req[c].bus] = c /\ holds[c] # req[c].bus
        /\ pc[c] = "writeLock" => holds[c] # req[c].bus
        /\ pc[c] \in {"writeXfer", "readXfer"} => holds[c] = req[c].bus

DeviceInv ==
    \A c \in Conn :
        holds[c] # NoBus => \A a \in wrote[c] : dev[holds[c]][a] = c

StageInv ==
    \A c \in Conn :
        /\ pc[c] \in {"wakeLock", "wakeXfer"} => req[c].cmd = "WAKE"
        /\ pc[c] \in {"writeLock", "writeXfer"} => req[c].cmd = "WRITE"
        /\ pc[c] = "readXfer" => req[c].cmd = "READ"
        /\ pc[c] # "reply" => status[c] = "none" /\ from[c] = NoConn
        /\ from[c] # NoConn => req[c].cmd = "READ" /\ holds[c] = req[c].bus
        /\ from[c] # NoConn /\ req[c].addr \in wrote[c] => from[c] = c

\* A mutex owned by a worker is the recorded one or the one of a running wake.
TrackInv ==
    \A c \in Conn : OneAtATime(c) =>
        /\ \A b \in Bus : mutex[b] = c =>
              holds[c] = b \/ (pc[c] = "wakeXfer" /\ req[c].bus = b)
        /\ holds[c] # NoBus => holds[c] \in BusOf[c]
        /\ req[c].cmd \in BusCmd => req[c].bus \in BusOf[c]
        /\ (/\ c \in Documented /\ req[c].cmd \in {"WAKE", "WRITE"}
            /\ pc[c] \in {"none", "recv", "wakeLock", "wakeXfer", "writeLock"})
           => holds[c] = NoBus

MainInv ==
    /\ main \in {"admit", "create"} <=> cur # NoConn
    /\ cur # NoConn => pc[cur] = "none"

IndInv ==
    TypeOK /\ LockInv /\ DeviceInv /\ StageInv /\ TrackInv /\ NoLostMutex /\ MainInv

-----------------------------------------------------------------------------
(* Liveness, under Fairness. *)

\* A documented client never keeps a bus for ever, whether it unlocks, dies or
\* falls silent: the 5 s timeout and the clean-up of the worker see to it.
HeldBusIsReleased ==
    \A c \in Conn, b \in Bus :
        c \in Documented /\ mutex[b] = c ~> mutex[b] # c \/ main = "exited"

\* When no client is left, every worker ends, every bus is free and every slot
\* that was not leaked is back.
Drained ==
    /\ \A c \in Conn : pc[c] = "none"
    /\ \A b \in Bus : mutex[b] = NoConn
    /\ sem + leaked = MaxClients
ClientsLeaveNothingBehind ==
    <>[](\A c \in Conn : peer[c] # "open") => <>[](Drained \/ main = "exited")

\* A signal ends the process, also while workers wait for a mutex for ever.
SignalEndsDaemon == ~running ~> main = "exited"

-----------------------------------------------------------------------------
(* The daemon implements the arbiter, as long as no client can lose a mutex. *)

BA == INSTANCE BusArbiter
          WITH Party <- Conn, Nobody <- NoConn, owner <- mutex, last <- dev, answer <- from

\* Worker threads and their descriptors, sockets and slots are invisible to the
\* clients: what they can observe is a bus arbiter.
Arbiter == BA!Spec

-----------------------------------------------------------------------------
(* What comments and documentation say and the code does not do. *)

\* se_daemon.c:60: the semaphore counts the available client slots.
SemCountsFreeSlots == sem = MaxClients - Cardinality(Slots)

\* stse_ipc.h:35-36: the clean-up of the worker releases what its client held.
CleanUpReleases == \A b \in Bus : mutex[b] # Lost

\* stse_ipc.h:35-36: a mutex is released once its holder has disconnected.
DisconnectReleases ==
    \A c \in Conn, b \in Bus :
        peer[c] = "gone" /\ mutex[b] = c ~> mutex[b] # c \/ main = "exited"

\* se_daemon.c:86: the copy of the descriptor avoids a time-of-check race.
NoStaleFd == \A c \in Conn : fd[c] # NoFd => fdBus[fd[c]] = req[c].bus
=============================================================================
