--------------------------- MODULE SeDaemonProofs ---------------------------
(* Theorems about SeDaemon, for every value of its constants. *)
EXTENDS SeDaemon, TLAPS, FiniteSetTheorems

USE ConnAssumption, BusAssumption, ParameterAssumption

LEMMA AnyBusInBus == AnyBus \in Bus
  BY DEF AnyBus

LEMMA NoReqIsRequest == NoReq \in Request
  BY AnyBusInBus DEF NoReq, Plain, Request, Cmd, BusCmd, DeviceCmd

\* What a client may send is a request; on a bus of its own if it names one.
LEMMA RequestsType ==
  ASSUME TypeOK, NEW c \in Conn, NEW q \in Requests(c)
  PROVE  q \in Request
<1>1. BusOf[c] \subseteq Bus
  OBVIOUS
<1>2. CASE c \notin Documented
  BY <1>1, <1>2, AnyBusInBus DEF Requests, Request, Plain, Cmd, BusCmd, DeviceCmd
<1>3. CASE c \in Documented /\ holds[c] = NoBus
  BY <1>1, <1>3, AnyBusInBus DEF Requests, Request, Plain, Cmd, BusCmd, DeviceCmd
<1>4. CASE c \in Documented /\ holds[c] # NoBus
  <2>1. holds[c] \in Bus /\ wrote[c] \subseteq Addr
    BY <1>4 DEF TypeOK, DeviceOK
  <2>2. QED
    BY <2>1, <1>4, AnyBusInBus DEF Requests, Request, Plain, Cmd, BusCmd, DeviceCmd
<1>5. QED
  BY <1>2, <1>3, <1>4

\* A request for a device names its address.
LEMMA RequestAddr ==
  ASSUME NEW q \in Request
  PROVE  q.bus \in Bus /\ (q.cmd \in DeviceCmd => q.addr \in Addr)
BY DEF Request

LEMMA TypeInit == Init => TypeOK
<1>1. SUFFICES ASSUME Init PROVE TypeOK
  OBVIOUS
<1>2. busFd \in [Bus -> Fd \cup {NoFd}] /\ fdBus \in [Fd -> Bus \cup {NoBus}]
  <2>1. CASE busFd = [b \in Bus |-> NoFd] /\ fdBus = [f \in Fd |-> NoBus]
    BY <2>1
  <2>2. ASSUME NEW b \in Bus, NEW f \in Fd,
               busFd = [x \in Bus |-> IF x = b THEN f ELSE NoFd],
               fdBus = [g \in Fd |-> IF g = f THEN b ELSE NoBus]
        PROVE  busFd \in [Bus -> Fd \cup {NoFd}] /\ fdBus \in [Fd -> Bus \cup {NoBus}]
    BY <2>2
  <2>3. QED
    BY <1>1, <2>1, <2>2 DEF Init
<1>3. QED
  BY <1>1, <1>2, NoReqIsRequest DEF Init, TypeOK, DeviceOK, MainStates, WorkerStates, InTransfer

\* What is kept about the devices changes in a few steps only.
LEMMA DeviceStep == TypeOK /\ StageInv /\ [Next]_vars => DeviceOK'
<1>1. SUFFICES ASSUME TypeOK, StageInv, [Next]_vars PROVE DeviceOK'
  OBVIOUS
<1> USE DEF serverVars, fdVars, busVars, clientVars, workerVars
<1>2. DeviceOK
  BY <1>1 DEF TypeOK
<1>3. CASE UNCHANGED <<dev, wrote>>
  BY <1>2, <1>3 DEF DeviceOK
<1>4. ASSUME NEW c \in Conn, Worker(c) PROVE DeviceOK'
  <2>1. /\ req[c].bus \in Bus
        /\ pc[c] \in {"wakeXfer", "writeXfer", "readXfer"} => req[c].addr \in Addr
    BY <1>1, RequestAddr DEF TypeOK, StageInv, DeviceCmd
  <2>2. ASSUME dev' = [dev EXCEPT ![req[c].bus][req[c].addr] = c]
        PROVE  dev' \in [Bus -> [Addr -> Conn \cup {NoConn}]]
    BY <1>2, <2>1, <2>2 DEF DeviceOK
  <2>3. ASSUME wrote' = [wrote EXCEPT ![c] = {}] PROVE wrote' \in [Conn -> SUBSET Addr]
    BY <1>2, <2>3 DEF DeviceOK
  <2>4. CASE WakeXfer(c)
    BY <1>2, <2>2, <2>4 DEF WakeXfer, MayReachDevice, ReachDevice, DeviceOK
  <2>5. CASE WriteXfer(c)
    <3>1. ASSUME wrote' = [wrote EXCEPT ![c] = @ \cup {req[c].addr}]
          PROVE  wrote' \in [Conn -> SUBSET Addr]
      BY <1>2, <2>1, <2>5, <3>1 DEF WriteXfer, DeviceOK
    <3>2. dev' \in [Bus -> [Addr -> Conn \cup {NoConn}]]
      BY <1>2, <2>2, <2>5 DEF WriteXfer, MayReachDevice, ReachDevice, DeviceOK
    <3>3. QED
      BY <2>3, <2>5, <3>1, <3>2 DEF WriteXfer, DeviceOK
  <2>6. CASE WriteLock(c) \/ HandleUnlock(c) \/ Release(c)
    BY <1>2, <2>3, <2>6 DEF WriteLock, HandleUnlock, Release, DeviceOK
  <2>7. CASE Post(c)
    BY <1>2, <2>7 DEF Post, ForgetBytes, DeviceOK
  <2>8. QED
    BY <1>3, <1>4, <2>4, <2>5, <2>6, <2>7 DEF Worker, RefuseInvalid, RefuseUnopened,
       RefuseRead, HandleInit, HandleWake, WakeLock, HandleWrite, HandleRead, ReadXfer,
       Reply, EndOfInput, DropFrame, Close, OnlyAnswer, TakeFd
<1>5. CASE UNCHANGED vars
  BY <1>3, <1>5 DEF vars
<1>6. CASE MainThread \/ Signal \/ \E c \in Conn : Client(c)
  BY <1>3, <1>6 DEF MainThread, Accept, AcceptNoMemory, Admit, Reject, Create, CreateFails,
     StopAccepting, CloseBus, Exit, Signal, Client, Connect, ClientSend, Disconnect
<1>7. QED
  BY <1>1, <1>4, <1>5, <1>6 DEF Next, Exited

LEMMA TypeStep == TypeOK /\ StageInv /\ [Next]_vars => TypeOK'
<1>1. SUFFICES ASSUME TypeOK, StageInv, [Next]_vars PROVE TypeOK'
  OBVIOUS
<1>0. DeviceOK'
  BY <1>1, DeviceStep
<1> USE <1>0, NoReqIsRequest DEF TypeOK, MainStates, WorkerStates, InTransfer,
        serverVars, fdVars, busVars, clientVars, workerVars
<1>2. CASE UNCHANGED vars
  BY <1>1, <1>2 DEF vars
<1>3. ASSUME NEW c \in Conn, Client(c) PROVE TypeOK'
  <2>1. CASE Connect(c)
    BY <1>1, <2>1 DEF Connect
  <2>2. CASE ClientSend(c)
    <3>1. PICK q \in Requests(c) :
             /\ req' = [req EXCEPT ![c] = q]
             /\ polls' = [polls EXCEPT ![c] =
                            IF c \in Documented /\ q.cmd = "READ" THEN @ + 1 ELSE 0]
      BY <2>2 DEF ClientSend
    <3>2. q \in Request
      BY <1>1, RequestsType
    <3>3. polls' \in [Conn -> Nat]
      BY <1>1, <3>1
    <3>4. QED
      BY <1>1, <2>2, <3>1, <3>2, <3>3 DEF ClientSend
  <2>3. CASE Disconnect(c)
    BY <1>1, <2>3 DEF Disconnect
  <2>4. QED
    BY <1>3, <2>1, <2>2, <2>3 DEF Client
<1>4. CASE MainThread
  <2>1. ASSUME NEW c \in Conn, Accept(c) \/ AcceptNoMemory(c) PROVE TypeOK'
    BY <1>1, <2>1 DEF Accept, AcceptNoMemory, CloseConn
  <2>2. CASE Admit
    BY <1>1, <2>2 DEF Admit
  <2>3. CASE Reject
    BY <1>1, <2>3 DEF Reject, CloseConn
  <2>4. CASE Create
    BY <1>1, <2>4 DEF Create
  <2>5. CASE CreateFails
    <3>1. leaked' \in Nat
      BY <1>1, <2>5 DEF CreateFails
    <3>2. /\ peer' \in [Conn -> {"off", "open", "gone"}]
          /\ req' \in [Conn -> Request] /\ polls' \in [Conn -> Nat]
      BY <1>1, <2>5 DEF CreateFails, CloseConn
    <3>3. QED
      BY <1>1, <2>5, <3>1, <3>2 DEF CreateFails
  <2>6. CASE StopAccepting \/ Exit
    BY <1>1, <2>6 DEF StopAccepting, Exit
  <2>7. ASSUME NEW b \in Bus, CloseBus(b) PROVE TypeOK'
    BY <1>1, <2>7 DEF CloseBus
  <2>8. QED
    BY <1>4, <2>1, <2>2, <2>3, <2>4, <2>5, <2>6, <2>7 DEF MainThread
<1>5. CASE Signal
  BY <1>1, <1>5 DEF Signal
<1>6. ASSUME NEW c \in Conn, Worker(c) PROVE TypeOK'
  <2> USE DEF At, Received, Answer, OnlyAnswer, TakeFd, Lock, Unlock, MayReachDevice, ReachDevice, ReachDevice
  <2>0. req[c].bus \in Bus /\ (req[c].cmd \in DeviceCmd => req[c].addr \in Addr)
    BY <1>1, RequestAddr
  <2>1. CASE RefuseInvalid(c) \/ RefuseUnopened(c) \/ RefuseRead(c)
    BY <1>1, <2>1 DEF RefuseInvalid, RefuseUnopened, RefuseRead
  <2>2. CASE HandleInit(c)
    <3>1. busFd' \in [Bus -> Fd \cup {NoFd}] /\ fdBus' \in [Fd -> Bus \cup {NoBus}]
      BY <1>1, <2>0, <2>2 DEF HandleInit
    <3>2. /\ pc' \in [Conn -> WorkerStates] /\ status' \in [Conn -> {"none", "ok", "error"}]
          /\ from' \in [Conn -> Conn \cup {NoConn}] /\ fd' \in [Conn -> Fd \cup {NoFd}]
      BY <1>1, <2>0, <2>2, SMTT(30) DEF HandleInit
    <3>3. QED
      BY <1>1, <2>0, <2>2, <3>1, <3>2 DEF HandleInit
  <2>3. CASE HandleUnlock(c)
    BY <1>1, <2>3 DEF HandleUnlock
  <2>4. CASE HandleWake(c) \/ HandleWrite(c) \/ HandleRead(c)
    BY <1>1, <2>0, <2>4 DEF HandleWake, HandleWrite, HandleRead
  <2>5. CASE WakeLock(c) \/ WriteLock(c)
    BY <1>1, <2>0, <2>5 DEF WakeLock, WriteLock
  <2>6. CASE WakeXfer(c) \/ WriteXfer(c)
    <3>1. /\ mutex' \in [Bus -> Conn \cup {NoConn, Lost}]
          /\ holds' \in [Conn -> Bus \cup {NoBus}]
      <4>1. CASE WakeXfer(c)
        BY <1>1, <2>0, <4>1 DEF WakeXfer
      <4>2. CASE WriteXfer(c)
        <5>1. mutex' \in [Bus -> Conn \cup {NoConn, Lost}]
          BY <1>1, <2>0, <4>2 DEF WriteXfer
        <5>2. holds' \in [Conn -> Bus \cup {NoBus}]
          BY <1>1, <4>2 DEF WriteXfer
        <5>3. QED
          BY <5>1, <5>2
      <4>3. QED
        BY <2>6, <4>1, <4>2
    <3>2. /\ pc' \in [Conn -> WorkerStates] /\ status' \in [Conn -> {"none", "ok", "error"}]
          /\ from' \in [Conn -> Conn \cup {NoConn}] /\ fd' \in [Conn -> Fd \cup {NoFd}]
      BY <1>1, <2>6 DEF WakeXfer, WriteXfer
    <3>3. QED
      BY <1>1, <2>6, <3>1, <3>2 DEF WakeXfer, WriteXfer
  <2>7. CASE ReadXfer(c)
    <3>1. req[c].addr \in Addr
      BY <1>1, <2>0, <2>7 DEF ReadXfer, StageInv, DeviceCmd
    <3>2. dev[req[c].bus][req[c].addr] \in Conn \cup {NoConn}
      BY <1>1, <2>0, <3>1 DEF DeviceOK
    <3>3. QED
      BY <1>1, <2>0, <2>7, <3>2 DEF ReadXfer
  <2>8. CASE Reply(c) \/ EndOfInput(c) \/ DropFrame(c)
    BY <1>1, <2>8 DEF Reply, EndOfInput, DropFrame
  <2>9. CASE Release(c) \/ Close(c) \/ Post(c)
    BY <1>1, <2>9 DEF Release, Close, Post, CloseConn
  <2>10. QED
    BY <1>6, <2>1, <2>2, <2>3, <2>4, <2>5, <2>6, <2>7, <2>8, <2>9 DEF Worker
<1>7. QED
  BY <1>1, <1>2, <1>3, <1>4, <1>5, <1>6 DEF Next, Exited

-----------------------------------------------------------------------------
(* The inductive invariant. *)

\* A request names a bus of its client; a documented client asks for a mutex
\* only while it has none.
LEMMA RequestsBus ==
  ASSUME TypeOK, NEW c \in Conn, NEW q \in Requests(c), OneAtATime(c),
         holds[c] # NoBus => holds[c] \in BusOf[c]
  PROVE  /\ q.cmd \in BusCmd => q.bus \in BusOf[c]
         /\ c \in Documented /\ q.cmd \in {"WAKE", "WRITE"} => holds[c] = NoBus
<1>1. CASE c \notin Documented
  BY <1>1 DEF Requests, Plain, BusCmd, DeviceCmd
<1>2. CASE c \in Documented /\ holds[c] = NoBus
  BY <1>2 DEF Requests, Plain, BusCmd, DeviceCmd
<1>3. CASE c \in Documented /\ holds[c] # NoBus
  BY <1>3 DEF Requests, Plain, BusCmd, DeviceCmd
<1>4. QED
  BY <1>1, <1>2, <1>3

LEMMA IndInit == Init => IndInv
<1>1. SUFFICES ASSUME Init PROVE IndInv
  OBVIOUS
<1>2. TypeOK
  BY <1>1, TypeInit
<1>3. NoReq.cmd = "none"
  BY DEF NoReq, Plain
<1>4. LockInv /\ DeviceInv /\ StageInv /\ MainInv /\ NoLostMutex
  BY <1>1 DEF Init, LockInv, DeviceInv, StageInv, MainInv, NoLostMutex
<1>5. TrackInv
  BY <1>1, <1>3 DEF Init, TrackInv, BusCmd, DeviceCmd
<1>6. QED
  BY <1>2, <1>4, <1>5 DEF IndInv

\* A step that leaves workers and buses alone, and at most clears the request
\* of a connection that has no worker.
LEMMA IndFrame ==
  ASSUME IndInv, TypeOK', MainInv', UNCHANGED <<busVars, workerVars>>,
         \A c \in Conn : req'[c] = req[c] \/ (req'[c].cmd = "none" /\ pc[c] = "none")
  PROVE  IndInv'
<1> USE DEF busVars, workerVars
<1>1. LockInv' /\ DeviceInv'
  BY DEF IndInv, TypeOK, DeviceOK, LockInv, DeviceInv
<1>2. StageInv'
  BY DEF IndInv, StageInv
<1>3. TrackInv'
  BY DEF IndInv, TrackInv, BusCmd, DeviceCmd, OneAtATime
<1>4. NoLostMutex'
  BY DEF IndInv, NoLostMutex
<1>5. QED
  BY <1>1, <1>2, <1>3, <1>4 DEF IndInv

LEMMA NoReqCmd == NoReq.cmd = "none"
  BY DEF NoReq, Plain

\* Clients that come and go, and accept().
LEMMA IndAccept ==
  ASSUME IndInv, TypeOK', NEW c \in Conn,
         Connect(c) \/ Disconnect(c) \/ Accept(c) \/ AcceptNoMemory(c)
  PROVE  IndInv'
<1> USE DEF Connect, Disconnect, Accept, AcceptNoMemory, Queued, CloseConn,
        TypeOK, DeviceOK, serverVars, fdVars, busVars, clientVars, workerVars
<1>1. UNCHANGED <<busVars, workerVars>>
  OBVIOUS
<1>2. MainInv'
  BY DEF IndInv, MainInv
<1>3. \A d \in Conn : req'[d] = req[d] \/ (req'[d].cmd = "none" /\ pc[d] = "none")
  BY NoReqCmd DEF IndInv
<1>4. QED
  BY <1>1, <1>2, <1>3, IndFrame

\* The main thread, but for the creation of a worker, and the signal.
LEMMA IndMain ==
  ASSUME IndInv, TypeOK',
         \/ Admit \/ Reject \/ CreateFails \/ StopAccepting \/ Exit
         \/ (\E b \in Bus : CloseBus(b)) \/ Signal
  PROVE  IndInv'
<1> USE DEF Admit, Reject, CreateFails, StopAccepting, Exit, CloseBus, Signal, CloseConn,
        Queued, TypeOK, DeviceOK, serverVars, fdVars, busVars, clientVars, workerVars
<1>1. UNCHANGED <<busVars, workerVars>>
  OBVIOUS
<1>2. MainInv'
  BY DEF IndInv, MainInv
<1>3. ASSUME NEW d \in Conn
      PROVE  req'[d] = req[d] \/ (req'[d].cmd = "none" /\ pc[d] = "none")
  <2>1. CASE Reject \/ CreateFails
    BY <2>1, NoReqCmd DEF IndInv, MainInv
  <2>2. CASE Signal
    BY <2>2, NoReqCmd DEF IndInv
  <2>3. QED
    BY <2>1, <2>2
<1>4. QED
  BY <1>1, <1>2, <1>3, IndFrame

\* A worker starts.
LEMMA IndCreate ==
  ASSUME IndInv, TypeOK', Create
  PROVE  IndInv'
<1> USE DEF TypeOK, DeviceOK, serverVars, fdVars, busVars, clientVars, workerVars, Create
<1>0. /\ cur \in Conn /\ pc[cur] = "none"
      /\ pc' = [pc EXCEPT ![cur] = "recv"] /\ cur' = NoConn /\ main' = "accept"
  BY DEF IndInv, MainInv
<1>1. LockInv'
  BY <1>0 DEF IndInv, LockInv, MainInv
<1>2. DeviceInv'
  BY <1>0 DEF IndInv, LockInv, DeviceInv
<1>3. StageInv'
  BY <1>0 DEF IndInv, StageInv, LockInv, DeviceInv
<1>4. TrackInv'
  BY <1>0 DEF IndInv, TrackInv, LockInv, StageInv, BusCmd, DeviceCmd, OneAtATime
<1>5. NoLostMutex'
  BY <1>0 DEF IndInv, NoLostMutex, TrackInv
<1>6. MainInv'
  BY <1>0 DEF IndInv, MainInv
<1>7. QED
  BY <1>1, <1>2, <1>3, <1>4, <1>5, <1>6 DEF IndInv

\* Handlers that answer at once.
LEMMA IndOnlyAnswer ==
  ASSUME IndInv, TypeOK', NEW c \in Conn,
         RefuseInvalid(c) \/ RefuseUnopened(c) \/ RefuseRead(c) \/ HandleInit(c)
  PROVE  IndInv'
<1> USE DEF TypeOK, DeviceOK, serverVars, fdVars, busVars, clientVars, workerVars, At, Received,
        Answer, OnlyAnswer, TakeFd, Lock, Unlock, MayReachDevice, ReachDevice, RefuseInvalid,
        RefuseUnopened, RefuseRead, HandleInit
<1>1. LockInv'
  BY DEF IndInv, LockInv, MainInv
<1>2. DeviceInv'
  BY DEF IndInv, LockInv, DeviceInv
<1>3. StageInv'
  BY DEF IndInv, StageInv, LockInv, DeviceInv
<1>4. TrackInv'
  BY DEF IndInv, TrackInv, LockInv, StageInv, BusCmd, DeviceCmd, OneAtATime
<1>5. NoLostMutex'
  BY DEF IndInv, NoLostMutex, TrackInv
<1>6. MainInv'
  BY DEF IndInv, MainInv
<1>7. QED
  BY <1>1, <1>2, <1>3, <1>4, <1>5, <1>6 DEF IndInv

\* Handlers that go on to the bus.
LEMMA IndTakeFd ==
  ASSUME IndInv, TypeOK', NEW c \in Conn, HandleWake(c) \/ HandleWrite(c) \/ HandleRead(c)
  PROVE  IndInv'
<1> USE DEF TypeOK, DeviceOK, serverVars, fdVars, busVars, clientVars, workerVars, At, Received,
        Answer, OnlyAnswer, TakeFd, Lock, Unlock, MayReachDevice, ReachDevice, HandleWake, HandleWrite,
        HandleRead
<1>1. LockInv'
  BY DEF IndInv, LockInv, MainInv
<1>2. DeviceInv'
  BY DEF IndInv, LockInv, DeviceInv
<1>3. StageInv'
  BY DEF IndInv, StageInv, LockInv, DeviceInv
<1>4. TrackInv'
  BY DEF IndInv, TrackInv, LockInv, StageInv, BusCmd, DeviceCmd, OneAtATime
<1>5. NoLostMutex'
  BY DEF IndInv, NoLostMutex, TrackInv
<1>6. MainInv'
  BY DEF IndInv, MainInv
<1>7. QED
  BY <1>1, <1>2, <1>3, <1>4, <1>5, <1>6 DEF IndInv

\* The wake obtains the mutex.
LEMMA IndWakeLock ==
  ASSUME IndInv, TypeOK', NEW c \in Conn, WakeLock(c)
  PROVE  IndInv'
<1> USE DEF TypeOK, DeviceOK, serverVars, fdVars, busVars, clientVars, workerVars, At, Received,
        Answer, OnlyAnswer, TakeFd, Lock, Unlock, MayReachDevice, ReachDevice, WakeLock
<1>1. LockInv'
  BY DEF IndInv, LockInv, MainInv
<1>2. DeviceInv'
  BY DEF IndInv, LockInv, DeviceInv
<1>3. StageInv'
  BY DEF IndInv, StageInv, LockInv, DeviceInv
<1>4. TrackInv'
  BY DEF IndInv, TrackInv, LockInv, StageInv, BusCmd, DeviceCmd, OneAtATime
<1>5. NoLostMutex'
  BY DEF IndInv, NoLostMutex, TrackInv
<1>6. MainInv'
  BY DEF IndInv, MainInv
<1>7. QED
  BY <1>1, <1>2, <1>3, <1>4, <1>5, <1>6 DEF IndInv

\* The wake transfers and unlocks.
LEMMA IndWakeXfer ==
  ASSUME IndInv, TypeOK', NEW c \in Conn, WakeXfer(c)
  PROVE  IndInv'
<1> USE DEF TypeOK, DeviceOK, serverVars, fdVars, busVars, clientVars, workerVars, At, Received,
        Answer, OnlyAnswer, TakeFd, Lock, Unlock, MayReachDevice, ReachDevice, WakeXfer
<1>1. LockInv'
  BY DEF IndInv, LockInv, MainInv
<1>2. DeviceInv'
  BY DEF IndInv, LockInv, DeviceInv
<1>3. StageInv'
  BY DEF IndInv, StageInv, LockInv, DeviceInv
<1>4. TrackInv'
  BY DEF IndInv, TrackInv, LockInv, StageInv, BusCmd, DeviceCmd, OneAtATime
<1>5. NoLostMutex'
  BY DEF IndInv, NoLostMutex, TrackInv
<1>6. MainInv'
  BY DEF IndInv, MainInv
<1>7. QED
  BY <1>1, <1>2, <1>3, <1>4, <1>5, <1>6 DEF IndInv

\* The write obtains the mutex.
LEMMA IndWriteLock ==
  ASSUME IndInv, TypeOK', NEW c \in Conn, WriteLock(c)
  PROVE  IndInv'
<1> USE DEF TypeOK, DeviceOK, serverVars, fdVars, busVars, clientVars, workerVars, At, Received,
        Answer, OnlyAnswer, TakeFd, Lock, Unlock, MayReachDevice, ReachDevice, WriteLock
<1>1. LockInv'
  BY DEF IndInv, LockInv, MainInv
<1>2. DeviceInv'
  BY DEF IndInv, LockInv, DeviceInv
<1>3. StageInv'
  BY DEF IndInv, StageInv, LockInv, DeviceInv
<1>4. TrackInv'
  BY DEF IndInv, TrackInv, LockInv, StageInv, BusCmd, DeviceCmd, OneAtATime
<1>5. NoLostMutex'
  BY DEF IndInv, NoLostMutex, TrackInv
<1>6. MainInv'
  BY DEF IndInv, MainInv
<1>7. QED
  BY <1>1, <1>2, <1>3, <1>4, <1>5, <1>6 DEF IndInv

\* The write transfers.
LEMMA IndWriteXfer ==
  ASSUME IndInv, TypeOK', NEW c \in Conn, WriteXfer(c)
  PROVE  IndInv'
<1> USE DEF TypeOK, DeviceOK, serverVars, fdVars, busVars, clientVars, workerVars, At, Received,
        Answer, OnlyAnswer, TakeFd, Lock, Unlock, MayReachDevice, ReachDevice, WriteXfer
<1>1. LockInv'
  <2>1. req[c].bus \in Bus /\ holds[c] = req[c].bus /\ mutex[req[c].bus] = c
    BY RequestAddr DEF IndInv, LockInv
  <2>2. pc' = [pc EXCEPT ![c] = "reply"] /\ req' = req
    OBVIOUS
  <2>3. CASE UNCHANGED <<mutex, holds>>
    BY <2>2, <2>3 DEF IndInv, LockInv
  <2>4. CASE /\ mutex' = [mutex EXCEPT ![req[c].bus] = NoConn]
             /\ holds' = [holds EXCEPT ![c] = NoBus]
    BY <2>1, <2>2, <2>4 DEF IndInv, LockInv
  <2>5. QED
    BY <2>3, <2>4
<1>2. DeviceInv'
  <2>1. SUFFICES ASSUME NEW d \in Conn, holds'[d] # NoBus, NEW x \in wrote'[d]
                 PROVE  dev'[holds'[d]][x] = d
    BY DEF DeviceInv
  <2>2. req[c].bus \in Bus /\ holds[c] = req[c].bus /\ mutex[req[c].bus] = c
    BY RequestAddr DEF IndInv, LockInv
  <2>3. dev' \in {dev, [dev EXCEPT ![req[c].bus][req[c].addr] = c]}
    OBVIOUS
  <2>4. CASE d = c
    <3>1. dev' = [dev EXCEPT ![req[c].bus][req[c].addr] = c] /\ holds' = holds
      BY <2>1, <2>4 DEF IndInv
    <3>2. x \in wrote[c] \cup {req[c].addr} /\ x \in Addr
      BY <2>1, <2>4, <3>1 DEF IndInv
    <3>3. x \in wrote[c] => dev[req[c].bus][x] = c
      BY <2>2 DEF IndInv, DeviceInv
    <3>4. QED
      BY <2>2, <2>4, <3>1, <3>2, <3>3 DEF IndInv
  <2>5. CASE d # c
    <3>1. holds'[d] = holds[d] /\ wrote'[d] = wrote[d]
      BY <2>5 DEF IndInv
    <3>2. dev[holds[d]][x] = d /\ mutex[holds[d]] = d
      BY <2>1, <3>1 DEF IndInv, DeviceInv, LockInv
    <3>3. holds[d] \in Bus /\ holds[d] # req[c].bus
      BY <2>1, <2>2, <2>5, <3>1, <3>2 DEF IndInv
    <3>4. dev'[holds[d]] = dev[holds[d]]
      BY <2>2, <2>3, <3>3 DEF IndInv
    <3>5. QED
      BY <3>1, <3>2, <3>4
  <2>6. QED
    BY <2>4, <2>5
<1>3. StageInv'
  BY DEF IndInv, StageInv, LockInv, DeviceInv
<1>4. TrackInv'
  BY DEF IndInv, TrackInv, LockInv, StageInv, BusCmd, DeviceCmd, OneAtATime
<1>5. NoLostMutex'
  BY DEF IndInv, NoLostMutex, TrackInv
<1>6. MainInv'
  BY DEF IndInv, MainInv
<1>7. QED
  BY <1>1, <1>2, <1>3, <1>4, <1>5, <1>6 DEF IndInv

\* The read transfers.
LEMMA IndReadXfer ==
  ASSUME IndInv, TypeOK', NEW c \in Conn, ReadXfer(c)
  PROVE  IndInv'
<1> USE DEF TypeOK, DeviceOK, serverVars, fdVars, busVars, clientVars, workerVars, At, Received,
        Answer, OnlyAnswer, TakeFd, Lock, Unlock, MayReachDevice, ReachDevice, ReadXfer
<1>1. LockInv'
  BY DEF IndInv, LockInv, MainInv
<1>2. DeviceInv'
  BY DEF IndInv, LockInv, DeviceInv
<1>3. StageInv'
  <2>1. /\ req[c].cmd = "READ" /\ holds[c] = req[c].bus
        /\ req[c].addr \in wrote[c] => dev[req[c].bus][req[c].addr] = c
    BY RequestAddr DEF IndInv, LockInv, DeviceInv, StageInv
  <2>2. pc' = [pc EXCEPT ![c] = "reply"] /\ UNCHANGED <<req, holds, wrote>>
    OBVIOUS
  <2>3. \A d \in Conn \ {c} : status'[d] = status[d] /\ from'[d] = from[d]
    OBVIOUS
  <2>4. from'[c] \in {dev[req[c].bus][req[c].addr], NoConn}
    OBVIOUS
  <2>5. QED
    BY <2>1, <2>2, <2>3, <2>4 DEF IndInv, StageInv
<1>4. TrackInv'
  BY DEF IndInv, TrackInv, LockInv, StageInv, BusCmd, DeviceCmd, OneAtATime
<1>5. NoLostMutex'
  BY DEF IndInv, NoLostMutex, TrackInv
<1>6. MainInv'
  BY DEF IndInv, MainInv
<1>7. QED
  BY <1>1, <1>2, <1>3, <1>4, <1>5, <1>6 DEF IndInv

\* UNLOCK.
LEMMA IndHandleUnlock ==
  ASSUME IndInv, TypeOK', NEW c \in Conn, HandleUnlock(c)
  PROVE  IndInv'
<1> USE DEF TypeOK, DeviceOK, serverVars, fdVars, busVars, clientVars, workerVars, At, Received,
        Answer, OnlyAnswer, TakeFd, Lock, Unlock, MayReachDevice, ReachDevice, HandleUnlock
<1>1. LockInv'
  <2>1. pc' = [pc EXCEPT ![c] = "reply"] /\ req' = req /\ holds' = [holds EXCEPT ![c] = NoBus]
    OBVIOUS
  <2>2. CASE holds[c] = NoBus
    <3>1. mutex' = mutex
      BY <2>2
    <3>2. QED
      BY <2>1, <3>1 DEF IndInv, LockInv
  <2>3. CASE holds[c] # NoBus
    <3>1. holds[c] \in Bus /\ mutex[holds[c]] = c /\ mutex' = [mutex EXCEPT ![holds[c]] = NoConn]
      BY <2>3 DEF IndInv, LockInv
    <3>2. QED
      BY <2>1, <3>1 DEF IndInv, LockInv
  <2>4. QED
    BY <2>2, <2>3
<1>2. DeviceInv'
  BY DEF IndInv, LockInv, DeviceInv
<1>3. StageInv'
  BY DEF IndInv, StageInv, LockInv, DeviceInv
<1>4. TrackInv'
  BY DEF IndInv, TrackInv, LockInv, StageInv, BusCmd, DeviceCmd, OneAtATime
<1>5. NoLostMutex'
  BY DEF IndInv, NoLostMutex, TrackInv
<1>6. MainInv'
  BY DEF IndInv, MainInv
<1>7. QED
  BY <1>1, <1>2, <1>3, <1>4, <1>5, <1>6 DEF IndInv

\* The worker answers, or leaves its loop.
LEMMA IndReply ==
  ASSUME IndInv, TypeOK', NEW c \in Conn, Reply(c) \/ EndOfInput(c) \/ DropFrame(c)
  PROVE  IndInv'
<1> USE DEF TypeOK, serverVars, fdVars, busVars, clientVars, workerVars, At, Reply, EndOfInput,
        DropFrame, NoReq, Plain
<1>0. /\ pc[c] \in {"reply", "recv"} /\ pc'[c] \in {"recv", "release"}
      /\ \A d \in Conn \ {c} : pc'[d] = pc[d] /\ req'[d] = req[d]
      /\ UNCHANGED <<mutex, dev, holds, wrote>>
  <2>1. CASE Reply(c)
    BY <2>1 DEF IndInv
  <2>2. CASE EndOfInput(c)
    BY <2>2 DEF IndInv
  <2>3. CASE DropFrame(c)
    BY <2>3 DEF IndInv
  <2>4. QED
    BY <2>1, <2>2, <2>3
<1>1. LockInv'
  BY <1>0 DEF IndInv, LockInv
<1>2. DeviceInv'
  BY <1>0 DEF IndInv, DeviceInv
<1>3. StageInv'
  BY <1>0 DEF IndInv, StageInv
<1>4. TrackInv'
  BY <1>0 DEF IndInv, TrackInv, LockInv, StageInv, BusCmd, DeviceCmd, OneAtATime
<1>5. NoLostMutex'
  BY DEF IndInv, NoLostMutex, TrackInv
<1>6. MainInv'
  BY DEF IndInv, MainInv
<1>7. QED
  BY <1>1, <1>2, <1>3, <1>4, <1>5, <1>6 DEF IndInv

\* The worker unlocks.
LEMMA IndRelease ==
  ASSUME IndInv, TypeOK', NEW c \in Conn, Release(c)
  PROVE  IndInv'
<1> USE DEF TypeOK, DeviceOK, serverVars, fdVars, busVars, clientVars, workerVars, At, Received,
        Answer, OnlyAnswer, TakeFd, Lock, Unlock, MayReachDevice, ReachDevice, Release
<1>1. LockInv'
  <2>1. pc' = [pc EXCEPT ![c] = "close"] /\ req' = req /\ holds' = [holds EXCEPT ![c] = NoBus]
    OBVIOUS
  <2>2. \A b \in Bus : mutex[b] # c => mutex'[b] = mutex[b]
    OBVIOUS
  <2>3. \A d \in Conn : req[d].bus \in Bus
    BY RequestAddr DEF IndInv
  <2>4. QED
    BY <2>1, <2>2, <2>3 DEF IndInv, LockInv
<1>2. DeviceInv'
  BY DEF IndInv, LockInv, DeviceInv
<1>3. StageInv'
  BY DEF IndInv, StageInv, LockInv, DeviceInv
<1>4. TrackInv'
  BY DEF IndInv, TrackInv, LockInv, StageInv, BusCmd, DeviceCmd, OneAtATime
<1>5. NoLostMutex'
  BY DEF IndInv, NoLostMutex, TrackInv
<1>6. MainInv'
  BY DEF IndInv, MainInv
<1>7. QED
  BY <1>1, <1>2, <1>3, <1>4, <1>5, <1>6 DEF IndInv

\* The worker ends.
LEMMA IndClose ==
  ASSUME IndInv, TypeOK', NEW c \in Conn, Close(c) \/ Post(c)
  PROVE  IndInv'
<1> USE DEF TypeOK, DeviceOK, serverVars, fdVars, busVars, clientVars, workerVars, At, Received,
        Answer, OnlyAnswer, TakeFd, Lock, Unlock, MayReachDevice, ReachDevice, Close, Post, CloseConn,
        ForgetBytes, NoReq, Plain
<1>1. LockInv'
  BY DEF IndInv, LockInv, MainInv
<1>2. DeviceInv'
  BY DEF IndInv, LockInv, DeviceInv
<1>3. StageInv'
  BY DEF IndInv, StageInv, LockInv, DeviceInv
<1>4. TrackInv'
  BY DEF IndInv, TrackInv, LockInv, StageInv, BusCmd, DeviceCmd, OneAtATime
<1>5. NoLostMutex'
  BY DEF IndInv, NoLostMutex, TrackInv
<1>6. MainInv'
  BY DEF IndInv, MainInv
<1>7. QED
  BY <1>1, <1>2, <1>3, <1>4, <1>5, <1>6 DEF IndInv

\* A request is sent.
LEMMA IndSend ==
  ASSUME IndInv, TypeOK', NEW c \in Conn, ClientSend(c)
  PROVE  IndInv'
<1> USE DEF TypeOK, DeviceOK, serverVars, fdVars, busVars, clientVars, workerVars
<1>1. PICK q \in Requests(c) : req' = [req EXCEPT ![c] = q]
  BY DEF ClientSend
<1>2. UNCHANGED <<serverVars, fdVars, busVars, workerVars>> /\ pc[c] \in {"none", "recv"}
  BY DEF ClientSend
<1>3. LockInv' /\ DeviceInv' /\ NoLostMutex' /\ MainInv'
  BY <1>1, <1>2 DEF IndInv, LockInv, DeviceInv, NoLostMutex, MainInv
<1>4. StageInv'
  BY <1>1, <1>2 DEF IndInv, StageInv
<1>5. TrackInv'
  <2>1. \A d \in Conn \ {c} : req'[d] = req[d]
    BY <1>1 DEF IndInv
  <2>2. req'[c] = q
    BY <1>1 DEF IndInv
  <2>3. OneAtATime(c) => /\ q.cmd \in BusCmd => q.bus \in BusOf[c]
                         /\ c \in Documented /\ q.cmd \in {"WAKE", "WRITE"} => holds[c] = NoBus
    BY RequestsBus DEF IndInv, TrackInv
  <2>4. QED
    BY <1>2, <2>1, <2>2, <2>3 DEF IndInv, TrackInv, OneAtATime
<1>6. QED
  BY <1>3, <1>4, <1>5 DEF IndInv

LEMMA IndStep == IndInv /\ [Next]_vars => IndInv'
<1>1. SUFFICES ASSUME IndInv, [Next]_vars PROVE IndInv'
  OBVIOUS
<1>2. TypeOK'
  BY <1>1, TypeStep DEF IndInv
<1>3. CASE UNCHANGED vars
  BY <1>1, <1>3 DEF vars, serverVars, fdVars, busVars, clientVars, workerVars, IndInv, TypeOK, DeviceOK,
     LockInv, DeviceInv, StageInv, TrackInv, NoLostMutex, MainInv
<1>4. CASE MainThread \/ Signal
  BY <1>1, <1>2, <1>4, IndAccept, IndMain, IndCreate DEF MainThread
<1>5. ASSUME NEW c \in Conn, Client(c) PROVE IndInv'
  BY <1>1, <1>2, <1>5, IndAccept, IndSend DEF Client
<1>6. ASSUME NEW c \in Conn, Worker(c) PROVE IndInv'
  BY <1>1, <1>2, <1>6, IndOnlyAnswer, IndTakeFd, IndWakeLock, IndWakeXfer, IndWriteLock,
     IndWriteXfer, IndReadXfer, IndHandleUnlock, IndReply, IndRelease, IndClose DEF Worker
<1>7. QED
  BY <1>1, <1>3, <1>4, <1>5, <1>6 DEF Next, Exited

\* The inductive invariant holds of every reachable state.
THEOREM Inductive == Spec => []IndInv
  BY IndInit, IndStep, PTL DEF Spec

-----------------------------------------------------------------------------
(* What it implies. *)

\* Every variable keeps its type.
THEOREM TypeCorrect == Spec => []TypeOK
<1>1. IndInv => TypeOK
  BY DEF IndInv
<1>2. QED
  BY <1>1, Inductive, PTL

\* The data of a READ are the connection's own if it has written to that device
\* since it has the bus, and never those of another that still has it.
THEOREM OwnReplyAlways == Spec => []OwnReply
<1>1. IndInv => OwnReply
  <2>1. SUFFICES ASSUME IndInv, NEW c \in Conn, from[c] \notin {NoConn, c}
                 PROVE  req[c].addr \notin wrote[c] /\ holds[from[c]] # req[c].bus
    BY DEF OwnReply
  <2>2. from[c] \in Conn /\ req[c].bus \in Bus
    BY <2>1, RequestAddr DEF IndInv, TypeOK, DeviceOK
  <2>3. mutex[req[c].bus] = c /\ req[c].addr \notin wrote[c]
    BY <2>1, <2>2 DEF IndInv, StageInv, LockInv
  <2>4. QED
    BY <2>1, <2>2, <2>3 DEF IndInv, LockInv
<1>2. QED
  BY <1>1, Inductive, PTL

\* Two workers are never in a transfer on the same bus.
THEOREM BusExclusiveAlways == Spec => []BusExclusive
<1>1. IndInv => BusExclusive
  <2>1. SUFFICES ASSUME IndInv, NEW c \in Conn, NEW d \in Conn,
                        pc[c] \in InTransfer, pc[d] \in InTransfer, req[c].bus = req[d].bus
                 PROVE  c = d
    BY DEF BusExclusive
  <2>2. req[c].bus \in Bus
    BY <2>1, RequestAddr DEF IndInv, TypeOK, DeviceOK
  <2>3. \A x \in {c, d} : mutex[req[x].bus] = x
    BY <2>1, <2>2 DEF IndInv, LockInv, InTransfer
  <2>4. QED
    BY <2>1, <2>3
<1>2. QED
  BY <1>1, Inductive, PTL

\* Clients that lock one bus at a time never cost the daemon a mutex.
THEOREM NoLostMutexAlways == Spec => []NoLostMutex
<1>1. IndInv => NoLostMutex
  BY DEF IndInv
<1>2. QED
  BY <1>1, Inductive, PTL

\* A documented client's worker never holds one mutex and waits for another.
THEOREM NoHoldAndWaitAlways == Spec => []NoHoldAndWait
<1>1. IndInv => NoHoldAndWait
  BY DEF IndInv, StageInv, TrackInv, OneAtATime, NoHoldAndWait
<1>2. QED
  BY <1>1, Inductive, PTL

-----------------------------------------------------------------------------
(* The connection limit. *)

\* Most steps neither start nor end a worker, and leave the counters alone.
LEMMA SlotsSame ==
  ASSUME Slots' = Slots, sem' = sem, leaked' = leaked, SlotAccounting
  PROVE  SlotAccounting'
  BY DEF SlotAccounting

LEMMA SlotStep == IndInv /\ SlotAccounting /\ [Next]_vars => SlotAccounting'
<1>1. SUFFICES ASSUME IndInv, SlotAccounting, [Next]_vars PROVE SlotAccounting'
  OBVIOUS
<1> USE DEF serverVars, workerVars
<1>2. /\ Slots \subseteq Conn /\ IsFiniteSet(Slots) /\ IsFiniteSet(Slots')
      /\ Cardinality(Slots) \in Nat
  <2>1. Slots \subseteq Conn /\ Slots' \subseteq Conn
    BY DEF Slots
  <2>2. QED
    BY <2>1, FS_Subset, FS_CardinalityType
<1>3. CASE UNCHANGED vars
  BY <1>1, <1>3, SlotsSame DEF vars, Slots
<1>4. CASE Admit
  <2>1. cur \in Conn /\ cur \notin Slots
    BY <1>1, <1>4 DEF Admit, IndInv, TypeOK, MainInv, Slots
  <2>2. Slots' = Slots \cup {cur}
    BY <1>4, <2>1 DEF Admit, Slots
  <2>3. Cardinality(Slots') = Cardinality(Slots) + 1
    BY <1>2, <2>1, <2>2, FS_AddElement
  <2>4. QED
    BY <1>1, <1>2, <1>4, <2>3 DEF Admit, SlotAccounting, IndInv, TypeOK
<1>5. CASE CreateFails
  <2>1. cur \in Conn /\ pc[cur] = "none" /\ cur \in Slots
    BY <1>1, <1>5 DEF CreateFails, IndInv, TypeOK, MainInv, Slots
  <2>2. Slots' = Slots \ {cur}
    BY <1>5, <2>1 DEF CreateFails, Slots
  <2>3. Cardinality(Slots') = Cardinality(Slots) - 1
    BY <1>2, <2>1, <2>2, FS_RemoveElement
  <2>4. QED
    BY <1>1, <1>2, <1>5, <2>3 DEF CreateFails, SlotAccounting, IndInv, TypeOK
<1>6. CASE Create
  <2>1. cur \in Conn /\ pc[cur] = "none"
    BY <1>1, <1>6 DEF Create, IndInv, TypeOK, MainInv
  <2>2. Slots' = Slots
    BY <1>1, <1>6, <2>1 DEF Create, Slots, IndInv, TypeOK
  <2>3. QED
    BY <1>1, <1>6, <2>2, SlotsSame DEF Create
<1>7. CASE (\E c \in Conn : Accept(c) \/ AcceptNoMemory(c)) \/ Reject \/ StopAccepting
           \/ (\E b \in Bus : CloseBus(b)) \/ Exit \/ Signal \/ (\E c \in Conn : Client(c))
  <2>1. pc' = pc /\ (main' = "create" <=> main = "create") /\ (main = "create" => cur' = cur)
    BY <1>7 DEF Accept, AcceptNoMemory, Reject, StopAccepting, CloseBus, Exit, Signal, Client,
       Connect, ClientSend, Disconnect
  <2>2. sem' = sem /\ leaked' = leaked
    BY <1>7 DEF Accept, AcceptNoMemory, Reject, StopAccepting, CloseBus, Exit, Signal, Client,
       Connect, ClientSend, Disconnect
  <2>3. QED
    BY <1>1, <2>1, <2>2, SlotsSame DEF Slots
<1>8. ASSUME NEW c \in Conn, Worker(c) PROVE SlotAccounting'
  <2>1. c \in Slots /\ pc[c] # "none" /\ (main = "create" => c # cur)
    BY <1>1, <1>8 DEF Slots, Worker, IndInv, MainInv, RefuseInvalid, RefuseUnopened, RefuseRead,
       HandleInit, HandleUnlock, HandleWake, WakeLock, WakeXfer, HandleWrite, WriteLock,
       WriteXfer, HandleRead, ReadXfer, Reply, EndOfInput, DropFrame, Release, Close, Post, Received
  <2>2. CASE Post(c)
    <3>1. Slots' = Slots \ {c}
      BY <1>1, <2>1, <2>2 DEF Post, At, Slots, IndInv, TypeOK
    <3>2. Cardinality(Slots') = Cardinality(Slots) - 1
      BY <1>2, <2>1, <3>1, FS_RemoveElement
    <3>3. QED
      BY <1>1, <1>2, <2>2, <3>2 DEF Post, SlotAccounting, IndInv, TypeOK
  <2>3. CASE ~Post(c)
    <3>1. PICK where \in WorkerStates \ {"none"} :
             pc' = [pc EXCEPT ![c] = where] /\ UNCHANGED <<main, cur, sem, leaked>>
      BY <1>8, <2>3 DEF WorkerStates, InTransfer, Worker, RefuseInvalid, RefuseUnopened,
         RefuseRead, HandleInit, HandleUnlock, HandleWake, WakeLock, WakeXfer, HandleWrite,
         WriteLock, WriteXfer, HandleRead, ReadXfer, Reply, EndOfInput, DropFrame, Release,
         Close, At, Answer, OnlyAnswer, TakeFd
    <3>2. Slots' = Slots
      BY <1>1, <2>1, <3>1 DEF Slots, IndInv, TypeOK
    <3>3. QED
      BY <1>1, <3>1, <3>2, SlotsSame
  <2>4. QED
    BY <2>2, <2>3
<1>9. QED
  BY <1>1, <1>3, <1>4, <1>5, <1>6, <1>7, <1>8 DEF Next, Exited, MainThread

\* Every slot of the semaphore is free, taken by a live connection or leaked:
\* the connection limit holds and no worker posts twice.
THEOREM SlotAccountingAlways == Spec => []SlotAccounting
<1>1. Init => SlotAccounting
  <2>1. Init => Slots = {}
    BY DEF Init, Slots
  <2>2. Init => sem = MaxClients /\ leaked = 0
    BY DEF Init
  <2>3. Cardinality({}) = 0
    BY FS_EmptySet
  <2>4. MaxClients \in Nat
    BY ParameterAssumption DEF ParameterAssumption
  <2>5. QED
    BY <2>1, <2>2, <2>3, <2>4 DEF SlotAccounting
<1>2. QED
  BY <1>1, SlotStep, Inductive, PTL DEF Spec

-----------------------------------------------------------------------------
(* The device answers to the holder of its bus only. *)

\* While a connection holds a bus, only its own WRITEs reach its devices.
THEOREM OnlyHolderReachesDeviceAlways == Spec => OnlyHolderReachesDevice
<1> DEFINE Quiet(c, b, a) == holds[c] = b /\ dev'[b][a] \notin {dev[b][a], NoConn} =>
                                 pc[c] = "writeXfer" /\ req[c].addr = a /\ dev'[b][a] = c
<1>1. ASSUME IndInv, [Next]_vars, NEW c \in Conn, NEW b \in Bus, NEW a \in Addr
      PROVE  Quiet(c, b, a)
  <2>1. ASSUME NEW d \in Conn, WakeXfer(d) \/ WriteXfer(d) PROVE Quiet(c, b, a)
    <3>1. req[d].bus \in Bus /\ mutex[req[d].bus] = d
      BY <1>1, <2>1, RequestAddr DEF WakeXfer, WriteXfer, IndInv, LockInv, TypeOK, DeviceOK
    <3>2. dev' \in {dev, [dev EXCEPT ![req[d].bus][req[d].addr] = d]}
      BY <2>1 DEF WakeXfer, WriteXfer, MayReachDevice, ReachDevice
    <3>3. dev'[b][a] # dev[b][a] => b = req[d].bus /\ a = req[d].addr /\ dev'[b][a] = d
      BY <1>1, <3>1, <3>2 DEF IndInv, TypeOK, DeviceOK
    <3>4. holds[c] = b => mutex[b] = c
      BY <1>1 DEF IndInv, LockInv
    <3>5. WakeXfer(d) => holds[d] # req[d].bus
      BY <1>1 DEF WakeXfer, IndInv, LockInv
    <3>6. WriteXfer(d) => pc[d] = "writeXfer"
      BY DEF WriteXfer
    <3>7. QED
      BY <2>1, <3>3, <3>1, <3>4, <3>5, <3>6
  <2>2. ASSUME NEW d \in Conn, Post(d) PROVE Quiet(c, b, a)
    BY <2>2 DEF Post, ForgetBytes
  <2>3. CASE dev' = dev
    BY <2>3
  <2>4. QED
    <3> USE DEF busVars
    <3>1. CASE UNCHANGED vars
      BY <3>1, <2>3 DEF vars
    <3>2. CASE MainThread \/ Signal \/ \E d \in Conn : Client(d)
      BY <3>2, <2>3 DEF MainThread, Accept, AcceptNoMemory, Admit, Reject, Create, CreateFails,
         StopAccepting, CloseBus, Exit, Signal, Client, Connect, ClientSend, Disconnect
    <3>3. ASSUME NEW d \in Conn, Worker(d) PROVE Quiet(c, b, a)
      BY <3>3, <2>1, <2>2, <2>3 DEF Worker, RefuseInvalid, RefuseUnopened,
         RefuseRead, HandleInit, HandleUnlock, HandleWake, WakeLock, HandleWrite,
         WriteLock, HandleRead, ReadXfer, Reply, EndOfInput, DropFrame, Release,
         Close, OnlyAnswer, TakeFd
    <3>4. QED
      BY <1>1, <3>1, <3>2, <3>3 DEF Next, Exited
<1>2. IndInv /\ [Next]_vars =>
        [\A c \in Conn, b \in Bus, a \in Addr :
            holds[c] = b /\ dev'[b][a] \notin {dev[b][a], NoConn} =>
                pc[c] = "writeXfer" /\ req[c].addr = a /\ dev'[b][a] = c]_vars
  BY <1>1
<1>3. QED
  BY <1>2, Inductive, PTL DEF Spec, OnlyHolderReachesDevice

-----------------------------------------------------------------------------
(* What an answer lets a client conclude. *)

\* The part of ReplyTellsLock that IndInv does not give: what is recorded.
ReplyInv(c) ==
    pc[c] = "reply" /\ status[c] = "ok" =>
        /\ req[c].cmd = "WRITE"  => holds[c] = req[c].bus /\ req[c].addr \in wrote[c]
        /\ req[c].cmd = "READ"   => /\ holds[c] = req[c].bus
                                    /\ req[c].addr \in wrote[c] => from[c] = c
        /\ req[c].cmd = "UNLOCK" => holds[c] = NoBus

\* The worker of a connection leaves the others' part of the state alone.
LEMMA WorkerIsLocal ==
  ASSUME IndInv, NEW c \in Conn, NEW d \in Conn \ {c}, Worker(c)
  PROVE  UNCHANGED <<pc[d], status[d], from[d], holds[d], wrote[d], req[d]>>
<1> USE DEF IndInv, TypeOK, DeviceOK, At, Received, Answer, OnlyAnswer, TakeFd, workerVars, clientVars
<1>1. CASE RefuseInvalid(c) \/ RefuseUnopened(c) \/ RefuseRead(c) \/ HandleInit(c) \/ HandleUnlock(c)
  BY <1>1 DEF RefuseInvalid, RefuseUnopened, RefuseRead, HandleInit, HandleUnlock
<1>2. CASE HandleWake(c) \/ WakeLock(c) \/ WakeXfer(c) \/ HandleWrite(c) \/ WriteLock(c)
  BY <1>2 DEF HandleWake, WakeLock, WakeXfer, HandleWrite, WriteLock
<1>3. CASE WriteXfer(c) \/ HandleRead(c) \/ ReadXfer(c)
  BY <1>3 DEF WriteXfer, HandleRead, ReadXfer
<1>4. CASE Reply(c) \/ EndOfInput(c) \/ DropFrame(c) \/ Release(c) \/ Close(c) \/ Post(c)
  BY <1>4 DEF Reply, EndOfInput, DropFrame, Release, Close, Post, CloseConn
<1>5. QED
  BY <1>1, <1>2, <1>3, <1>4 DEF Worker

LEMMA ReplyWorker ==
  ASSUME IndInv, NEW c \in Conn, Worker(c)
  PROVE  ReplyInv(c)'
<1> USE DEF IndInv, TypeOK, DeviceOK, Received, Answer, OnlyAnswer, TakeFd, At, workerVars,
        clientVars, ReplyInv
<1>1. CASE RefuseInvalid(c) \/ RefuseUnopened(c) \/ RefuseRead(c) \/ HandleInit(c)
  BY <1>1 DEF RefuseInvalid, RefuseUnopened, RefuseRead, HandleInit
<1>2. CASE HandleUnlock(c)
  BY <1>2 DEF HandleUnlock
<1>3. CASE HandleWake(c) \/ WakeLock(c) \/ HandleWrite(c) \/ WriteLock(c) \/ HandleRead(c)
  BY <1>3 DEF HandleWake, WakeLock, HandleWrite, WriteLock, HandleRead
<1>4. CASE WakeXfer(c)
  BY <1>4 DEF WakeXfer, StageInv
<1>5. CASE WriteXfer(c)
  BY <1>5 DEF WriteXfer, StageInv, LockInv
<1>6. CASE ReadXfer(c)
  <2>1. pc[c] = "readXfer" /\ req[c].bus \in Bus
    BY <1>6, RequestAddr DEF ReadXfer
  <2>2. holds[c] = req[c].bus /\ req[c].cmd = "READ"
    BY <2>1 DEF StageInv, LockInv
  <2>3. req[c].addr \in wrote[c] => dev[req[c].bus][req[c].addr] = c
    BY <2>1, <2>2 DEF DeviceInv
  <2>4. QED
    BY <1>6, <2>2, <2>3 DEF ReadXfer
<1>7. CASE Reply(c) \/ EndOfInput(c) \/ DropFrame(c) \/ Release(c) \/ Close(c) \/ Post(c)
  BY <1>7 DEF Reply, EndOfInput, DropFrame, Release, Close, Post
<1>8. QED
  BY <1>1, <1>2, <1>3, <1>4, <1>5, <1>6, <1>7 DEF Worker

LEMMA ReplyStep ==
  IndInv /\ (\A c \in Conn : ReplyInv(c)) /\ [Next]_vars => (\A c \in Conn : ReplyInv(c))'
<1>1. SUFFICES ASSUME IndInv, \A d \in Conn : ReplyInv(d), [Next]_vars, NEW d \in Conn
               PROVE  ReplyInv(d)'
  OBVIOUS
<1>2. ASSUME NEW c \in Conn, Worker(c) PROVE ReplyInv(d)'
  <2>1. CASE c = d
    BY <1>1, <1>2, <2>1, ReplyWorker
  <2>2. CASE c # d
    BY <1>1, <1>2, <2>2, WorkerIsLocal DEF ReplyInv
  <2>3. QED
    BY <2>1, <2>2
<1>3. CASE UNCHANGED vars
  BY <1>1, <1>3 DEF vars, workerVars, clientVars, ReplyInv
<1>4. CASE MainThread \/ Signal \/ \E c \in Conn : Client(c)
  <2>1. pc'[d] = "reply" => pc[d] = "reply" /\ UNCHANGED <<status[d], from[d], holds[d], wrote[d], req[d]>>
    BY <1>1, <1>4 DEF IndInv, TypeOK, DeviceOK, MainInv, MainThread, Accept, AcceptNoMemory, Admit,
       Reject, Create, CreateFails, StopAccepting, CloseBus, Exit, Signal, Client, Connect,
       ClientSend, Disconnect, CloseConn, Queued, workerVars, clientVars
  <2>2. QED
    BY <1>1, <2>1 DEF ReplyInv
<1>5. QED
  BY <1>1, <1>2, <1>3, <1>4 DEF Next, Exited

\* After a successful WRITE the client has the bus and the device has its
\* bytes; after a successful READ it has the bus, and its own data if it wrote to
\* the device it read; after UNLOCK it has nothing.
THEOREM ReplyTellsLockAlways == Spec => []ReplyTellsLock
<1>1. Init => \A c \in Conn : ReplyInv(c)
  BY DEF Init, ReplyInv
<1>2. IndInv /\ (\A c \in Conn : ReplyInv(c)) => ReplyTellsLock
  <2>1. SUFFICES ASSUME IndInv, NEW c \in Conn, ReplyInv(c), pc[c] = "reply", status[c] = "ok"
                 PROVE  /\ req[c].cmd = "WRITE" => /\ holds[c] = req[c].bus
                                                   /\ mutex[req[c].bus] = c
                                                   /\ dev[req[c].bus][req[c].addr] = c
                        /\ req[c].cmd = "READ" => /\ holds[c] = req[c].bus
                                                  /\ req[c].addr \in wrote[c] => from[c] = c
                        /\ req[c].cmd = "UNLOCK" => (OneAtATime(c) => \A b \in Bus : mutex[b] # c)
    BY DEF ReplyTellsLock
  <2>2. req[c].bus \in Bus
    BY <2>1, RequestAddr DEF IndInv, TypeOK, DeviceOK
  <2>3. QED
    BY <2>1, <2>2 DEF IndInv, LockInv, DeviceInv, TrackInv, ReplyInv
<1>3. QED
  BY <1>1, <1>2, ReplyStep, Inductive, PTL DEF Spec
-----------------------------------------------------------------------------
(* Descriptors.  An entry of g_i2c_fds changes only while it is empty, until  *)
(* the shutdown loop runs; so a copy taken before waiting for the mutex stays *)
(* good.  FdInv says which copies exist, and that table and kernel agree.     *)

FdInv ==
    swept = {} =>
        /\ \A b \in Bus : busFd[b] # NoFd => fdBus[busFd[b]] = b
        /\ \A f \in Fd : fdBus[f] # NoBus => busFd[fdBus[f]] = f
        /\ \A c \in Conn : fd[c] # NoFd =>
              /\ busFd[req[c].bus] = fd[c]
              /\ pc[c] \in {"wakeLock", "writeLock"} \cup InTransfer

\* A step that leaves the table alone preserves FdInv if every copy it leaves
\* was there before, for the same request, or is taken from the table.
LEMMA FdFrame ==
  ASSUME FdInv, swept' = {} => swept = {}, UNCHANGED fdVars,
         \A c \in Conn : fd'[c] # NoFd =>
             /\ pc'[c] \in {"wakeLock", "writeLock"} \cup InTransfer
             /\ \/ fd'[c] = busFd[req'[c].bus]
                \/ UNCHANGED <<fd[c], req[c]>>
  PROVE  FdInv'
BY DEF FdInv, fdVars

LEMMA FdInit == Init => FdInv
<1>1. SUFFICES ASSUME Init PROVE FdInv
  OBVIOUS
<1>2. CASE busFd = [b \in Bus |-> NoFd] /\ fdBus = [f \in Fd |-> NoBus]
  BY <1>1, <1>2 DEF Init, FdInv
<1>3. ASSUME NEW b \in Bus, NEW f \in Fd,
             busFd = [x \in Bus |-> IF x = b THEN f ELSE NoFd],
             fdBus = [g \in Fd |-> IF g = f THEN b ELSE NoBus]
      PROVE  FdInv
  BY <1>1, <1>3 DEF Init, FdInv
<1>4. QED
  BY <1>1, <1>2, <1>3 DEF Init

\* Opening a device fills an empty entry with a descriptor nobody uses.
LEMMA FdHandleInit ==
  ASSUME IndInv, FdInv, NEW c \in Conn, HandleInit(c)
  PROVE  FdInv'
<1> DEFINE b == req[c].bus
<1>1. b \in Bus
  BY RequestAddr DEF IndInv, TypeOK
<1>2. /\ UNCHANGED <<req, swept>>
      /\ fd' = [fd EXCEPT ![c] = NoFd] /\ pc' = [pc EXCEPT ![c] = "reply"]
  BY DEF HandleInit, Answer, At, serverVars, clientVars
<1>3. CASE UNCHANGED fdVars
  BY <1>2, <1>3, FdFrame DEF IndInv, TypeOK, FdInv
<1>4. ASSUME busFd[b] = NoFd, NEW f \in Fd, fdBus[f] = NoBus,
             busFd' = [busFd EXCEPT ![b] = f], fdBus' = [fdBus EXCEPT ![f] = b]
      PROVE  FdInv'
  <2>1. SUFFICES ASSUME swept = {}
                 PROVE  /\ \A x \in Bus : busFd'[x] # NoFd => fdBus'[busFd'[x]] = x
                        /\ \A g \in Fd : fdBus'[g] # NoBus => busFd'[fdBus'[g]] = g
                        /\ \A d \in Conn : fd'[d] # NoFd =>
                              /\ busFd'[req[d].bus] = fd'[d]
                              /\ pc'[d] \in {"wakeLock", "writeLock"} \cup InTransfer
    BY <1>2 DEF FdInv
  <2>2. ASSUME NEW x \in Bus, busFd'[x] # NoFd PROVE fdBus'[busFd'[x]] = x
    BY <1>1, <1>4, <2>1, <2>2 DEF FdInv, IndInv, TypeOK
  <2>3. ASSUME NEW g \in Fd, fdBus'[g] # NoBus PROVE busFd'[fdBus'[g]] = g
    BY <1>1, <1>4, <2>1, <2>3 DEF FdInv, IndInv, TypeOK
  <2>4. ASSUME NEW d \in Conn, fd'[d] # NoFd
        PROVE  /\ busFd'[req[d].bus] = fd'[d]
               /\ pc'[d] \in {"wakeLock", "writeLock"} \cup InTransfer
    <3>1. fd'[d] = fd[d] /\ pc'[d] = pc[d]
      BY <1>2, <2>4 DEF IndInv, TypeOK
    <3>2. req[d].bus \in Bus
      BY RequestAddr DEF IndInv, TypeOK
    <3>3. QED
      BY <1>4, <2>1, <2>4, <3>1, <3>2 DEF FdInv, IndInv, TypeOK
  <2>5. QED
    BY <2>1, <2>2, <2>3, <2>4
<1>5. QED
  BY <1>3, <1>4 DEF HandleInit

LEMMA FdWorker ==
  ASSUME IndInv, FdInv, NEW c \in Conn, Worker(c)
  PROVE  FdInv'
<1> USE DEF IndInv, TypeOK, FdInv, InTransfer, At, Received, serverVars, fdVars,
        busVars, clientVars, workerVars
<1>1. CASE /\ fd' = [fd EXCEPT ![c] = NoFd] /\ pc' = [pc EXCEPT ![c] = "reply"]
           /\ UNCHANGED <<swept, fdVars, req>>
  BY <1>1, FdFrame
<1>2. CASE RefuseInvalid(c) \/ RefuseUnopened(c) \/ RefuseRead(c)
  BY <1>1, <1>2 DEF RefuseInvalid, RefuseUnopened, RefuseRead, OnlyAnswer, Answer
<1>3. CASE HandleInit(c)
  BY <1>3, FdHandleInit
<1>4. CASE HandleUnlock(c) \/ WakeXfer(c)
  BY <1>1, <1>4 DEF HandleUnlock, WakeXfer, Answer
<1>5. CASE WriteXfer(c)
  BY <1>1, <1>5 DEF WriteXfer, Answer
<1>6. CASE ReadXfer(c)
  BY <1>1, <1>6 DEF ReadXfer, Answer
<1>7. CASE HandleWake(c) \/ HandleWrite(c) \/ HandleRead(c)
  <2>1. PICK where \in {"wakeLock", "writeLock", "writeXfer", "readXfer"} : TakeFd(c, where)
    BY <1>7 DEF HandleWake, HandleWrite, HandleRead
  <2>2. QED
    BY <2>1, FdFrame DEF TakeFd
<1>8. CASE WakeLock(c) \/ WriteLock(c)
  BY <1>8, FdFrame DEF WakeLock, WriteLock
<1>9. CASE Reply(c) \/ EndOfInput(c) \/ DropFrame(c) \/ Release(c) \/ Close(c) \/ Post(c)
  <2>1. pc[c] \in {"reply", "recv", "release", "close", "post"}
    BY <1>9 DEF Reply, EndOfInput, DropFrame, Release, Close, Post
  <2>2. /\ UNCHANGED <<swept, fdVars, fd>>
        /\ \A d \in Conn \ {c} : UNCHANGED <<pc[d], req[d]>>
    BY <1>9 DEF Reply, EndOfInput, DropFrame, Release, Close, Post, CloseConn
  <2>3. QED
    BY <2>1, <2>2, FdFrame
<1>10. QED
  BY <1>2, <1>3, <1>4, <1>5, <1>6, <1>7, <1>8, <1>9 DEF Worker

LEMMA FdStep == IndInv /\ FdInv /\ [Next]_vars => FdInv'
<1>1. SUFFICES ASSUME IndInv, FdInv, [Next]_vars PROVE FdInv'
  OBVIOUS
<1> USE DEF serverVars, fdVars, busVars, clientVars, workerVars
<1>2. CASE /\ UNCHANGED <<swept, fdVars, fd>>
           /\ \A d \in Conn : pc[d] \notin {"none", "recv"} => UNCHANGED <<pc[d], req[d]>>
  BY <1>1, <1>2, FdFrame DEF FdInv, InTransfer
<1>3. ASSUME NEW b \in Bus, CloseBus(b) PROVE FdInv'
  BY <1>3 DEF CloseBus, FdInv
<1>4. CASE MainThread
  <2>1. ASSUME NEW c \in Conn, Accept(c) \/ AcceptNoMemory(c) PROVE FdInv'
    BY <1>1, <1>2, <2>1 DEF Accept, AcceptNoMemory, CloseConn, Queued, IndInv, TypeOK
  <2>2. CASE Reject \/ Create \/ CreateFails
    <3>1. pc[cur] = "none"
      BY <1>1, <2>2 DEF Reject, Create, CreateFails, IndInv, MainInv
    <3>2. QED
      BY <1>1, <1>2, <2>2, <3>1 DEF Reject, Create, CreateFails, CloseConn, IndInv, TypeOK
  <2>3. CASE Admit \/ StopAccepting \/ Exit
    BY <1>2, <2>3 DEF Admit, StopAccepting, Exit
  <2>4. QED
    BY <1>3, <1>4, <2>1, <2>2, <2>3 DEF MainThread
<1>5. CASE Signal
  BY <1>1, <1>2, <1>5 DEF Signal, Queued, IndInv, TypeOK
<1>6. ASSUME NEW c \in Conn, Client(c) PROVE FdInv'
  BY <1>1, <1>2, <1>6 DEF Client, Connect, ClientSend, Disconnect, IndInv, TypeOK
<1>7. CASE UNCHANGED vars
  BY <1>2, <1>7 DEF vars
<1>8. QED
  BY <1>1, <1>3, <1>4, <1>5, <1>6, <1>7, FdWorker DEF Next, Exited

\* What get_bus_fd() gave a handler is still the open descriptor of its bus
\* when the handler uses it, however long it waited, until the shutdown.
THEOREM FdFreshAlways == Spec => []FdFresh
<1>1. FdInv /\ IndInv => FdFresh
  <2>1. SUFFICES ASSUME FdInv, IndInv, swept = {}, NEW c \in Conn, fd[c] # NoFd
                 PROVE  fdBus[fd[c]] = req[c].bus /\ busFd[req[c].bus] = fd[c]
    BY DEF FdFresh
  <2>2. req[c].bus \in Bus
    BY <2>1, RequestAddr DEF IndInv, TypeOK
  <2>3. QED
    BY <2>1, <2>2 DEF FdInv
<1>2. QED
  BY <1>1, FdInit, FdStep, Inductive, PTL DEF Spec

\* Concurrent INITs leave one open descriptor per bus, the recorded one.
THEOREM OneFdPerBusAlways == Spec => []OneFdPerBus
<1>1. FdInv => OneFdPerBus
  BY DEF FdInv, OneFdPerBus
<1>2. QED
  BY <1>1, FdInit, FdStep, Inductive, PTL DEF Spec

-----------------------------------------------------------------------------
(* The daemon implements the bus arbiter: each of its steps is one of the arbiter *)
(* or cannot be seen by the arbiter's clients.                                     *)

\* The arbiter's clients lock one bus at a time.
OneAtATimeOnly == \A c \in Conn : OneAtATime(c)

USE DEF BA!vars

LEMMA MapInit == Init => BA!Init
  BY DEF Init, BA!Init

\* Steps that the clients of the arbiter cannot see.
LEMMA MapStutter == UNCHANGED <<mutex, dev, from>> => [BA!Next]_BA!vars
  OBVIOUS

\* A worker that leaves "recv" or a lock carries no data, so neither does its answer.
LEMMA FromUnchanged ==
  ASSUME IndInv, NEW c \in Conn, pc[c] # "reply", from' = [from EXCEPT ![c] = NoConn]
  PROVE  from' = from
  BY DEF IndInv, StageInv, TypeOK, DeviceOK

LEMMA MapWorker ==
  ASSUME IndInv, OneAtATimeOnly, NEW c \in Conn, Worker(c)
  PROVE  [BA!Next]_BA!vars
<1> USE DEF Received, Answer, OnlyAnswer, TakeFd, busVars, workerVars
<1>1. req[c].bus \in Bus /\ (req[c].cmd \in DeviceCmd => req[c].addr \in Addr)
  BY RequestAddr DEF IndInv, TypeOK, DeviceOK
<1>2. CASE RefuseInvalid(c) \/ RefuseUnopened(c) \/ RefuseRead(c) \/ HandleInit(c)
  <2>1. pc[c] # "reply" /\ from' = [from EXCEPT ![c] = NoConn] /\ UNCHANGED <<mutex, dev>>
    BY <1>2 DEF RefuseInvalid, RefuseUnopened, RefuseRead, HandleInit
  <2>2. QED
    BY <2>1, FromUnchanged, MapStutter
<1>3. CASE HandleWake(c) \/ HandleWrite(c) \/ HandleRead(c) \/ EndOfInput(c) \/ DropFrame(c) \/ Close(c)
  BY <1>3, MapStutter DEF HandleWake, HandleWrite, HandleRead, EndOfInput, DropFrame, Close
<1>4. CASE WakeLock(c) \/ WriteLock(c)
  <2>1. BA!Grant(c, req[c].bus)
    BY <1>4 DEF WakeLock, WriteLock, Lock, BA!Grant
  <2>2. QED
    BY <1>1, <2>1 DEF BA!Next
<1>5. CASE WakeXfer(c) \/ WriteXfer(c)
  <2>1. mutex[req[c].bus] = c
    BY <1>1, <1>5 DEF WakeXfer, WriteXfer, IndInv, LockInv
  <2>2. from' = from
    BY <1>5, FromUnchanged DEF WakeXfer, WriteXfer
  <2>3. /\ mutex' \in {mutex, [mutex EXCEPT ![req[c].bus] = NoConn]}
        /\ dev' \in {dev, [dev EXCEPT ![req[c].bus][req[c].addr] = c]}
    BY <1>5 DEF WakeXfer, WriteXfer, Unlock, MayReachDevice, ReachDevice
  <2>4. BA!Transmit(c, req[c].bus, req[c].addr)
    BY <2>1, <2>2, <2>3 DEF BA!Transmit
  <2>5. req[c].addr \in Addr
    BY <1>1, <1>5 DEF WakeXfer, WriteXfer, IndInv, StageInv, DeviceCmd
  <2>6. QED
    BY <1>1, <2>4, <2>5 DEF BA!Next
<1>6. CASE ReadXfer(c)
  <2>1. mutex[req[c].bus] = c /\ req[c].addr \in Addr /\ pc[c] # "reply"
    BY <1>1, <1>6 DEF ReadXfer, IndInv, LockInv, StageInv, DeviceCmd
  <2>2. CASE from' = [from EXCEPT ![c] = NoConn]
    BY <1>6, <2>1, <2>2, FromUnchanged, MapStutter DEF ReadXfer
  <2>3. CASE from' = [from EXCEPT ![c] = dev[req[c].bus][req[c].addr]]
    <3>1. BA!Read(c, req[c].bus, req[c].addr)
      BY <1>6, <2>1, <2>3 DEF ReadXfer, BA!Read
    <3>2. QED
      BY <1>1, <2>1, <3>1 DEF BA!Next
  <2>4. QED
    BY <1>6, <2>2, <2>3 DEF ReadXfer
<1>7. CASE HandleUnlock(c)
  <2>1. pc[c] # "reply" /\ from' = [from EXCEPT ![c] = NoConn] /\ dev' = dev
    BY <1>7 DEF HandleUnlock
  <2>2. from' = from
    BY <2>1, FromUnchanged
  <2>3. CASE holds[c] = NoBus
    BY <1>7, <2>1, <2>2, <2>3, MapStutter DEF HandleUnlock
  <2>4. CASE holds[c] # NoBus
    <3>1. holds[c] \in Bus /\ mutex[holds[c]] = c
      BY <2>4 DEF IndInv, TypeOK, DeviceOK, LockInv
    <3>2. BA!GiveBack(c, holds[c])
      BY <1>7, <2>1, <2>2, <2>4, <3>1 DEF HandleUnlock, Unlock, BA!GiveBack
    <3>3. QED
      BY <3>1, <3>2 DEF BA!Next
  <2>5. QED
    BY <2>3, <2>4
<1>8. CASE Reply(c)
  <2>1. BA!Deliver(c)
    BY <1>8 DEF Reply, BA!Deliver
  <2>2. QED
    BY <2>1 DEF BA!Next
<1>9. CASE Release(c)
  <2>1. \A b \in Bus : mutex[b] = c => holds[c] = b
    BY <1>9 DEF Release, IndInv, TrackInv, OneAtATimeOnly
  <2>2. CASE holds[c] = NoBus
    <3>1. mutex' = mutex
      BY <1>9, <2>1, <2>2 DEF Release, IndInv, TypeOK, DeviceOK
    <3>2. QED
      BY <1>9, <3>1, MapStutter DEF Release
  <2>3. CASE holds[c] # NoBus
    <3>1. holds[c] \in Bus /\ mutex[holds[c]] = c
      BY <2>3 DEF IndInv, TypeOK, DeviceOK, LockInv
    <3>2. mutex' = [mutex EXCEPT ![holds[c]] = NoConn]
      BY <1>9, <2>1, <3>1 DEF Release, IndInv, TypeOK, DeviceOK
    <3>3. BA!GiveBack(c, holds[c])
      BY <1>9, <3>1, <3>2 DEF Release, BA!GiveBack
    <3>4. QED
      BY <3>1, <3>3 DEF BA!Next
  <2>4. QED
    BY <2>2, <2>3
<1>10. CASE Post(c)
  <2>1. \A b \in Bus : mutex[b] # c
    BY <1>10 DEF Post, IndInv, LockInv, TrackInv, OneAtATimeOnly
  <2>2. BA!Forget(c)
    BY <1>10, <2>1 DEF Post, ForgetBytes, BA!Forget
  <2>3. QED
    BY <2>2 DEF BA!Next
<1>11. QED
  BY <1>2, <1>3, <1>4, <1>5, <1>6, <1>7, <1>8, <1>9, <1>10 DEF Worker

LEMMA MapStep == IndInv /\ OneAtATimeOnly /\ [Next]_vars => [BA!Next]_BA!vars
<1>1. SUFFICES ASSUME IndInv, OneAtATimeOnly, [Next]_vars PROVE [BA!Next]_BA!vars
  OBVIOUS
<1>2. CASE UNCHANGED vars
  BY <1>2, MapStutter DEF vars, busVars, workerVars
<1>3. CASE MainThread \/ Signal \/ \E c \in Conn : Client(c)
  BY <1>3, MapStutter DEF busVars, workerVars, MainThread, Accept, AcceptNoMemory, Admit,
     Reject, Create, CreateFails, StopAccepting, CloseBus, Exit, Signal, Client, Connect,
     ClientSend, Disconnect
<1>4. ASSUME NEW c \in Conn, Worker(c) PROVE [BA!Next]_BA!vars
  BY <1>1, <1>4, MapWorker
<1>5. QED
  BY <1>1, <1>2, <1>3, <1>4 DEF Next, Exited

\* With clients that lock one bus at a time, what the daemon shows its clients
\* is a bus arbiter: every bus has one owner, and comes back from it.
THEOREM DaemonImplementsArbiter ==
  ASSUME OneAtATimeOnly
  PROVE  Spec => Arbiter
<1>1. IndInv /\ [Next]_vars => [BA!Next]_BA!vars
  BY MapStep
<1>2. QED
  BY <1>1, MapInit, Inductive, PTL DEF Spec, Arbiter, BA!Spec
=============================================================================
