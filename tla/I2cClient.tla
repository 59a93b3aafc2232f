------------------------------ MODULE I2cClient ------------------------------
(***************************************************************************)
(* The client side of the I2C platform layer (stse_platform_i2c.c): what   *)
(* each thread of an application keeps in its thread-local variables, and  *)
(* the round trips it makes to se-daemon.  The daemon is here by its       *)
(* contract only (one owner per bus, see BusArbiter and SeDaemon), but it  *)
(* drops idle connections, stops and starts again, also between the        *)
(* execution of a request and its answer.                                  *)
(*                                                                         *)
(* The caller is STSELib, which is not part of the repository: a thread of *)
(* Documented calls in the order stse_ipc.h gives, any other thread in any *)
(* order.  A command is known by its thread and a serial number, and by    *)
(* the response length the device will announce for it.                    *)
(***************************************************************************)
EXTENDS Naturals

CONSTANTS
    Thread, Bus,
    BusOf,        \* the bus of the device a thread talks to
    Device,       \* its type, "A120" or "L010"
    Typed,        \* threads on which stse_platform_i2c_set_device_type() was called
    Documented,   \* threads whose caller follows stse_ipc.h
    Tidy,         \* those that call receive_stop() also after they gave up reading
    IgnoresPipe,  \* threads of an application that ignores SIGPIPE
    DaemonBus,    \* the bus of --bus, which the daemon opens by itself
    MaxFrame,     \* SE_PLAT_MAX_FRAME
    Word,         \* 2^16
    Frames,       \* lengths of the frames a caller sends
    Sizes,        \* sizes a caller passes besides
    Lens,         \* response lengths the device of a thread announces
    MaxPolls,     \* STSE_MAX_POLLING_RETRY
    Serials,      \* serial numbers are taken modulo Serials
    Nobody

ASSUME ThreadAssumption ==
    /\ BusOf \in [Thread -> Bus] /\ Device \in [Thread -> {"A120", "L010"}]
    /\ Documented \subseteq Thread /\ IgnoresPipe \subseteq Thread
    /\ Tidy \subseteq Thread /\ Typed \subseteq Thread /\ Nobody \notin Thread /\ DaemonBus \in Bus
\* A size is any number of 16 bits: the sum of an offset and a size may wrap.
ASSUME SizeAssumption ==
    /\ MaxFrame \in Nat /\ Word \in Nat /\ 2 * MaxFrame < Word
    /\ Sizes \subseteq 0 .. (Word - 1)
    /\ Frames \subseteq 0 .. MaxFrame /\ Lens \in [Thread -> SUBSET Nat]
    /\ MaxPolls \in Nat /\ Serials \in Nat \ {0}

VARIABLES
    \* the daemon and the devices, as its clients know them
    up,        \* the daemon runs
    opened,    \* buses it has opened
    owner,     \* who has the bus
    last,      \* the command that reached the device last
    \* thread-local variables of the library
    sock,      \* g_sock_fd: "none", "up", "stale" (the daemon closed its
               \* end), or "dead" (the process was killed when it wrote to that)
    flag,      \* g_expect_second_phase
    txSize, txOff, rxSize, rxOff,
    overrun,   \* history: threads that have copied past the end of a buffer
    rxOf,      \* the command the bytes in rx_buf answer
    \* the library call under way
    call,      \* its request and how far ipc_transact() is
    ans,       \* the answer of the daemon
    \* the caller
    step, polls, serial,
    want,      \* length of the whole response, once its header has been read
    reached    \* history: how often the frame being sent reached the device

daemonVars == <<up, opened, owner, last>>
txVars     == <<txSize, txOff, overrun>>
rxVars     == <<rxSize, rxOff, rxOf>>
callVars   == <<call, ans>>
callerVars == <<step, polls, serial, want>>
vars == <<daemonVars, sock, flag, txVars, rxVars, callVars, callerVars, reached>>

-----------------------------------------------------------------------------
Command == [by : Thread, serial : 0 .. Serials - 1, len : Nat]
NoCommand == [by |-> Nobody]
Stages == {"start", "sent", "answered"}
Requests == {"INIT", "WAKE", "WRITE", "READ", "UNLOCK"}
NoCall == [cmd |-> "none", size |-> 0, at |-> "start"]
NoAnswer == [ok |-> FALSE, of |-> NoCommand]

\* 16-bit unsigned addition.
Sum16(a, b) == (a + b) % Word

\* The header of a response is the part of it that holds its length: one byte
\* and the length on the STSAFE-A120, the length alone on the STSAFE-L010.
Header(t) == IF Device[t] = "L010" THEN 2 ELSE 3
\* What the first read of a response asks for; a second read asks for all of it.
Phase1(t) == IF Device[t] = "L010" THEN 2 ELSE 5
Total(t, len) == Header(t) + len

Init ==
    /\ up = TRUE /\ opened \in {{}, {DaemonBus}}
    /\ owner = [b \in Bus |-> Nobody] /\ last = [b \in Bus |-> NoCommand]
    /\ sock = [t \in Thread |-> "none"] /\ flag = [t \in Thread |-> FALSE]
    /\ txSize = [t \in Thread |-> 0] /\ txOff = [t \in Thread |-> 0]
    /\ rxSize = [t \in Thread |-> 0] /\ rxOff = [t \in Thread |-> 0]
    /\ rxOf = [t \in Thread |-> NoCommand] /\ overrun = {}
    /\ call = [t \in Thread |-> NoCall] /\ ans = [t \in Thread |-> NoAnswer]
    /\ step = [t \in Thread |-> "idle"] /\ polls = [t \in Thread |-> 0]
    /\ serial = [t \in Thread |-> 0] /\ want = [t \in Thread |-> 0]
    /\ reached = [t \in Thread |-> 0]

Set(f, t, v) == [f EXCEPT ![t] = v]

-----------------------------------------------------------------------------
(* The caller.  A documented one is at a step, a free one has none. *)

\* t may make its next call, and is at step `from' if it is a documented caller.
\* A thread that has overwritten its memory is not followed any further.
Calls(t, from) ==
    /\ call[t] = NoCall /\ sock[t] # "dead" /\ t \notin overrun
    /\ t \in Documented => step[t] = from
GoesTo(t, s) == step' = IF t \in Documented THEN Set(step, t, s) ELSE step

\* A caller reads on if the response does not fit in what it has read.
ReadsOn(t) == Total(t, rxOf[t].len) > Phase1(t)

\* The caller after a call: a failed read is tried again MaxPolls times.
AfterWrite(t, ok) ==
    /\ GoesTo(t, IF ok THEN "read" ELSE "idle")
    /\ polls' = Set(polls, t, 0) /\ UNCHANGED want
AfterRead(t, ok) ==
    LET giveUp == polls[t] + 1 >= MaxPolls
        again  == step[t]
    IN  /\ GoesTo(t, IF ok THEN (IF again = "read" THEN "got" ELSE "gotAll")
                     ELSE IF ~giveUp THEN again
                     ELSE IF t \in Tidy THEN "gaveUp" ELSE "idle")
        /\ polls' = Set(polls, t, IF ok \/ giveUp \/ t \notin Documented THEN 0 ELSE polls[t] + 1)
        /\ want' = Set(want, t, IF ~ok /\ giveUp THEN 0 ELSE want[t])

-----------------------------------------------------------------------------
(* ipc_transact(): one request and its answer. *)

Ask(t, cmd, size) == call' = Set(call, t, [cmd |-> cmd, size |-> size, at |-> "start"])
Done(t) == call' = Set(call, t, NoCall)

ClearRx(t) ==
    /\ rxSize' = Set(rxSize, t, 0) /\ rxOff' = Set(rxOff, t, 0)
    /\ rxOf' = Set(rxOf, t, NoCommand)

\* g_stse_device_type: what the library takes the device of a thread for.
TypeOf(t) == IF t \in Typed THEN Device[t] ELSE "A120"

\* The length found in bytes 1 and 2 of a response: its second and third byte
\* on the STSAFE-A120; on the STSAFE-L010 the low byte of the length is taken
\* for the high one, and the next byte, any, for the low one.
LengthAt1(t, len) == IF Device[t] = "A120" THEN len ELSE 256 * len

\* Faulty variant: a response of exactly the size read counts as incomplete.
Expects_OffByOne(t, n, len) ==
    IF TypeOf(t) # "L010" /\ n = 5 THEN 3 + LengthAt1(t, len) >= 5 ELSE n = 2 /\ len > 0

\* Is a second read expected after n bytes of a response of length len?
Expects(t, n, len) ==
    IF TypeOf(t) # "L010" /\ n = 5 THEN 3 + LengthAt1(t, len) > 5 ELSE n = 2 /\ len > 0

\* The library function that made the request returns, or goes on: after its
\* INIT request i2c_init() wakes an STSAFE-A120, and ignores the result.
FinishInit(t, ok) ==
    /\ IF ok /\ TypeOf(t) # "L010" THEN Ask(t, "WAKE", 0) ELSE Done(t)
    /\ UNCHANGED <<flag, rxVars, step, polls, want>>

FinishWake(t, ok) ==
    /\ Done(t)
    /\ UNCHANGED <<flag, rxVars, step, polls, want>>

FinishWrite(t, ok) ==
    /\ Done(t)
    /\ IF ok THEN ClearRx(t)
       ELSE UNCHANGED rxVars
    /\ AfterWrite(t, ok)
    /\ UNCHANGED flag

\* The bytes are cached, and the flag tells whether a second read follows; a
\* failed read leaves both as they were.
FinishRead(t, ok, of) ==
    /\ Done(t)
    /\ IF ok THEN /\ rxSize' = Set(rxSize, t, call[t].size) /\ rxOff' = Set(rxOff, t, 0)
                  /\ rxOf' = Set(rxOf, t, of)
                  /\ flag' = Set(flag, t, Expects(t, call[t].size, of.len))
       ELSE UNCHANGED <<rxVars, flag>>
    /\ AfterRead(t, ok)

\* receive_stop() ignores how its UNLOCK went.
FinishUnlock(t) ==
    /\ Done(t)
    /\ ClearRx(t)
    /\ UNCHANGED <<flag, step, polls, want>>

Finish(t, ok, of) ==
    /\ CASE call[t].cmd = "INIT"   -> FinishInit(t, ok)
         [] call[t].cmd = "WAKE"   -> FinishWake(t, ok)
         [] call[t].cmd = "WRITE"  -> FinishWrite(t, ok)
         [] call[t].cmd = "READ"   -> FinishRead(t, ok, of)
         [] call[t].cmd = "UNLOCK" -> FinishUnlock(t)
    /\ ans' = Set(ans, t, NoAnswer)
    /\ UNCHANGED <<daemonVars, txVars, serial, reached>>

\* Connect if there is no connection, then write the request.
Send(t) ==
    /\ call[t].cmd \in Requests /\ call[t].at = "start"
    /\ sock[t] = "up" \/ (sock[t] = "none" /\ up)
    /\ sock' = Set(sock, t, "up")
    /\ call' = [call EXCEPT ![t].at = "sent"]
    /\ UNCHANGED <<daemonVars, flag, txVars, rxVars, ans, callerVars, reached>>

CannotConnect(t) ==
    /\ call[t].cmd \in Requests /\ call[t].at = "start"
    /\ sock[t] = "none" /\ ~up
    /\ Finish(t, FALSE, NoCommand)
    /\ UNCHANGED sock

\* Faulty variant: the socket is closed, but g_sock_fd keeps its number.
Broken_KeepsNumber(t) ==
    /\ call[t].at # "answered" /\ call[t].cmd \in Requests /\ sock[t] = "stale"
    /\ t \in IgnoresPipe \/ call[t].at = "sent"
    /\ Finish(t, FALSE, NoCommand)
    /\ sock' = Set(sock, t, "closed")

\* The write fails, or the read finds the end of file: drop.
Broken(t) ==
    /\ call[t].at # "answered" /\ call[t].cmd \in Requests /\ sock[t] = "stale"
    /\ t \in IgnoresPipe \/ call[t].at = "sent"
    /\ Finish(t, FALSE, NoCommand)
    /\ sock' = Set(sock, t, "none")

\* The write raises SIGPIPE, whose default is to end the process, and what the
\* thread knew is gone.
KilledByPipe(t) ==
    /\ call[t].at = "start" /\ call[t].cmd \in Requests /\ sock[t] = "stale"
    /\ t \notin IgnoresPipe
    /\ sock' = Set(sock, t, "dead") /\ call' = Set(call, t, NoCall)
    /\ flag' = Set(flag, t, FALSE)
    /\ txSize' = Set(txSize, t, 0) /\ txOff' = Set(txOff, t, 0)
    /\ ClearRx(t)
    /\ GoesTo(t, "idle")
    /\ polls' = Set(polls, t, 0) /\ want' = Set(want, t, 0)
    /\ serial' = Set(serial, t, 0) /\ reached' = Set(reached, t, 0)
    /\ UNCHANGED <<daemonVars, ans, overrun>>

\* The answer is read, also from a connection that has been closed since.
Return(t) ==
    /\ call[t].at = "answered"
    /\ Finish(t, ans[t].ok, ans[t].of)
    /\ UNCHANGED sock

-----------------------------------------------------------------------------
(* The functions STSELib calls.  send_start(), send_continue() and          *)
(* receive_continue() are local; the others make requests.                  *)

I2cInit(t) ==
    /\ Calls(t, "idle")
    /\ Ask(t, "INIT", 0)
    /\ UNCHANGED <<daemonVars, sock, flag, txVars, rxVars, ans, callerVars, reached>>

I2cWake(t) ==
    /\ Calls(t, "idle")
    /\ Ask(t, "WAKE", 0)
    /\ UNCHANGED <<daemonVars, sock, flag, txVars, rxVars, ans, callerVars, reached>>

\* A frame, which is a new command, is announced.
SendStart(t, n) ==
    /\ Calls(t, "idle")
    /\ n <= MaxFrame
    /\ GoesTo(t, "fill")
    /\ txSize' = Set(txSize, t, n) /\ txOff' = Set(txOff, t, 0)
    /\ serial' = Set(serial, t, (serial[t] + 1) % Serials)
    /\ reached' = Set(reached, t, 0)
    /\ UNCHANGED <<daemonVars, sock, flag, overrun, rxVars, callVars, polls, want>>

\* Faulty variant: the check looks at the old offset only.
Fits_OldOffset(off, n, size) == n = 0 \/ off < size

\* The bound check of send_continue() and receive_continue(): the sum it compares
\* is one of 16 bits, so a size that makes it wrap passes.
Fits(off, n, size) == n = 0 \/ Sum16(off, n) <= size
Wraps(off, n) == off + n >= Word

SendContinue(t, n) ==
    /\ Calls(t, "fill") /\ Fits(txOff[t], n, txSize[t]) /\ ~Wraps(txOff[t], n)
    /\ txOff' = Set(txOff, t, txOff[t] + n)
    /\ UNCHANGED <<daemonVars, sock, flag, txSize, overrun, rxVars, callVars, callerVars, reached>>

\* The last bytes, and the WRITE of txSize bytes unless malloc() fails.
SendStop(t, n) ==
    /\ Calls(t, "fill")
    /\ \/ /\ Fits(txOff[t], n, txSize[t]) /\ ~Wraps(txOff[t], n)
          /\ txOff' = Set(txOff, t, txOff[t] + n)
          /\ \/ Ask(t, "WRITE", txSize[t]) /\ UNCHANGED step
             \/ GoesTo(t, "idle") /\ UNCHANGED call
       \/ /\ ~Fits(txOff[t], n, txSize[t])
          /\ UNCHANGED <<txOff, call>> /\ GoesTo(t, "idle")
    /\ UNCHANGED <<daemonVars, sock, flag, txSize, overrun, rxVars, ans, polls, serial, want, reached>>

\* A copy of n bytes, in send_continue(), send_stop(), receive_continue() or
\* receive_stop(), whose check passes because the sum wraps: n is then more than
\* the whole buffer, and what the thread does afterwards is undefined.
Overrun(t, n) ==
    /\ \/ Calls(t, "fill") /\ Fits(txOff[t], n, txSize[t]) /\ Wraps(txOff[t], n)
       \/ /\ Calls(t, step[t]) /\ (t \in Documented => step[t] \in {"got", "gotAll", "gaveUp"})
          /\ Fits(rxOff[t], n, rxSize[t]) /\ Wraps(rxOff[t], n)
    /\ n # 0
    /\ overrun' = overrun \cup {t}
    /\ UNCHANGED <<daemonVars, sock, flag, txSize, txOff, rxVars, callVars, callerVars, reached>>

\* The READ of n bytes, unless malloc() fails.
ReceiveStart(t, n) ==
    /\ Calls(t, step[t]) /\ (t \in Documented => step[t] \in {"read", "readAll"})
    /\ \/ Ask(t, "READ", n) /\ UNCHANGED <<step, polls, want>>
       \/ AfterRead(t, FALSE) /\ UNCHANGED call
    /\ UNCHANGED <<daemonVars, sock, flag, txVars, rxVars, ans, serial, reached>>

\* Bytes that are only discarded are not copied, so the offset may wrap.
ReceiveContinue(t, n) ==
    /\ Calls(t, step[t]) /\ (t \in Documented => step[t] \in {"got", "gotAll"})
    /\ Fits(rxOff[t], n, rxSize[t])
    /\ rxOff' = Set(rxOff, t, Sum16(rxOff[t], n))
    /\ UNCHANGED <<daemonVars, sock, flag, txVars, rxSize, rxOf, callVars, callerVars, reached>>

\* The last n bytes, copied or refused; then an UNLOCK, or the flag is reset.
ReceiveStop(t, n) ==
    /\ Calls(t, step[t])
    /\ t \in Documented => step[t] \in {"got", "gotAll"} \/ (step[t] = "gaveUp" /\ n = 0)
    /\ IF step[t] = "got" /\ ReadsOn(t)
       THEN GoesTo(t, "readAll") /\ want' = Set(want, t, Total(t, rxOf[t].len))
       ELSE GoesTo(t, "idle") /\ want' = Set(want, t, 0)
    /\ IF flag[t]
       THEN flag' = Set(flag, t, FALSE) /\ ClearRx(t) /\ UNCHANGED call
       ELSE Ask(t, "UNLOCK", 0) /\ UNCHANGED <<flag, rxVars>>
    /\ UNCHANGED <<daemonVars, sock, txVars, ans, polls, serial, reached>>

\* What a caller passes.  A documented one fills the frame it has announced and
\* consumes the response it has read, and reads in one or two phases.  A call that
\* copies does so within its buffer, or past it.
LibraryCall(t) ==
    LET free == t \notin Documented IN
    \/ I2cInit(t) \/ I2cWake(t)
    \/ \E n \in Frames \cup (IF free THEN Sizes ELSE {}) : SendStart(t, n)
    \/ \E n \in Sizes :
          /\ free \/ txOff[t] + n <= txSize[t]
          /\ SendContinue(t, n) \/ Overrun(t, n)
    \/ \E n \in IF free THEN Sizes ELSE {txSize[t] - txOff[t]} : SendStop(t, n) \/ Overrun(t, n)
    \/ \E n \in IF free THEN Sizes ELSE
                IF step[t] = "read" THEN {Phase1(t)} ELSE {want[t]} :
          ReceiveStart(t, n)
    \/ \E n \in Sizes :
          /\ free \/ rxOff[t] + n <= rxSize[t]
          /\ ReceiveContinue(t, n) \/ Overrun(t, n)
    \/ \E n \in IF free THEN Sizes ELSE {rxSize[t] - rxOff[t]} : ReceiveStop(t, n) \/ Overrun(t, n)

-----------------------------------------------------------------------------
(* The daemon: requests on open connections, in any order of the threads. *)

Answer(t, ok, of) ==
    /\ ans' = Set(ans, t, [ok |-> ok, of |-> of])
    /\ call' = [call EXCEPT ![t].at = "answered"]
    /\ UNCHANGED <<up, sock, flag, txVars, rxVars, callerVars>>

\* The worker of t has read a request; buses it has not opened it refuses.
Receives(t, cmd) == up /\ sock[t] = "up" /\ call[t].at = "sent" /\ call[t].cmd = cmd

\* Faulty variant: a request for a bus that is not open gets no answer.
Refuse_Silent(t) ==
    /\ \/ Receives(t, "WRITE") /\ call[t].size > MaxFrame
       \/ /\ Receives(t, "READ")
          /\ \/ owner[BusOf[t]] # t
             \/ call[t].size = 0 \/ call[t].size > MaxFrame
    /\ Answer(t, FALSE, NoCommand)
    /\ UNCHANGED <<opened, owner, last, reached>>

Refuse(t) ==
    /\ \/ \E cmd \in {"WAKE", "WRITE"} : Receives(t, cmd) /\ BusOf[t] \notin opened
       \/ Receives(t, "WRITE") /\ call[t].size > MaxFrame
       \/ /\ Receives(t, "READ")
          /\ \/ owner[BusOf[t]] # t
             \/ call[t].size = 0 \/ call[t].size > MaxFrame
    /\ Answer(t, FALSE, NoCommand)
    /\ UNCHANGED <<opened, owner, last, reached>>

ServeInit(t) ==
    /\ Receives(t, "INIT")
    /\ \/ Answer(t, TRUE, NoCommand) /\ opened' = opened \cup {BusOf[t]}
       \/ BusOf[t] \notin opened /\ Answer(t, FALSE, NoCommand) /\ UNCHANGED opened
    /\ UNCHANGED <<owner, last, reached>>

\* A wake waits for the bus, and may make the device forget its response.
ServeWake(t) ==
    LET b == BusOf[t] IN
    /\ Receives(t, "WAKE") /\ b \in opened /\ owner[b] = Nobody
    /\ last' \in {last, Set(last, b, NoCommand)}
    /\ Answer(t, TRUE, NoCommand)
    /\ UNCHANGED <<opened, owner, reached>>

\* Executions are counted up to 2.
Count(n) == IF n > 2 THEN 2 ELSE n

\* Faulty variant: the request is executed once more after an error.
ServeWrite_Twice(t) ==
    LET b == BusOf[t] IN
    /\ Receives(t, "WRITE") /\ b \in opened /\ owner[b] \in {Nobody, t}
    /\ call[t].size <= MaxFrame
    /\ \E len \in Lens[t] :
          LET command == [by |-> t, serial |-> serial[t], len |-> len] IN
          /\ owner' = Set(owner, b, t) /\ last' = Set(last, b, command)
          /\ \E n \in {1, 2} : reached' = Set(reached, t, Count(reached[t] + n))
          /\ Answer(t, TRUE, NoCommand)
    /\ UNCHANGED opened

\* A write waits for the bus and keeps it; one that fails gives it back, and
\* may have reached the device or not.
ServeWrite(t) ==
    LET b == BusOf[t] IN
    /\ Receives(t, "WRITE") /\ b \in opened /\ owner[b] \in {Nobody, t}
    /\ call[t].size <= MaxFrame
    /\ \/ \E len \in Lens[t] :
             /\ last' = Set(last, b, [by |-> t, serial |-> serial[t], len |-> len])
             /\ reached' = Set(reached, t, Count(reached[t] + 1))
             /\ \/ owner' = Set(owner, b, t) /\ Answer(t, TRUE, NoCommand)
                \/ owner' = Set(owner, b, Nobody) /\ Answer(t, FALSE, NoCommand)
       \/ /\ owner' = Set(owner, b, Nobody) /\ Answer(t, FALSE, NoCommand)
          /\ UNCHANGED <<last, reached>>
    /\ UNCHANGED opened

\* Faulty variant: whoever has the bus.
ServeRead_AnyOwner(t) ==
    /\ Receives(t, "READ")
    /\ call[t].size \in 1 .. MaxFrame /\ last[BusOf[t]] # NoCommand
    /\ Answer(t, TRUE, last[BusOf[t]])
    /\ UNCHANGED <<opened, owner, last, reached>>

\* The owner of the bus gets the bytes asked for, if the device is ready.
ServeRead(t) ==
    /\ Receives(t, "READ") /\ owner[BusOf[t]] = t
    /\ call[t].size \in 1 .. MaxFrame
    /\ \/ Answer(t, TRUE, last[BusOf[t]])
       \/ Answer(t, FALSE, NoCommand)
    /\ UNCHANGED <<opened, owner, last, reached>>

Released(t) == [b \in Bus |-> IF owner[b] = t THEN Nobody ELSE owner[b]]

ServeUnlock(t) ==
    /\ Receives(t, "UNLOCK")
    /\ owner' = Released(t)
    /\ Answer(t, TRUE, NoCommand)
    /\ UNCHANGED <<opened, last, reached>>

Serve(t) ==
    \/ Refuse(t) \/ ServeInit(t) \/ ServeWake(t) \/ ServeWrite(t) \/ ServeRead(t)
    \/ ServeUnlock(t)

\* Faulty variant: the worker ends and leaves the bus locked.
Drop_KeepsBus(t) ==
    /\ sock[t] = "up" /\ call[t].at # "answered"
    /\ sock' = Set(sock, t, "stale")
    /\ UNCHANGED <<up, opened, owner, last, flag, txVars, rxVars, callVars, callerVars, reached>>

\* The worker of t ends, releases the bus and closes the connection, because
\* nothing came for 5 s, or before it has read what has been sent: the timeout
\* came first, the limit of connections was reached, or there was no memory.
Drop(t) ==
    /\ sock[t] = "up" /\ call[t].at # "answered"
    /\ sock' = Set(sock, t, "stale")
    /\ owner' = Released(t)
    /\ UNCHANGED <<up, opened, last, flag, txVars, rxVars, callVars, callerVars, reached>>

\* The daemon stops at any moment: what it has executed but not answered yet
\* stays unanswered, the bus mutexes are gone and the devices keep their state.
DaemonStops ==
    /\ up
    /\ up' = FALSE /\ opened' = {} /\ owner' = [b \in Bus |-> Nobody]
    /\ sock' = [t \in Thread |-> IF sock[t] = "up" THEN "stale" ELSE sock[t]]
    /\ \E lost \in SUBSET {t \in Thread : call[t].at = "answered" /\ sock[t] = "up"} :
          /\ call' = [t \in Thread |-> IF t \in lost THEN [call[t] EXCEPT !.at = "sent"] ELSE call[t]]
          /\ ans' = [t \in Thread |-> IF t \in lost THEN NoAnswer ELSE ans[t]]
    /\ UNCHANGED <<last, flag, txVars, rxVars, callerVars, reached>>

\* systemd or an administrator starts it again; --bus may not open.
DaemonStarts ==
    /\ ~up
    /\ up' = TRUE /\ opened' \in {{}, {DaemonBus}}
    /\ UNCHANGED <<owner, last, sock, flag, txVars, rxVars, callVars, callerVars, reached>>

-----------------------------------------------------------------------------
Library(t) == Send(t) \/ CannotConnect(t) \/ Broken(t) \/ KilledByPipe(t) \/ Return(t)

Next ==
    \/ \E t \in Thread : LibraryCall(t) \/ Library(t) \/ Serve(t) \/ Drop(t)
    \/ DaemonStops \/ DaemonStarts

Spec == Init /\ [][Next]_vars

\* The threads of the library and of the daemon run; a connection on which
\* nothing is sent times out.  Callers, waiting for a mutex, and the daemon's
\* stops and starts are left free.
Fairness ==
    \A t \in Thread :
        /\ WF_vars(Library(t)) /\ WF_vars(Serve(t))
        /\ WF_vars(Drop(t) /\ call[t].at # "sent")

\* Besides, a device polled again and again answers some time.
DeviceAnswers == \A t \in Thread : SF_vars(ServeRead(t) /\ ans'[t].ok)

FairSpec == Spec /\ Fairness /\ DeviceAnswers

-----------------------------------------------------------------------------
(* Properties. *)

\* Every variable has its type.
TypeOK ==
    /\ up \in BOOLEAN /\ opened \subseteq Bus
    /\ owner \in [Bus -> Thread \cup {Nobody}] /\ last \in [Bus -> Command \cup {NoCommand}]
    /\ sock \in [Thread -> {"none", "up", "stale", "dead"}] /\ flag \in [Thread -> BOOLEAN]
    /\ txSize \in [Thread -> Nat] /\ txOff \in [Thread -> Nat] /\ overrun \subseteq Thread
    /\ rxSize \in [Thread -> Nat] /\ rxOff \in [Thread -> Nat]
    /\ rxOf \in [Thread -> Command \cup {NoCommand}]
    /\ call \in [Thread -> [cmd : Requests \cup {"none"}, size : Nat, at : Stages]]
    /\ ans \in [Thread -> [ok : BOOLEAN, of : Command \cup {NoCommand}]]
    /\ step \in [Thread -> {"idle", "fill", "read", "got", "readAll", "gotAll", "gaveUp"}]
    /\ polls \in [Thread -> Nat] /\ serial \in [Thread -> 0 .. Serials - 1]
    /\ want \in [Thread -> Nat] /\ reached \in [Thread -> 0 .. 2]

\* Whatever sizes of 16 bits a caller passes, in whatever order, the offsets of
\* both buffers stay within the part in use, and that within the buffer.  The
\* copies do not: a size that makes the 16-bit sum wrap is not refused, and its
\* copy leaves the buffer.  But no documented caller ever makes one, and it takes
\* a size above 65535 - SE_PLAT_MAX_FRAME to make one.
BuffersInBounds ==
    /\ \A t \in Thread : /\ txOff[t] <= txSize[t] /\ txSize[t] <= MaxFrame
                         /\ rxOff[t] <= rxSize[t] /\ rxSize[t] <= MaxFrame
    /\ overrun # {} => \E n \in Sizes : n + MaxFrame >= Word
    /\ overrun \cap Documented = {}

\* The bytes a caller gets from rx_buf answer the last frame this thread has
\* started to send, also after lost answers, reconnections, a restart of the
\* daemon, and commands of other threads on the same bus.
OwnAnswer ==
    \A t \in Documented : rxSize[t] > 0 =>
        rxOf[t] # NoCommand /\ rxOf[t].by = t /\ rxOf[t].serial = serial[t]

\* A thread whose connection is gone has no bus: it can reconnect and send, or
\* be killed by SIGPIPE, without keeping the others out.
NoBusWithoutConnection ==
    \A b \in Bus : owner[b] # Nobody => up /\ sock[owner[b]] = "up"

\* send_stop() executes a frame at most once, and if it returns success exactly
\* once: only the caller repeats a command, and only after an error.
ExecutedOnce ==
    \A t \in Documented :
        /\ reached[t] <= 1
        /\ step[t] \in {"read", "got", "readAll", "gotAll"} => reached[t] = 1

\* receive_stop() unlocks the bus if and only if no second read follows: a caller
\* that has all of its response, or gave up reading it, leaves an UNLOCK under way,
\* and one that has read the first phase keeps the bus for the second.
LastStopUnlocks ==
    [][\A t \in Documented :
          step[t] \in {"got", "gotAll", "gaveUp"} /\ step'[t] # step[t] =>
              (step'[t] = "idle" <=> call'[t].cmd = "UNLOCK")]_vars

\* What an untidy caller can do after it gave up reading without receive_stop():
\* its worker receives the first request of another transaction while the bus is
\* still its own.  If that is a WAKE, the worker waits for the mutex it has.
BeginsAgain(t, cmds) ==
    t \notin Tidy /\ owner[BusOf[t]] = t /\ \E cmd \in cmds : Receives(t, cmd)

\* A bus does not stay with a documented caller that calls receive_stop() after it
\* gave up, whatever fails.  One that does not call it loses the bus too, by the
\* timeout of its connection, unless it begins another transaction first.
HeldBusComesBack ==
    \A t \in Documented, b \in Bus :
        owner[b] = t ~> owner[b] # t \/ BeginsAgain(t, {"INIT", "WAKE", "WRITE"})

\* A call that never returns waits for a bus that other threads have again and
\* again, or keep; or its caller is untidy, and it is the wake of i2c_init() or
\* i2c_wake() that waits for ever for the bus its own thread has kept.  Nothing
\* else makes a thread hang, in the library or the daemon.
HangsOnlyForBus ==
    \A t \in Documented :
        <>[](call[t] # NoCall) => \/ []<>(owner[BusOf[t]] \notin {t, Nobody})
                                 \/ <>[]BeginsAgain(t, {"WAKE"})
=============================================================================
