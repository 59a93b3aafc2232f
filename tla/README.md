# TLA+ specifications of stse-linux

TLA+ models of the STSAFE middleware for Linux: the daemon that shares the I2C
buses, the client side of the platform layer, its algorithms, the two OpenSSL
providers and the demonstration that uses threads. They are checked with TLC;
every safety property the passing runs check is also proved with TLAPS, under the
assumptions section 4 names; liveness is model-checked. Paths are relative to the
repository.

## 1. The system

| Part | Files | State | Operations |
|---|---|---|---|
| se-daemon | `daemon/se_daemon.c`, `daemon/se-daemon.service` | bus descriptors `g_i2c_fds`, one mutex per bus, slot semaphore `g_conn_sem`, `g_running`, per connection `conn_t` | accept loop, worker per connection, INIT / WAKE / WRITE / READ / UNLOCK, clean-up, signal, shutdown; restarted by systemd |
| IPC protocol | `lib/STSELib_Platform/stse_ipc.h` | none | header, five commands, status |
| client I2C layer | `lib/STSELib_Platform/stse_platform_i2c.c` | per thread: socket, phase flag, device type, tx and rx frame buffers | connect on demand, one request at a time, `send_*`, `receive_*`, drop on error |
| CMAC, ciphers | `stse_platform_aes.c` | CMAC context and tag length per thread | init / append / two finishing functions; one-shot CMAC, CBC, ECB |
| ECC, hash, HKDF | `stse_platform_ecc.c`, `stse_platform_hash.c` | none between calls | key pairs, signatures, verification, ECDH, digests, HMAC, expansion |
| CRC, delay, timeout | `stse_platform_crc.c`, `stse_platform_delay.c` | register and deadline per thread | calculate / accumulate; start / has elapsed |
| random, power, ST1-Wire, crypto init, configuration | the rest of `STSELib_Platform` | none | one call, empty functions or stubs |
| provider stsafea | `providers/stsafea_provider.c` | provider context with one device handler, keys, generation and signature contexts | lazy device initialisation, import, export, generate, parameters, digest-sign, digest-verify |
| provider stsafel | `providers/stsafel_provider.c` | the same, plus a software key per signature context | sign 16-byte challenges in hardware, verify in software |
| GTK demonstration | `examples/stsafe-a120/06_GTK_Authentication_Demo/main.c` | application state shared by main loop and worker | click, worker, idle callback |
| other examples | `examples/` | none of their own | sequential uses of STSELib |
| STSELib, OpenSSL, GTK, i2c-dev | not in the repository | | external |

Applications link a provider or STSELib; these call the client I2C layer; each
client thread has its own connection to the daemon; the daemon is the only
process that opens `/dev/i2c-N`. Connections interact through the bus mutexes,
the table of descriptors and the slots, and through the device itself, which
answers to whoever wrote last. OpenSSL calls a provider from any thread of its
application, and all keys of a provider share one handler. The algorithm files
of the platform layer share nothing with each other.

What is hard here, and what makes each part correct:

* **daemon** - threads that wait for a mutex with state read before the wait;
  clients that die, fall silent or send things in another order at any moment;
  failures half-way through a handler; slots at their limit; shutdown under
  load. Correct: transfers on a bus exclude each other, a READ of the device a
  client wrote to returns the answer to its own command, locks and slots always
  come back.
* **client layer** - a socket the daemon may have closed, SIGPIPE, a flag that
  decides whether UNLOCK is sent, 16-bit buffer offsets, commands executed whose
  answer is lost, a daemon that restarts. Correct: bytes read answer the last
  frame sent, a frame reaches the device at most once, the last `receive_stop`
  unlocks, offsets stay in the frames.
* **providers** - a handler shared by threads, parameters of several types and
  ranges, partial imports, a key pair replaced although its answer is lost,
  contexts initialised again or duplicated half-way. Correct: a command goes to
  the device its key names, what is signed is what was asked last, objects are
  freed once.
* **platform algorithms** - contexts kept between calls that fail, counters of 8
  and 16 bits, carries, error paths with a dozen exits. Correct: equal to their
  reference definitions, nothing lost or freed twice.
* **demonstration** - state shared by two threads, mostly without the mutex.
  Correct: the window shows the verdict of the device asked last, and the button
  comes back.

`PROJECT.json` lists the hazards line by line, and the properties about each.

## 2. Modules

| Module | Content |
|---|---|
| `BusArbiter` | abstract specification: what a client may rely on |
| `SeDaemon` | the daemon: main thread, workers, descriptors, mutexes, clients as environment; its properties |
| `MCSeDaemon` | values of the constants for TLC |
| `SeDaemonProofs` | TLAPS: safety of the daemon; it implements `BusArbiter` |
| `I2cClient` | the client I2C layer, its caller, and the daemon by its contract |
| `I2cClientProofs` | TLAPS: safety of the client |
| `MCI2cClient`, `MCI2cClientMix` | values for TLC; two documented threads or one free thread |
| `ProviderContext`, `ProviderContextProofs` | the handler threads share, and its proofs |
| `StsafeaKeys`, `StsafeaSignature` | keys and signature contexts of the STSAFE-A120 provider |
| `StsafelProvider` | keys and signature contexts of the STSAFE-L010 provider |
| `StsafeaKeysProofs`, `StsafeaSignatureProofs`, `StsafelProviderProofs` | TLAPS: their invariants |
| `Providers` | the provider modules as parts of one specification, and their properties |
| `ProvidersProofs` | TLAPS: the properties of `Providers` |
| `MCProviders` | values for TLC of the constants of `Providers` |
| `SignatureFormat` | raw and DER forms of signatures, sizes of coordinates |
| `CryptoCalls` | what eighteen functions allocate and free, on all paths |
| `CmacContext` | the incremental CMAC |
| `PlatformHkdf` | the expansion loop |
| `PlatformCrc`, `PlatformTimeout` | the CRC against its polynomial; deadlines |
| `GtkDemo` | main loop and worker of the demonstration |
| `Platform` | the platform modules and the demonstration as parts of one specification, and their properties |
| `PlatformProofs` | TLAPS: the properties of `Platform` |
| `MCPlatform` | values for TLC of the constants of `Platform` |

The modules are named after their files or after the part of a file they model;
actions keep the names of functions where these are short.

### SeDaemon

A member `c` of `Conn` is a connection with its client and its worker thread.
Variables and code: `main` and `cur` are the position of the main thread and
the descriptor `accept()` returned; `sem`, `running`, `busFd`, `mutex` are
`g_conn_sem`, `g_running`, `g_i2c_fds`, `g_i2c_mutexes`; `holds[c]` is
`conn_t.holds_mutex_bus`; `fd[c]` the copy `get_bus_fd()` gave the running
handler; `pc[c]` the worker's position; `req[c]` the request in the socket or
the handler, with its bus and its `dev_addr`. `fdBus` says what an open descriptor
refers to, `dev[b][a]` whose bytes reached the device at address `a` of bus `b`
last. Two variables are history only: `leaked` counts slots lost to a failed
`pthread_create`, `wrote[c]` has the addresses the connection has written to since
it has its bus. The daemon takes a lock for a bus, and passes `dev_addr` on without
comparing it with anything: a WRITE reaches, and a READ reads, whichever device of
the bus the client names.

Atomicity. A handler is cut at every point another thread can observe: before
the mutex (after the descriptor was copied), before the transfer, before the
answer. Sections under `g_init_mutex` are one step, since nothing else blocks
inside them. The clean-up of a worker has three steps (unlock, close, post).
The shutdown loop closes one bus per step, in any order.

Failures the model includes: `open`, transfers, `malloc`, `calloc`, `realloc`
and `pthread_create` fail at will; a failed transfer may have reached the device
or not (so may a wake, whose result is ignored); clients disconnect at any
moment, also with a request in the socket or in the handler; the 5 s timeout
fires whenever a worker has nothing to read; frames are malformed (`"BAD"`) or
refused (`"INVALID"`: short, bus out of range, lengths out of bounds).

Clients. `ClientSend` lets a client send anything, to any address, on the buses
`BusOf[c]`. Clients in `Documented` follow `stse_ipc.h`: WRITE, then READs of the
device they wrote to (at most `MaxPolls`), then UNLOCK, everything else outside a
transaction. A client has one request outstanding, as `ipc_transact` does; it
infers whether it has the lock from the answers, and `ReplyTellsLock` shows that it
may. What a client writes before its worker runs waits in the socket: the model
sends it once the worker receives.

`OwnReply` says what a READ brings. Where the client has written since it has the
bus, its own answer: no command and no wake of anybody came between. At another
address of the bus, the answer to whatever reached that device last - TLC finds
such a READ that returns what another client asked, and left there, when its
transaction was over - but never to a command whose sender still has the bus.

Abstractions: the payload is the identity of its sender; the backlog is a set; the
signal is
taken by the main thread, as Linux does while that thread does not block it, so
that `accept()` returns; locks of the C library and tracing are left out. An
exited process keeps its last state.

### BusArbiter

Owner per bus, last writer per bus and address, data on their way per client: a
bus has one owner, only the owner's bytes reach its devices, data read are the
answer of the device at the address the owner names, and only the owner, or its
end, gives the bus back. `SeDaemon` maps `owner <- mutex`,
`last <- dev`, `answer <- from`; slots, sockets, threads and descriptors are
invisible. A mutex that is lost has no counterpart: the refinement holds for
clients that lock one bus at a time, and `doc_cleanup` shows why it needs that.

### I2cClient

Variables and code, per thread `t`: `sock` is `g_sock_fd` with what became of
the other end ("up", "stale" after the daemon closed it, "dead" after SIGPIPE
ended the process), `flag` is `g_expect_second_phase`, `txSize`, `txOff`,
`rxSize`, `rxOff` the sizes and offsets of the frame buffers, `rxOf` the command
whose answer is in `rx_buf`, `call` the request of the function under way and
how far `ipc_transact()` is (to be written, sent, answered), `ans` its answer.
`step`, `polls`, `serial` and `want` are the caller's. `up`, `opened`, `owner`
and `last` are the daemon and the devices. History: `reached` counts how often the
frame being sent reached the device, `overrun` has the threads that have copied
past the end of a frame buffer.

One action per library function that STSELib calls (`I2cInit` to
`ReceiveStop`), `Send`, `CannotConnect`, `Broken`, `KilledByPipe` and `Return`
for the exits of `ipc_transact()`, and the `Finish...` operators for what each
function does with the result, on success and failure. `Serve...` and `Refuse`
are the daemon by its contract; `Drop`, `DaemonStops` and `DaemonStarts` its
timeouts, stops and starts, which may fall between the execution of a request
and its answer.

STSELib is not in the repository. A thread of `Documented` calls in the order
`stse_ipc.h` gives: a frame, then a read in one phase or, if the length in the
header says so, in two, polled `MaxPolls` times; `Tidy` threads call
`receive_stop` also after they gave up, the others do not; any other thread
calls anything with any size of 16 bits. `Fits` is the test of the code, a sum cast
to 16 bits. A size that makes it wrap (`Wraps`) is not refused: `Overrun` is the copy
that follows, and a thread that has made it does nothing more, since what it
overwrites is undefined. The L010 branch, whose length is read at a wrong
place for its type when the type was not set, is in `Expects` and `LengthAt1`.
Abstractions: a command is known by its thread and serial number and the length
the device will announce; a frame's bytes are its length; one transfer is one
step.

### Providers

`ProviderContext` cuts `provctx_ensure_init()` at each of its reads and stores of the
shared context: the check of flag and bus, that of address and type, the default
values, type and bus, address, `stse_init()`, then `active_bus_id`,
`active_dev_addr` and `initialized`; the command is a step of its own. The code has
no lock, and the model has none. `Exclusion` = "never" lets every thread step at any
time; "first", which only the part with one device uses, is an application that
makes one call at a time until one has succeeded. Two history variables name the
cases in which the code cannot be right: `mixed`, the last opening began during one
of another thread, and `kept`, the threads whose check or opening ended with no
other thread at opening, since when none has begun to. Memory is sequentially
consistent here and stores happen in the order of the source.

`StsafeaKeys` has one action per function of the key manager, with parameters as
partial functions from names to values, `Bad` for a value of the wrong type, and
the numbers cut to the width of the field they are stored in; `pairs` are the
key pairs in the devices. A generation whose answer is lost replaces the pair and
fails. `StsafeaSignature` has the digest-sign and digest-verify functions with
the digest contexts they allocate, borrow and free; `StsafelProvider` has both
for the STSAFE-L010, where verification makes OpenSSL objects that a signature
context owns. `Careful` callers stop using a context after an error; careless
ones call anything, and only the properties about memory are asked of them.

### Platform layer and demonstration

`CmacContext` has init, append and both finishing functions of each thread,
every OpenSSL call may fail; a tag is the key and the blocks it is over.
`PlatformHkdf` is the loop of the expansion with its 8-bit counter and 16-bit
index; a block of the output is the number of the T(i) it comes from and a
count of bytes. `PlatformCrc` has the register of each thread and the loop of both
functions, a byte a step; registers and bytes are sets of bits, and the reference
divides the whole frame by the polynomial, bit by bit. `PlatformTimeout` compares a deadline of seconds and a
fraction with the clock; `due` is when it should elapse. `SignatureFormat` keeps
of a number its length in bits, which is what padding, sign bytes and sizes
depend on. `CryptoCalls` represents a function by its steps: what each
allocates, whether it can fail, and what the branch of the failure or the label
of its `goto` frees. `GtkDemo` has the main loop's click, idle callback and
quit, and the worker cut where it takes the mutex and where it does not.

`Providers` and `Platform` bundle modules that share no state: `part` names
the module a behaviour is about, whose variables are those of the module or the
slots `v1`, `v2`, ...; everything else stays as it was. Each property is the
conjunction of what the parts say about the same thing. The constants of a part
are the fields of one record, which `MCProviders` and `MCPlatform` give values.

Definitions named `X_...` and introduced as faulty variants are plausible errors
in `X`; they are used by nothing and serve to test that the properties can fail.

## 3. Runs

Run with `tlc -config <run>.cfg <module>.tla`.

| Run | Module | Instance | Shows |
|---|---|---|---|
| `free_clients` | `MCSeDaemon` | 3 unrestricted clients, 1 bus with 2 devices, 2 slots, symmetry | types, inductive invariant, exclusive transfers, whose answers a READ brings, truthful answers, no lost mutex, slot accounting, refinement of `BusArbiter` |
| `two_buses` | `MCSeDaemon` | a documented and an unrestricted client, both of 2 buses with a device each | descriptors opened once and fresh until shutdown, only the holder reaches a device, no hold-and-wait |
| `documented_live` | `MCSeDaemon` | 2 documented clients, 1 bus, 2 READs at most, fairness | held buses are released, everything drains when clients leave, a signal ends the process |
| `client` | `MCI2cClientMix` | 2 documented threads, or 1 free thread, 1 bus | own answers, no bus without its connection, frames executed once, offsets in the frames and no copy past them but with a size that wraps, the last stop unlocks |
| `client_live` | `MCI2cClient` | 2 documented threads, one that stops after giving up and one that does not, fairness | a held bus comes back, a call hangs only for a bus others take or keep; the untidy caller's own hang is the exception both name |
| `providers` | `MCProviders` | 8 parts, one per behaviour | when commands go to the device of their key, in all interleavings; keys imported, exported, generated as asked; signatures of what was asked; memory of contexts |
| `platform` | `MCPlatform` | 7 parts, one per behaviour | CMAC, HKDF, CRC, timeouts and signature forms against their definitions; memory on all error paths; the demonstration |
| `doc_slots`, `doc_cleanup`, `doc_disconnect`, `doc_snapshot` | `MCSeDaemon` | the smallest instances | statements of comments and of the header that the daemon does not keep |
| `doc_unlock_l010` | `MCI2cClient` | a thread whose type was not set | a comment the client layer does not keep |

### Bounds

*Daemon.* Three clients let one hold the bus, one wait and one come, go or be
refused (two slots), and two addresses let a client read another device than it
wrote to; two buses and two descriptors let a number be closed and
reused and locks be taken in opposite orders. One READ is enough for safety,
since a second READ starts from the same state; two for liveness, so that a
transaction can go on after a first answer.

*Client.* Two threads on one bus compete for it, one with an STSAFE-A120 (two
phases) and one with an STSAFE-L010, one whose process ignores SIGPIPE and one
whose process does not, one that calls `receive_stop` after it gave up and one
that does not. The response lengths 2 and 3 lie on both sides of the first read.
`Word` = 32 stands for 2^16 and `MaxFrame` = 8 for 755: size 0 is the early
return, 8 fills a frame, 31 wraps with every offset but 0 and is refused with 0.
Two serial numbers tell a command from the one before; two polls let an answer
come at the first or the last of them.

*Providers.* Two threads without exclusion, with keys on three devices that differ in
bus or in address: one opens a device between any two steps of the other, or both
open at once, and the device before can be a third one. Four threads with keys on one
device. Parameters that are
good, of a wrong type, too large for their field, unknown, alone and
together. `MaxPairs` 2 lets a place be generated twice, `MaxBlocks` 2 tells a
message from its beginning. Two contexts and a third for duplicates suffice to
share, lose or free something twice.

*Platform.* HKDF lengths on both sides of each bound (a block, 255 blocks, the
16-bit maximum); two threads with CRCs of up to three parts of 0, 2 and 3 bytes,
and all 256 entries of the table, which `PartAssumption` compares with the polynomial;
four units of time in a second, so that each carry happens; lengths of numbers
at which a byte or the sign bit changes; CMAC of two blocks, with keys of two
good lengths and a bad one, and tag lengths with one above the cipher's block.

The theorems of section 4 do not depend on any of these bounds. Deadlock
checking is on except in `platform`: a function that has returned and a window
that was closed end their behaviours. An exited daemon keeps its state
(`Exited`).

### Fairness

*Daemon.* Weak fairness of the main thread and of each worker: the scheduler
runs a thread that can run, and a receive timeout does fire. Nothing is assumed
of clients, signals, failures, or of the order in which waiting threads get a
mutex (POSIX promises none), so no property says that a particular waiter gets
the bus. A documented client may transact for ever; what it cannot do is keep
one transaction open for ever, because READs are bounded as the polling of
STSELib is (`stse_conf.h`). An unrestricted client can, by sending anything at
least every 5 s: the daemon has no limit on the length of a transaction.

*Client.* Weak fairness of the library and of each worker, and of the timeout of
a connection on which nothing is sent. Strong fairness of the successful answer
to a READ: a device that is polled answers some time. Callers, the order of
waiting threads, and stops and starts of the daemon are left free. So a caller that
gave up and did not call `receive_stop` may begin another transaction while its
connection has the bus; `HeldBusComesBack` and `HangsOnlyForBus` name that step
(`BeginsAgain`) as the exception, and nothing else.

*Demonstration.* Weak fairness of the idle callback and of the workers.

### What the runs say against comments

* A failed thread creation loses a slot, although `g_conn_sem` "counts available
  client slots" (`doc_slots`).
* A WRITE to a second bus overwrites the record of the first lock, which then
  nobody can release (`doc_cleanup`).
* A wake takes the mutex, although the header says it does not; inside the own
  transaction it blocks its worker, and the disconnection of its client does not
  free the bus (`doc_disconnect`).
* At shutdown a descriptor can be used after it was closed, although the copy is
  taken against this (`doc_snapshot`).
* On a thread where `stse_platform_i2c_set_device_type()` was not called, the
  response of an STSAFE-L010 is taken for a first phase and UNLOCK is not sent
  (`doc_unlock_l010`).

## 4. Proofs

`tlapm <module>.tla` for the eight modules below. The assumptions are those named
in the modules proved about; TLC evaluates them for the values of each run.

**`SeDaemonProofs`.** `IndInv` strengthens the safety properties by what makes
them inductive: `LockInv` (a recorded bus is locked by that connection; a worker
in a transfer owns the mutex), `DeviceInv` (every device a connection has written to
since it has its bus holds its bytes - this is why READ checks the record),
`StageInv` (a worker's position fits its request; data exist only in an
answer), `TrackInv` (for clients that lock one bus at a time, every owned mutex
is the recorded one or that of a running wake, which makes the clean-up
complete) and `MainInv` (the connection main is handling has no worker yet).
There is one lemma per action or group of alike actions. From it follow
`OwnReply`, `BusExclusive`, `NoLostMutex`, `NoHoldAndWait`; `ReplyTellsLock`, the
action property `OnlyHolderReachesDevice` and `SlotAccounting` (a cardinality
argument over the set of connections with a slot) have inductions of their own
on top of it. `FdFresh` and `OneFdPerBus` follow from `FdInv`: until the shutdown
loop runs, the table `g_i2c_fds` and the open descriptors agree, an entry changes
only while it is empty, and every copy a handler has is the entry of the bus it
serves.

`DaemonImplementsArbiter` maps every worker step to a step of `BusArbiter` or a
stutter, for clients that lock one bus at a time.

**`I2cClientProofs`.** The invariant `IInv` has two global parts, `HasRequest` (a
call under way has a request), `NoBusWithoutConnection` and `Overruns` (who has copied
past a buffer: nobody while sizes are small, and never a documented caller), and one
part `Own(t)` per thread: the caller's step fits the function under way, the offsets are in
the frames, cached bytes and the answer under way are those of the frame just
sent, and once that frame was executed the thread owns the bus and its bytes are
the last the device got - or the connection is gone. It is needed because
`OwnAnswer` speaks of the end of a
call, while what decides it happened several steps earlier, on the other side of
the socket. Lemmas named `...Elsewhere` say that a step of one thread leaves the
variables of the others and the buses it does not have alone; they reduce every
preservation proof to the thread that moves. `LastStopUnlocks` has an invariant
of its own about the flag, under the hypothesis `Documented \subseteq Typed`;
`doc_unlock_l010` shows why. `SizeAssumption` allows every size of 16 bits: a
test that passes means that the sum fits or that it has wrapped (`FitsInBounds`),
and it can wrap only with a size above 65535 - `SE_PLAT_MAX_FRAME`, while a
documented caller passes the length of its frame, to an empty buffer, and what is
left to read.

**`ProviderContextProofs`.** For any number of threads and every interleaving,
without exclusion. An opening that is not `mixed` is alone (`Apart`), so how far it is
tells what handler and `active` are (`Progress`), although other threads check, use
and end around it. While a thread is in `kept` nobody opens, and what its check has
found stays so (`Keeping`). From these follow that the handler is that of the active
device when nobody opens, and `UseOnItsDevice`. TLC shows that no condition of
either can be dropped, and that commands do reach the wrong device without them: that
is what the missing lock costs. For keys on one device and threads that exclude each
other only until a first success, `Settled` says that one thread is inside before,
and that none changes anything after: the check of `provctx_ensure_init()` then finds
the context as it needs it, whatever the other threads do.

**`StsafeaKeysProofs`.** `IInv` says that generation contexts and keys have a curve
of their kind (`ContextsFit`, `KeysFit`), that places hold pairs already generated
(`PairsAreNumbered`), and with these that public keys have the length of their
curve and places hold the private half or a later one. Lemmas about the table of
curves (each name is on one line; a type has a first line, with the bits and the
coordinate of the others) give `ExportComesBack`. `Agreement` is an invariant
between a generation context and its caller: what the caller gave with success is
what the context has. It needs `CallerAssumption`: numbers a caller means are below
256, since the code casts them to `uint8_t`, and OpenSSL passes neither address nor
group to `gen_init()`, which would overwrite them. `PairAssumption` only says that
numbers are natural (`uint32_t`) and that a value of the wrong type is not a
number and not the name of a curve.

**`StsafeaSignatureProofs`.** `Ownership`: a digest context in use is that of exactly
one signature context, a freed one of none; `Keeps`: for careful callers a context
has the key of the last init, and its digest context the message so far. `Moves`
describes what a step of one context may do to the rest, and is shown once per
function; both invariants follow from it for the contexts that do not move.
`SignatureAssumption` keeps markers apart from the names of contexts and blocks.

**`StsafelProviderProofs`.** The same argument for the STSAFE-L010, where a context may
own an object for the software key and one for the digest, and where `Borrowed`
(a key outlives the contexts that use it, by the reference OpenSSL holds) is needed
to say what a verification verifies with. `SignedByItsPair` and
`VerifiesWithAskedKey` speak of the last step and are proved kept by every step.

**`ProvidersProofs`.** `PartsInv` asks of a behaviour the invariants of the part it is
about. A step is one of that part (`PartsSteps`), so each case of `PartsStep` cites
the lemmas of one component, taken through the instances of `Providers`. The eight
properties of the run `providers` follow, for all values of the constants that
satisfy `PartsAssumption`.

**`PlatformProofs`.** One inductive invariant per part; `PartsInv` joins them, as for
the providers.
* HKDF: `InLoop` expresses index, counter, output and last block by the number of
  rounds; output and counter bounds follow for every 16-bit length, and that the
  index grows in every round.
* CMAC: `ThreadInv` relates a thread's context to what its caller believes. For a
  careful caller they are equal until a finishing function has freed the context;
  the caller of any other thread is never ahead of it, which keeps inputs bounded.
  One lemma says what each kind of step does to it, `ThreadStep` that nothing
  else changes, and counts the contexts. `KeyAssumption` asks for a finite set of
  threads and that no key is the marker of a missing one.
* Timeouts: deadline and due time are the same number (`TimeoutInv`), because
  `Deadline` carries at most once; that comparing seconds before fractions compares
  times is arithmetic with the number of units in a second as a parameter.
* CRC: `CrcInv` says that the register is the remainder of the frame so far, and
  between calls the complement of the answer. A step keeps it because a shift is
  linear over exclusive or (`ShiftIsLinear`) and eight shifts of the upper half of
  a register only move it down (`EightShiftsMoveDown`): what is left is the entry of
  the table for the lower half (`StepDivides`). It holds for any bytes, any cut into
  parts and any number of threads. That each entry is eight shifts of its
  index is an assumption about a literal of 256 numbers, which TLC evaluates.
* Memory: an outline of each of the eighteen functions says, before each of its
  steps, which pointers are set, for certain or perhaps, which of them dangle, and
  which objects belong to another one. `AllFollow`
  compares functions and outlines: each step leads from one entry to
  the next (`Leads...`), and what the branch of its failure frees fits the entry
  before it. `CallsInv` is that a call is at an entry of the outline of its
  function. `FreeingIsSound` and `FailIsSound` show that a call at an entry that
  allows it frees nothing twice, and that one that fails there leaves nothing.
* Signature forms: the fields have one size on each curve, in which every number
  below the order fits (`FieldsFit`); then whatever form a signature has, it is
  one of two that everybody reads alike.
* Demonstration: the button is on only while no worker runs and no callback is queued
  (`DemoInv`), so there is one writer at a time; `Written` says what it has written
  at each of its positions.

Only model-checked: the liveness properties (`documented_live`, `client_live`,
`ButtonComesBack`), whose fairness is out of the prover's reach. What the runs
`doc_...` find are counterexamples and need no proof.

## 5. Observations, and what is not modelled

Met while modelling, without a document that says otherwise, and therefore
without a run of their own:

* A caller that gives up inside a transaction without `receive_stop()` and
  initialises the bus again waits for the mutex of its own connection, for ever, and
  keeps the bus from everybody. `client_live` contains such a caller, and shows that
  this is the only way it keeps a bus or hangs on its own account.
* A client may read another device of its bus than it wrote to, and gets what
  reached that one last, be it another client's command (`se_daemon.c:281`).
* `gen_init()` of the STSAFE-A120 provider overwrites parameters it was given by
  defaults (`stsafea_provider.c:536`). OpenSSL passes none.
* Two threads that use one provider context for different devices can send a
  command to the wrong one, and two openings that overlap can leave the handler and
  `active_bus_id` of different devices for later calls too. `providers` shows that
  nothing else does, and what holds when all keys are on one device.
* `has()` of the STSAFE-L010 provider answers yes for the private half of any key
  (`stsafel_provider.c:155`), also of one imported from elsewhere.
* If `HMAC_CTX_new()` fails in a later round of the expansion, the blocks written
  before stay in the output, which other failures clear
  (`stse_platform_hash.c:150`).
* The window of the demonstration may be closed while its worker runs.
* A size above 65535 - `SE_PLAT_MAX_FRAME` can wrap the sums in
  `stse_platform_i2c.c:244` and `:363`, is not refused, and its copy leaves the
  buffer; a caller that follows `stse_ipc.h` passes none.

Not modelled:

* Argument parsing, socket path and permissions, tracing: start-up I/O.
* The discarding of a response longer than its buffer (`stse_platform_i2c.c:146-156`): the
  daemon sends what was asked for. The client has no timeout of its own.
* Choosing a hash function, HKDF extraction, NIST key wrap, random numbers: one
  call of OpenSSL each, whose results are not a matter of this code's state.
* Provider dispatch tables, parameter tables and text queries: constants.
* Power, ST1-Wire, crypto initialisation: empty functions and stubs.
* Platform configuration: macros and types; limits appear as constants.
* The other examples: sequential calls whose results are printed.
* STSELib, OpenSSL, GTK and the kernel driver: external, seen through the calls
  this code makes or receives.
