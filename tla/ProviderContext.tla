--------------------------- MODULE ProviderContext ---------------------------
(***************************************************************************)
(* The context of a provider (stsafea_provider.c; stsafel_provider.c has   *)
(* the same functions): one device handler that all the keys and threads   *)
(* of a process share.  Each operation on the hardware first makes sure    *)
(* that the handler is that of the device of its key                       *)
(* (provctx_ensure_init()) and then uses it, without a lock.               *)
(*                                                                         *)
(* OpenSSL calls a provider from any thread, so the reads and stores of    *)
(* two threads interleave.  Exclusion says what the application does about *)
(* that: "never" anything, or "first", it makes one call at a time until   *)
(* one has succeeded.                                                      *)
(***************************************************************************)
EXTENDS Naturals

CONSTANTS
    Thread,
    Device,      \* devices the keys are on: records of a bus and an address
    Exclusion,
    Unset        \* bus and address of a handler that holds the default values

DeviceAssumption ==
    /\ \A d \in Device : d = [bus |-> d.bus, addr |-> d.addr]
    /\ Exclusion \in {"first", "never"}

VARIABLES
    handler,      \* type, bus and address in the handler
    active,       \* active_bus_id and active_dev_addr
    initialized,
    pc,           \* where a thread is in provctx_ensure_init() and the operation
    want,         \* the device of its key
    mixed,        \* history: the last opening began during one of another thread
    kept          \* history: threads whose check or opening has ended with no other
                  \* thread at opening a device, since when none has begun to

vars == <<handler, active, initialized, pc, want, mixed, kept>>

Default == [typed |-> FALSE, bus |-> Unset, addr |-> Unset]
HandlerOf(d) == [typed |-> TRUE, bus |-> d.bus, addr |-> d.addr]

Init ==
    /\ handler = Default /\ active = [bus |-> Unset, addr |-> Unset] /\ initialized = FALSE
    /\ pc = [t \in Thread |-> "idle"] /\ want \in [Thread -> Device]
    /\ mixed = FALSE /\ kept = {}

Go(t, from, to) == pc[t] = from /\ pc' = [pc EXCEPT ![t] = to]

\* t has begun to overwrite the handler and not come to the end of it.
Opening(t) == pc[t] \in {"bus", "addr", "open", "setBus", "setAddr", "setInit"}
OthersOpening(t) == \E u \in Thread \ {t} : Opening(u)

Excluded(t) == Exclusion = "first" /\ ~initialized /\ \E u \in Thread \ {t} : pc[u] # "idle"

\* A key generation, signature or verification with a key of device d starts.
Begin(t, d) ==
    /\ Go(t, "idle", "check") /\ ~Excluded(t)
    /\ want' = [want EXCEPT ![t] = d]
    /\ UNCHANGED <<handler, active, initialized, mixed, kept>>

\* The handler is taken to be that of d, by what two reads find one after the other.
SameBus(d) == initialized /\ active.bus = d.bus
\* Faulty variant: the address is not compared.
SameAddr_Any(d) == handler.typed
SameAddr(d) == active.addr = d.addr /\ handler.typed

Check(t) ==
    /\ IF SameBus(want[t]) THEN Go(t, "check", "compare") ELSE Go(t, "check", "default")
    /\ kept' = IF OthersOpening(t) THEN kept \ {t} ELSE kept \cup {t}
    /\ UNCHANGED <<handler, active, initialized, want, mixed>>
Compare(t) ==
    /\ IF SameAddr(want[t]) THEN Go(t, "compare", "use") ELSE Go(t, "compare", "default")
    /\ UNCHANGED <<handler, active, initialized, want, mixed, kept>>

\* stse_set_default_handler_value().
SetDefault(t) ==
    /\ Go(t, "default", "bus")
    /\ handler' = Default
    /\ mixed' = OthersOpening(t) /\ kept' = {}
    /\ UNCHANGED <<active, initialized, want>>

\* The type and the bus, then the address.
SetBus(t) ==
    /\ Go(t, "bus", "addr")
    /\ handler' = [handler EXCEPT !.typed = TRUE, !.bus = want[t].bus]
    /\ UNCHANGED <<active, initialized, want, mixed, kept>>
SetAddr(t) ==
    /\ Go(t, "addr", "open")
    /\ handler' = [handler EXCEPT !.addr = want[t].addr]
    /\ UNCHANGED <<active, initialized, want, mixed, kept>>

\* stse_init(), with the handler as it is by now, opens the device or fails.
Open(t) ==
    /\ \/ Go(t, "open", "setBus") /\ UNCHANGED initialized
       \/ Go(t, "open", "idle") /\ initialized' = FALSE
    /\ UNCHANGED <<handler, active, want, mixed, kept>>

\* Faulty variant: the bus of the active device is not noted.
SetActiveBus_Forgets(t) ==
    /\ Go(t, "setBus", "setAddr")
    /\ UNCHANGED <<handler, active, initialized, want, mixed, kept>>

\* The device is noted as the active one, a field at a time.
SetActiveBus(t) ==
    /\ Go(t, "setBus", "setAddr")
    /\ active' = [active EXCEPT !.bus = want[t].bus]
    /\ UNCHANGED <<handler, initialized, want, mixed, kept>>
SetActiveAddr(t) ==
    /\ Go(t, "setAddr", "setInit")
    /\ active' = [active EXCEPT !.addr = want[t].addr]
    /\ UNCHANGED <<handler, initialized, want, mixed, kept>>
SetInitialized(t) ==
    /\ Go(t, "setInit", "use")
    /\ initialized' = TRUE
    /\ kept' = IF OthersOpening(t) THEN kept \ {t} ELSE kept \cup {t}
    /\ UNCHANGED <<handler, active, want, mixed>>

\* The operation itself: a command to the device the handler names by now.
Use(t) ==
    /\ Go(t, "use", "idle")
    /\ UNCHANGED <<handler, active, initialized, want, mixed, kept>>

EnsureInit(t) ==
    \/ Check(t) \/ Compare(t) \/ SetDefault(t) \/ SetBus(t) \/ SetAddr(t) \/ Open(t)
    \/ SetActiveBus(t) \/ SetActiveAddr(t) \/ SetInitialized(t)

Next == \E t \in Thread : (\E d \in Device : Begin(t, d)) \/ EnsureInit(t) \/ Use(t)

Spec == Init /\ [][Next]_vars

-----------------------------------------------------------------------------
(* Properties. *)

Steps == {"idle", "check", "compare", "default", "bus", "addr", "open", "setBus", "setAddr",
          "setInit", "use"}
Buses == {d.bus : d \in Device}
Addrs == {d.addr : d \in Device}

\* Every variable has its type.
TypeOK ==
    /\ handler \in [typed : BOOLEAN, bus : Buses \cup {Unset}, addr : Addrs \cup {Unset}]
    /\ active \in [bus : Buses \cup {Unset}, addr : Addrs \cup {Unset}]
    /\ initialized \in BOOLEAN
    /\ pc \in [Thread -> Steps] /\ want \in [Thread -> Device]
    /\ mixed \in BOOLEAN /\ kept \subseteq Thread

\* stsafea_provider.c:62: active_bus_id is the bus of the current handler (and
\* active_dev_addr its address), whenever no thread is at opening a device, unless
\* the openings of two threads have overlapped and none has begun alone since.
ActiveIsHandler ==
    (\A t \in Thread : ~Opening(t)) /\ initialized /\ ~mixed => handler = HandlerOf(active)

UsesItsDevice == \A t \in Thread : pc[t] = "use" /\ pc'[t] = "idle" => handler = HandlerOf(want[t])

UndisturbedUses ==
    \A t \in Thread : pc[t] = "use" /\ pc'[t] = "idle" /\ t \in kept /\ ~mixed =>
        handler = HandlerOf(want[t])

\* However the reads and stores of the threads interleave, a command goes to the device
\* that holds the key it is about, with two exceptions: another thread was at opening a
\* device when this one made its check, or has begun to before its command; or the last
\* opening began while another one was under way, which leaves the handler and the
\* active device of different keys also for the calls after it.
UseOnItsDevice == [][UndisturbedUses]_vars

OpensOnce == initialized => UNCHANGED <<handler, active, initialized>>

\* Only a failed opening makes a context that was initialized uninitialized, and
\* only a call whose device is not the active one can meet it: while all the
\* calls are for one device the handler is opened once, and used by all of them.
OneOpening == [][OpensOnce /\ UsesItsDevice]_vars
=============================================================================
