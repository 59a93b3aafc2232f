------------------------- MODULE ProviderContextProofs -------------------------
(***************************************************************************)
(* The handler the threads of a process share, for any number of threads,  *)
(* buses and addresses and every interleaving: the argument is an          *)
(* invariant on how far an opening that is not mixed with another has come *)
(* with the handler, and on what a thread may rely on while no other one   *)
(* has begun to open a device.  Then the case that all keys are on one     *)
(* device, which needs no such condition after a first call.               *)
(***************************************************************************)
EXTENDS ProviderContext, TLAPS

\* Openings that are not mixed are of one thread.
Apart == ~mixed => \A t, u \in Thread : Opening(t) /\ Opening(u) => t = u

\* What the thread that opens a device has made of the handler so far.
Progress ==
    ~mixed => \A t \in Thread :
        /\ pc[t] = "bus" => handler = Default
        /\ pc[t] = "addr" => handler = [Default EXCEPT !.typed = TRUE, !.bus = want[t].bus]
        /\ pc[t] \in {"open", "setBus", "setAddr", "setInit"} => handler = HandlerOf(want[t])
        /\ pc[t] = "setAddr" => active.bus = want[t].bus
        /\ pc[t] = "setInit" => active = want[t]

\* While a thread keeps the device of its check or opening, nobody opens one.
Keeping ==
    /\ kept # {} => \A t \in Thread : ~Opening(t)
    /\ ~mixed => \A t \in kept :
          /\ pc[t] = "compare" => initialized /\ active.bus = want[t].bus
          /\ pc[t] = "use" => initialized /\ active = want[t]

IInv == TypeOK /\ Apart /\ Progress /\ Keeping /\ ActiveIsHandler

LEMMA Initially == Init => IInv
<1> SUFFICES ASSUME Init PROVE IInv
  OBVIOUS
<1>1. /\ handler = Default /\ active = [bus |-> Unset, addr |-> Unset] /\ initialized = FALSE
      /\ mixed = FALSE /\ kept = {}
  BY DEF Init
<1>2. \A t \in Thread : pc[t] = "idle"
  BY DEF Init
<1>3. TypeOK
  <2>1. pc \in [Thread -> Steps] /\ want \in [Thread -> Device]
    BY DEF Init, Steps
  <2> QED
    BY <1>1, <2>1 DEF TypeOK, Default
<1>4. Apart /\ Progress /\ Keeping /\ ActiveIsHandler
  BY <1>1, <1>2 DEF Apart, Progress, Keeping, ActiveIsHandler, Opening
<1> QED
  BY <1>3, <1>4 DEF IInv

\* A device is a record of a bus and an address that the variables can hold.
LEMMA DeviceRecord ==
  ASSUME DeviceAssumption, NEW d \in Device
  PROVE  d = [bus |-> d.bus, addr |-> d.addr] /\ d.bus \in Buses /\ d.addr \in Addrs
BY DEF DeviceAssumption, Buses, Addrs

LEMMA TypeStep ==
  ASSUME DeviceAssumption, TypeOK, [Next]_vars
  PROVE  TypeOK'
<1> USE DEF Go, TypeOK, Steps
<1>1. CASE UNCHANGED vars
  BY <1>1 DEF vars
<1>2. ASSUME NEW t \in Thread, NEW d \in Device, Begin(t, d) PROVE TypeOK'
  BY <1>2 DEF Begin
<1>3. ASSUME NEW t \in Thread, Check(t) \/ Compare(t) PROVE TypeOK'
  BY <1>3 DEF Check, Compare
<1>4. ASSUME NEW t \in Thread, SetDefault(t) PROVE TypeOK'
  BY <1>4 DEF SetDefault, Default, OthersOpening
<1>5. ASSUME NEW t \in Thread, SetBus(t) \/ SetActiveBus(t) PROVE TypeOK'
  <2>1. want[t].bus \in Buses
    BY DeviceRecord
  <2> QED
    BY <1>5, <2>1 DEF SetBus, SetActiveBus
<1>6. ASSUME NEW t \in Thread, SetAddr(t) \/ SetActiveAddr(t) PROVE TypeOK'
  <2>1. want[t].addr \in Addrs
    BY DeviceRecord
  <2> QED
    BY <1>6, <2>1 DEF SetAddr, SetActiveAddr
<1>7. ASSUME NEW t \in Thread, Open(t) \/ SetInitialized(t) \/ Use(t) PROVE TypeOK'
  BY <1>7 DEF Open, SetInitialized, Use
<1> QED
  BY <1>1, <1>2, <1>3, <1>4, <1>5, <1>6, <1>7 DEF Next, EnsureInit

\* A step is one of a thread: the positions and keys of the others stay.
LEMMA OneThread ==
  ASSUME TypeOK, NEW t \in Thread, EnsureInit(t) \/ Use(t)
  PROVE  /\ pc[t] # "idle"
         /\ \A u \in Thread \ {t} : pc'[u] = pc[u]
         /\ want' = want
  BY DEF TypeOK, EnsureInit, Use, Check, Compare, SetDefault, SetBus, SetAddr, Open, SetActiveBus,
         SetActiveAddr, SetInitialized, Go

-----------------------------------------------------------------------------
(* Every interleaving. *)

\* A step that leaves the handler, the active device and the openings as they are.
LEMMA QuietStep ==
  ASSUME IInv, NEW t \in Thread, UNCHANGED <<handler, active, initialized, mixed>>,
         ~Opening(t), ~Opening(t)', pc'[t] \in {"compare", "use"} => t \notin kept',
         \A u \in Thread \ {t} : pc'[u] = pc[u] /\ want'[u] = want[u],
         kept' \subseteq kept \cup {t}, kept' # {} => \A u \in Thread : ~Opening(u)
  PROVE  Apart' /\ Progress' /\ Keeping' /\ ActiveIsHandler'
<1>1. \A u \in Thread : Opening(u)' <=> Opening(u)
  BY DEF Opening
<1>2. Apart' /\ ActiveIsHandler'
  BY <1>1 DEF IInv, Apart, ActiveIsHandler
<1>3. Progress'
  BY DEF IInv, Progress, Opening
<1>4. Keeping'
  <2>1. kept' \subseteq Thread
    BY DEF IInv, TypeOK
  <2> QED
    BY <1>1, <2>1 DEF IInv, Keeping
<1> QED
  BY <1>2, <1>3, <1>4

\* A step by which a thread that keeps its device comes nearer to using it.
LEMMA KeptStep ==
  ASSUME IInv, NEW t \in Thread, UNCHANGED <<handler, active, initialized, mixed, want>>,
         ~Opening(t), kept' = kept \cup {t}, \A u \in Thread : ~Opening(u),
         \A u \in Thread \ {t} : pc'[u] = pc[u],
         \/ pc'[t] = "compare" /\ initialized /\ active.bus = want[t].bus
         \/ pc'[t] = "use" /\ initialized /\ active = want[t]
  PROVE  Apart' /\ Progress' /\ Keeping' /\ ActiveIsHandler'
<1>1. \A u \in Thread : ~Opening(u)'
  BY DEF Opening
<1>2. Apart' /\ ActiveIsHandler' /\ Progress'
  BY <1>1 DEF IInv, Apart, ActiveIsHandler, Progress, Opening
<1>3. Keeping'
  <2>1. kept' \subseteq Thread
    BY DEF IInv, TypeOK
  <2> QED
    BY <1>1, <2>1 DEF IInv, Keeping
<1> QED
  BY <1>2, <1>3

LEMMA LookStep ==
  ASSUME DeviceAssumption, IInv, NEW t \in Thread, Check(t) \/ Compare(t)
  PROVE  Apart' /\ Progress' /\ Keeping' /\ ActiveIsHandler'
<1>1. /\ pc[t] \in {"check", "compare"} /\ ~Opening(t)
      /\ \A u \in Thread \ {t} : pc'[u] = pc[u] /\ want'[u] = want[u]
      /\ UNCHANGED <<handler, active, initialized, mixed, want>>
  BY OneThread DEF Check, Compare, Go, Opening, IInv, EnsureInit
<1>2. kept \subseteq Thread /\ pc \in [Thread -> Steps] /\ want[t] \in Device
  BY DEF IInv, TypeOK
<1>3. CASE Check(t) /\ ~SameBus(want[t])
  <2>1. pc'[t] = "default" /\ kept' \subseteq kept \cup {t}
    BY <1>2, <1>3 DEF Check, Go
  <2>2. kept' # {} => \A u \in Thread : ~Opening(u)
    BY <1>1, <1>3 DEF Check, OthersOpening, IInv, Keeping
  <2> QED
    BY <1>1, <2>1, <2>2, QuietStep DEF Opening
<1>4. CASE Check(t) /\ SameBus(want[t]) /\ OthersOpening(t)
  <2>1. pc'[t] = "compare" /\ kept' = kept \ {t}
    BY <1>2, <1>4 DEF Check, Go
  <2>2. kept' # {} => \A u \in Thread : ~Opening(u)
    BY <2>1 DEF IInv, Keeping
  <2> QED
    BY <1>1, <2>1, <2>2, QuietStep DEF Opening
<1>5. CASE Check(t) /\ SameBus(want[t]) /\ ~OthersOpening(t)
  <2>1. pc'[t] = "compare" /\ kept' = kept \cup {t} /\ initialized /\ active.bus = want[t].bus
    BY <1>2, <1>5 DEF Check, Go, SameBus
  <2>2. \A u \in Thread : ~Opening(u)
    BY <1>1, <1>5 DEF OthersOpening
  <2> QED
    BY <1>1, <2>1, <2>2, KeptStep
<1>6. CASE Compare(t) /\ ~SameAddr(want[t])
  <2>1. pc'[t] = "default" /\ kept' = kept
    BY <1>2, <1>6 DEF Compare, Go
  <2> QED
    BY <1>1, <2>1, QuietStep DEF Opening, IInv, Keeping
<1>7. CASE Compare(t) /\ SameAddr(want[t]) /\ (t \notin kept \/ mixed)
  <2>1. pc'[t] = "use" /\ kept' = kept
    BY <1>2, <1>7 DEF Compare, Go
  <2>2. \A u \in Thread : Opening(u)' <=> Opening(u)
    BY <1>1, <2>1 DEF Opening
  <2>3. Apart' /\ ActiveIsHandler' /\ Progress'
    BY <1>1, <2>1, <2>2 DEF IInv, Apart, ActiveIsHandler, Progress
  <2>4. Keeping'
    BY <1>1, <1>2, <1>7, <2>1, <2>2 DEF IInv, Keeping
  <2> QED
    BY <2>3, <2>4
<1>8. CASE Compare(t) /\ SameAddr(want[t]) /\ t \in kept /\ ~mixed
  <2>1. pc[t] = "compare" /\ pc'[t] = "use" /\ kept' = kept /\ active.addr = want[t].addr
    BY <1>2, <1>8 DEF Compare, Go, SameAddr
  <2>2. (\A u \in Thread : ~Opening(u)) /\ initialized /\ active.bus = want[t].bus
    BY <1>8, <2>1 DEF IInv, Keeping
  <2>3. active = want[t]
    <3>1. active = [bus |-> active.bus, addr |-> active.addr]
      BY DEF IInv, TypeOK
    <3> QED
      BY <1>2, <2>1, <2>2, <3>1, DeviceRecord
  <2> QED
    BY <1>1, <1>8, <2>1, <2>2, <2>3, KeptStep
<1> QED
  BY <1>3, <1>4, <1>5, <1>6, <1>7, <1>8

\* The steps that write: what matters is that no other thread is at opening a device, if
\* the openings are not mixed.
LEMMA OpeningStep ==
  ASSUME DeviceAssumption, IInv, NEW t \in Thread, EnsureInit(t), ~Check(t), ~Compare(t)
  PROVE  Apart' /\ Progress' /\ Keeping' /\ ActiveIsHandler'
<1>1. \A u \in Thread \ {t} : pc'[u] = pc[u] /\ (Opening(u)' <=> Opening(u))
  BY OneThread DEF IInv, Opening
<1>2. /\ want' = want /\ want[t] \in Device /\ kept \subseteq Thread /\ pc \in [Thread -> Steps]
      /\ active = [bus |-> active.bus, addr |-> active.addr]
      /\ handler = [typed |-> handler.typed, bus |-> handler.bus, addr |-> handler.addr]
  BY OneThread DEF IInv, TypeOK
<1>3. CASE SetDefault(t)
  <2>1. /\ pc[t] = "default" /\ pc'[t] = "bus" /\ handler' = Default /\ kept' = {}
        /\ mixed' = OthersOpening(t)
    BY <1>2, <1>3 DEF SetDefault, Go
  <2>2. ~mixed' => \A u \in Thread \ {t} : ~Opening(u) /\ ~Opening(u)'
    BY <1>1, <2>1 DEF OthersOpening
  <2>3. Opening(t)'
    BY <2>1 DEF Opening
  <2>4. Apart' /\ Keeping' /\ ActiveIsHandler'
    BY <2>1, <2>2, <2>3 DEF Apart, Keeping, ActiveIsHandler
  <2>5. Progress'
    BY <2>1, <2>2 DEF Progress, Opening
  <2> QED
    BY <2>4, <2>5
<1>4. CASE ~SetDefault(t)
  <2>1. /\ Opening(t) /\ mixed' = mixed /\ kept = {}
        /\ ~mixed => \A u \in Thread \ {t} : ~Opening(u) /\ ~Opening(u)'
    <3>1. Opening(t) /\ mixed' = mixed
      BY <1>4 DEF EnsureInit, SetBus, SetAddr, Open, SetActiveBus, SetActiveAddr, SetInitialized,
                  Go, Opening
    <3> QED
      BY <1>1, <3>1 DEF IInv, Apart, Keeping
  <2>2. SUFFICES
          /\ kept' = {} \/ (kept' = {t} /\ \A u \in Thread : ~Opening(u)')
          /\ ~mixed =>
             /\ pc'[t] = "bus" => handler' = Default
             /\ pc'[t] = "addr" => handler' = [Default EXCEPT !.typed = TRUE, !.bus = want[t].bus]
             /\ pc'[t] \in {"open", "setBus", "setAddr", "setInit"} => handler' = HandlerOf(want[t])
             /\ pc'[t] = "setAddr" => active'.bus = want[t].bus
             /\ pc'[t] = "setInit" => active' = want[t]
             /\ pc'[t] # "compare"
             /\ pc'[t] = "use" => initialized' /\ active' = want[t]
             /\ ~Opening(t)' /\ initialized' => handler' = HandlerOf(active')
    <3>1. Apart' /\ ActiveIsHandler'
      BY <2>1, <2>2 DEF Apart, ActiveIsHandler
    <3>2. Keeping'
      BY <1>2, <2>1, <2>2 DEF Keeping
    <3>3. Progress'
      <4>1. ASSUME ~mixed, NEW u \in Thread, u # t PROVE ~Opening(u)'
        BY <2>1, <4>1
      <4> QED
        BY <1>2, <2>1, <2>2, <4>1 DEF Progress, Opening
    <3> QED
      BY <3>1, <3>2, <3>3
  <2> USE DEF IInv
  <2>3. CASE SetBus(t)
    <3>1. pc[t] = "bus" /\ pc'[t] = "addr" /\ kept' = kept
          /\ handler' = [handler EXCEPT !.typed = TRUE, !.bus = want[t].bus]
      BY <1>2, <2>3 DEF SetBus, Go
    <3> QED
      BY <2>1, <3>1 DEF Progress, Opening
  <2>4. CASE SetAddr(t)
    <3>1. /\ pc[t] = "addr" /\ pc'[t] = "open" /\ kept' = kept
          /\ handler' = [handler EXCEPT !.addr = want[t].addr]
      BY <1>2, <2>4 DEF SetAddr, Go
    <3>2. ~mixed => handler' = HandlerOf(want[t])
      BY <3>1 DEF Progress, Default, HandlerOf
    <3> QED
      BY <2>1, <3>1, <3>2 DEF Opening
  <2>5. CASE Open(t)
    <3>1. /\ pc[t] = "open" /\ pc'[t] \in {"setBus", "idle"} /\ kept' = kept
          /\ handler' = handler /\ (pc'[t] = "idle" => ~initialized')
      BY <1>2, <2>5 DEF Open, Go
    <3> QED
      BY <2>1, <3>1 DEF Progress, Opening
  <2>6. CASE SetActiveBus(t)
    <3>1. /\ pc[t] = "setBus" /\ pc'[t] = "setAddr" /\ kept' = kept /\ handler' = handler
          /\ active' = [active EXCEPT !.bus = want[t].bus]
      BY <1>2, <2>6 DEF SetActiveBus, Go
    <3>2. active'.bus = want[t].bus
      BY <1>2, <3>1
    <3> QED
      BY <2>1, <3>1, <3>2 DEF Progress, Opening
  <2>7. CASE SetActiveAddr(t)
    <3>1. /\ pc[t] = "setAddr" /\ pc'[t] = "setInit" /\ kept' = kept /\ handler' = handler
          /\ active' = [active EXCEPT !.addr = want[t].addr]
      BY <1>2, <2>7 DEF SetActiveAddr, Go
    <3>2. ~mixed => active' = want[t]
      <4>1. ~mixed => active' = [bus |-> want[t].bus, addr |-> want[t].addr]
        BY <1>2, <3>1 DEF Progress
      <4> QED
        BY <1>2, <4>1, DeviceRecord
    <3> QED
      BY <2>1, <3>1, <3>2 DEF Progress, Opening
  <2>8. CASE SetInitialized(t)
    <3>1. /\ pc[t] = "setInit" /\ pc'[t] = "use" /\ handler' = handler /\ active' = active
          /\ initialized' /\ kept' = IF OthersOpening(t) THEN kept \ {t} ELSE kept \cup {t}
      BY <1>2, <2>8 DEF SetInitialized, Go
    <3>2. ~Opening(t)'
      BY <3>1 DEF Opening
    <3>3. kept' = {} \/ (kept' = {t} /\ \A u \in Thread : ~Opening(u)')
      BY <1>1, <2>1, <3>1, <3>2 DEF OthersOpening
    <3>4. ~mixed => handler' = HandlerOf(active') /\ active' = want[t]
      BY <3>1 DEF Progress
    <3> QED
      BY <3>1, <3>3, <3>4
  <2> QED
    BY <1>4, <2>3, <2>4, <2>5, <2>6, <2>7, <2>8 DEF EnsureInit
<1> QED
  BY <1>3, <1>4

LEMMA Step == DeviceAssumption /\ IInv /\ [Next]_vars => IInv'
<1> SUFFICES ASSUME DeviceAssumption, IInv, [Next]_vars
             PROVE  Apart' /\ Progress' /\ Keeping' /\ ActiveIsHandler'
  BY TypeStep DEF IInv
<1>1. CASE UNCHANGED vars
  BY <1>1 DEF IInv, vars, Apart, Progress, Keeping, ActiveIsHandler, Opening
<1>2. ASSUME NEW t \in Thread, NEW d \in Device, Begin(t, d)
      PROVE  Apart' /\ Progress' /\ Keeping' /\ ActiveIsHandler'
  <2>1. /\ pc[t] = "idle" /\ pc'[t] = "check"
        /\ \A u \in Thread \ {t} : pc'[u] = pc[u] /\ want'[u] = want[u]
        /\ UNCHANGED <<handler, active, initialized, mixed, kept>>
    BY <1>2 DEF IInv, TypeOK, Begin, Go
  <2> QED
    BY <2>1, QuietStep DEF Opening, IInv, Keeping
<1>3. ASSUME NEW t \in Thread, Use(t) PROVE Apart' /\ Progress' /\ Keeping' /\ ActiveIsHandler'
  <2>1. /\ pc[t] = "use" /\ pc'[t] = "idle"
        /\ \A u \in Thread \ {t} : pc'[u] = pc[u] /\ want'[u] = want[u]
        /\ UNCHANGED <<handler, active, initialized, mixed, kept>>
    BY <1>3 DEF IInv, TypeOK, Use, Go
  <2> QED
    BY <2>1, QuietStep DEF Opening, IInv, Keeping
<1> QED
  BY <1>1, <1>2, <1>3, LookStep, OpeningStep DEF Next

LEMMA Inductive == ASSUME DeviceAssumption PROVE Spec => []IInv
<1>1. IInv /\ [Next]_vars => IInv'
  BY Step
<1> QED
  BY <1>1, Initially, PTL DEF Spec

(* Every variable of the shared context keeps its type (provctx_ensure_init()). *)
THEOREM ContextTypeCorrect == ASSUME DeviceAssumption PROVE Spec => []TypeOK
<1>1. IInv => TypeOK
  BY DEF IInv
<1> QED
  BY <1>1, Inductive, PTL

(* Whatever the interleaving and whichever of the openings fail, the handler is that of *)
(* active_bus_id and active_dev_addr while no thread is at opening a device, unless two *)
(* openings have overlapped and none has begun alone since.                             *)
THEOREM ActiveIsHandlerAlways == ASSUME DeviceAssumption PROVE Spec => []ActiveIsHandler
<1>1. IInv => ActiveIsHandler
  BY DEF IInv
<1> QED
  BY <1>1, Inductive, PTL

\* A thread that has kept the device of its check finds the handler as its key needs it.
LEMMA InvUndisturbedUses == IInv => UndisturbedUses
<1> SUFFICES ASSUME IInv, NEW t \in Thread, pc[t] = "use", t \in kept, ~mixed
             PROVE  handler = HandlerOf(want[t])
  BY DEF UndisturbedUses
<1> QED
  BY DEF IInv, Keeping, ActiveIsHandler

(* Every key generation, signature and verification of any thread goes to the device of *)
(* its key, for any number of devices behind the one handler and every interleaving, if *)
(* no other thread opens a device between its check and its command, and the last       *)
(* opening did not begin during another.                                                *)
THEOREM UseOnItsDeviceAlways == ASSUME DeviceAssumption PROVE Spec => UseOnItsDevice
<1>1. IInv /\ [Next]_vars => [UndisturbedUses]_vars
  BY InvUndisturbedUses
<1> QED
  BY <1>1, Inductive, PTL DEF Spec, UseOnItsDevice

-----------------------------------------------------------------------------
(* Keys on one device: threads need to exclude each other only until a first *)
(* call has succeeded, since none of the later calls changes the context.    *)

OneDevice == Exclusion = "first" /\ \A d, e \in Device : d = e

\* One thread is inside at most.
Alone == \A t, u \in Thread : pc[t] # "idle" /\ pc[u] # "idle" => t = u

\* Until the context is initialized one thread is inside; then all are past the
\* opening, and the handler is that of the device.
Settled ==
    IF initialized
    THEN /\ active \in Device /\ handler = HandlerOf(active)
         /\ \A t \in Thread : pc[t] \in {"idle", "check", "compare", "use"}
    ELSE Alone /\ \A t \in Thread : pc[t] \notin {"compare", "use"}

SharedInv == TypeOK /\ ~mixed /\ Progress /\ Settled

LEMMA SharedInitially == Init => SharedInv
<1> SUFFICES ASSUME Init PROVE SharedInv
  OBVIOUS
<1>1. initialized = FALSE /\ mixed = FALSE /\ \A t \in Thread : pc[t] = "idle"
  BY DEF Init
<1>2. TypeOK
  BY Initially DEF IInv
<1> QED
  BY <1>1, <1>2 DEF SharedInv, Progress, Settled, Alone

\* A thread that comes in finds the others idle or the context initialized.
LEMMA SharedBegin ==
  ASSUME OneDevice, SharedInv, NEW t \in Thread, NEW d \in Device, Begin(t, d)
  PROVE  ~mixed' /\ Progress' /\ Settled' /\ UNCHANGED <<handler, active, initialized>>
<1> USE DEF SharedInv
<1>1. /\ UNCHANGED <<handler, active, initialized, mixed>>
      /\ pc[t] = "idle" /\ pc' = [pc EXCEPT ![t] = "check"]
  BY DEF Begin, Go
<1>2. \A u \in Thread : u # t => pc'[u] = pc[u] /\ want'[u] = want[u]
  BY <1>1 DEF Begin, TypeOK
<1>3. pc'[t] = "check"
  BY <1>1 DEF TypeOK
<1>4. Progress'
  BY <1>1, <1>2, <1>3 DEF Progress
<1>5. CASE initialized
  <2>1. \A u \in Thread : pc'[u] \in {"idle", "check", "compare", "use"}
    BY <1>2, <1>3, <1>5 DEF Settled
  <2>2. active' \in Device /\ handler' = HandlerOf(active') /\ initialized'
    BY <1>1, <1>5 DEF Settled
  <2> QED
    BY <1>1, <1>4, <2>1, <2>2 DEF Settled
<1>6. CASE ~initialized
  <2>1. \A u \in Thread : u # t => pc[u] = "idle"
    BY <1>6 DEF Begin, Excluded, OneDevice
  <2>2. \A u \in Thread : pc'[u] = IF u = t THEN "check" ELSE "idle"
    BY <1>2, <1>3, <2>1
  <2>3. ~initialized'
    BY <1>1, <1>6
  <2> QED
    BY <1>1, <1>4, <2>2, <2>3 DEF Settled, Alone
<1> QED
  BY <1>1, <1>4, <1>5, <1>6

\* A thread that is inside an initialized context uses it as it is.
LEMMA SharedReady ==
  ASSUME OneDevice, SharedInv, initialized, NEW t \in Thread, EnsureInit(t) \/ Use(t)
  PROVE  ~mixed' /\ Progress' /\ Settled' /\ UNCHANGED <<handler, active, initialized>>
<1> USE DEF SharedInv
<1>1. /\ pc[t] \in {"idle", "check", "compare", "use"} /\ active \in Device
      /\ handler = HandlerOf(active)
  BY DEF Settled
<1>2. active = want[t] /\ handler.typed
  BY <1>1 DEF TypeOK, OneDevice, HandlerOf
<1>3. ASSUME UNCHANGED <<handler, active, initialized, want, mixed>>, NEW to \in {"idle", "compare", "use"},
             pc' = [pc EXCEPT ![t] = to]
      PROVE  ~mixed' /\ Progress' /\ Settled'
  <2>1. \A u \in Thread : pc'[u] = IF u = t THEN to ELSE pc[u]
    BY <1>3 DEF TypeOK
  <2>2. \A u \in Thread : pc'[u] \in {"idle", "check", "compare", "use"}
    BY <2>1 DEF Settled
  <2>3. active' \in Device /\ handler' = HandlerOf(active') /\ initialized'
    BY <1>1, <1>3
  <2> QED
    BY <1>3, <2>2, <2>3 DEF Progress, Settled
<1>4. CASE Check(t)
  BY <1>2, <1>3, <1>4 DEF Check, SameBus, Go
<1>5. CASE Compare(t)
  BY <1>2, <1>3, <1>5 DEF Compare, SameAddr, Go
<1>6. CASE Use(t)
  BY <1>3, <1>6 DEF Use, Go
<1>7. Check(t) \/ Compare(t) \/ Use(t)
  BY <1>1 DEF EnsureInit, SetDefault, SetBus, SetAddr, Open, SetActiveBus, SetActiveAddr,
              SetInitialized, Go
<1>8. UNCHANGED <<handler, active, initialized>>
  BY <1>7 DEF Check, Compare, Use
<1> QED
  BY <1>4, <1>5, <1>6, <1>7, <1>8

\* The one thread that is inside opens the device.
LEMMA SharedOpening ==
  ASSUME OneDevice, DeviceAssumption, SharedInv, ~initialized, NEW t \in Thread,
         EnsureInit(t) \/ Use(t)
  PROVE  ~mixed' /\ Progress' /\ Settled'
<1> USE DEF SharedInv
<1>1. /\ pc[t] \notin {"idle", "compare", "use"}
      /\ \A u \in Thread \ {t} : pc[u] = "idle" /\ pc'[u] = "idle"
  BY OneThread DEF Settled, Alone
<1>2. /\ want' = want /\ want[t] \in Device /\ pc \in [Thread -> Steps]
      /\ active = [bus |-> active.bus, addr |-> active.addr]
  BY OneThread DEF TypeOK
<1>3. ~mixed'
  <2>1. ~OthersOpening(t)
    BY <1>1 DEF OthersOpening, Opening
  <2> QED
    BY <2>1 DEF EnsureInit, Use, Check, Compare, SetDefault, SetBus, SetAddr, Open, SetActiveBus,
                SetActiveAddr, SetInitialized
<1>4. SUFFICES
        /\ pc'[t] = "bus" => handler' = Default
        /\ pc'[t] = "addr" => handler' = [Default EXCEPT !.typed = TRUE, !.bus = want[t].bus]
        /\ pc'[t] \in {"open", "setBus", "setAddr", "setInit"} => handler' = HandlerOf(want[t])
        /\ pc'[t] = "setAddr" => active'.bus = want[t].bus
        /\ pc'[t] = "setInit" => active' = want[t]
        /\ pc'[t] # "compare"
        /\ initialized' => /\ pc'[t] = "use" /\ active' = want[t] /\ handler' = HandlerOf(want[t])
        /\ pc'[t] = "use" => initialized'
  BY <1>1, <1>2, <1>3 DEF Progress, Settled, Alone
<1>5. CASE Check(t)
  BY <1>2, <1>5 DEF Check, SameBus, Go
<1>6. CASE SetDefault(t)
  BY <1>2, <1>6 DEF SetDefault, Go
<1>7. CASE SetBus(t)
  BY <1>2, <1>7 DEF SetBus, Go, Progress
<1>8. CASE SetAddr(t)
  <2>1. pc'[t] = "open" /\ handler' = [handler EXCEPT !.addr = want[t].addr] /\ ~initialized'
    BY <1>2, <1>8 DEF SetAddr, Go
  <2>2. handler' = HandlerOf(want[t])
    BY <1>8, <2>1 DEF SetAddr, Go, Progress, HandlerOf, Default
  <2> QED
    BY <2>1, <2>2
<1>9. CASE Open(t)
  <2>1. pc[t] = "open" /\ pc'[t] \in {"setBus", "idle"} /\ handler' = handler /\ ~initialized'
    BY <1>2, <1>9 DEF Open, Go
  <2> QED
    BY <2>1 DEF Progress
<1>10. CASE SetActiveBus(t)
  <2>1. /\ pc[t] = "setBus" /\ pc'[t] = "setAddr" /\ handler' = handler /\ ~initialized'
        /\ active'.bus = want[t].bus
    BY <1>2, <1>10 DEF SetActiveBus, Go
  <2> QED
    BY <2>1 DEF Progress
<1>11. CASE SetActiveAddr(t)
  <2>1. /\ pc[t] = "setAddr" /\ pc'[t] = "setInit" /\ handler' = handler /\ ~initialized'
        /\ active' = [active EXCEPT !.addr = want[t].addr]
    BY <1>2, <1>11 DEF SetActiveAddr, Go
  <2>2. active' = [bus |-> want[t].bus, addr |-> want[t].addr]
    BY <1>2, <2>1 DEF Progress
  <2>3. active' = want[t]
    BY <1>2, <2>2, DeviceRecord
  <2> QED
    BY <2>1, <2>3 DEF Progress
<1>12. CASE SetInitialized(t)
  <2>1. pc[t] = "setInit" /\ pc'[t] = "use" /\ UNCHANGED <<handler, active>> /\ initialized'
    BY <1>2, <1>12 DEF SetInitialized, Go
  <2> QED
    BY <2>1 DEF Progress
<1>13. ~Compare(t) /\ ~Use(t)
  BY <1>1 DEF Compare, Use, Go
<1> QED
  BY <1>5, <1>6, <1>7, <1>8, <1>9, <1>10, <1>11, <1>12, <1>13 DEF EnsureInit

LEMMA SharedStep == OneDevice /\ DeviceAssumption /\ SharedInv /\ [Next]_vars => SharedInv'
<1> SUFFICES ASSUME OneDevice, DeviceAssumption, SharedInv, [Next]_vars
             PROVE  ~mixed' /\ Progress' /\ Settled'
  BY TypeStep DEF SharedInv
<1>1. CASE UNCHANGED vars
  BY <1>1 DEF vars, SharedInv, Progress, Settled, Alone
<1>2. CASE Next
  BY <1>2, SharedBegin, SharedReady, SharedOpening DEF Next
<1> QED
  BY <1>1, <1>2

\* The handler is opened once, and every thread uses its device.
LEMMA SharedSteps ==
  OneDevice /\ DeviceAssumption /\ SharedInv /\ [Next]_vars => OpensOnce /\ UsesItsDevice
<1> SUFFICES ASSUME OneDevice, DeviceAssumption, SharedInv, [Next]_vars PROVE OpensOnce /\ UsesItsDevice
  OBVIOUS
<1>1. OpensOnce
  <2>1. CASE UNCHANGED vars
    BY <2>1 DEF vars, OpensOnce
  <2>2. CASE Next
    BY <2>2, SharedBegin, SharedReady DEF Next, OpensOnce
  <2> QED
    BY <2>1, <2>2
<1>2. ASSUME NEW t \in Thread, pc[t] = "use" PROVE handler = HandlerOf(want[t])
  BY <1>2 DEF SharedInv, Settled, TypeOK, OneDevice
<1> QED
  BY <1>1, <1>2 DEF UsesItsDevice

(* While all the keys are on one device the handler is opened once, and threads   *)
(* that run freely after the first call all use that device                       *)
(* (provctx_ensure_init() finds the context as it needs it).                      *)
THEOREM SharedDeviceIsUsed ==
  ASSUME OneDevice, DeviceAssumption
  PROVE  Spec => OneOpening
<1>1. Init => SharedInv
  BY SharedInitially
<1>2. SharedInv /\ [Next]_vars => SharedInv'
  BY SharedStep
<1>3. SharedInv /\ [Next]_vars => [OpensOnce /\ UsesItsDevice]_vars
  BY SharedSteps
<1> QED
  BY <1>1, <1>2, <1>3, PTL DEF Spec, OneOpening
=============================================================================
