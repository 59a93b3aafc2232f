---------------------------- MODULE PlatformTimeout ----------------------------
(***************************************************************************)
(* Timeouts of the platform layer (stse_platform_delay.c): a deadline in   *)
(* seconds and a fraction for each thread, computed from the clock and     *)
(* compared with it.  STSELib starts a timeout and then asks, again and    *)
(* again, whether it has elapsed.                                          *)
(*                                                                         *)
(* A second has PerSecond units: 1000 in the code, where the digits of the *)
(* clock below a millisecond go through the sum unchanged.                 *)
(***************************************************************************)
EXTENDS Integers

CONSTANTS
    Thread,
    PerSecond,
    MaxTimeout,   \* the longest timeout: 65535 ms in the code
    MaxClock      \* when a run ends

TimeAssumption == PerSecond \in Nat \ {0} /\ MaxTimeout \in Nat /\ MaxClock \in Nat

VARIABLES
    clock,         \* CLOCK_MONOTONIC
    timeout_end,   \* deadlines, zero before the first
    due            \* history: the time at which the timeout has elapsed

vars == <<clock, timeout_end, due>>

Timespec(ticks) == [sec |-> ticks \div PerSecond, nsec |-> ticks % PerSecond]
Ticks(ts) == ts.sec * PerSecond + ts.nsec

Init ==
    /\ clock \in 0 .. MaxClock
    /\ timeout_end = [t \in Thread |-> Timespec(0)] /\ due = [t \in Thread |-> 0]

\* Faulty variant: no carry.
Deadline_NoCarry(now, val) ==
    [sec |-> now.sec + val \div PerSecond, nsec |-> now.nsec + (val % PerSecond)]

\* The seconds and the rest are added separately; then the carry.
Deadline(now, val) ==
    LET nsec == now.nsec + (val % PerSecond)
        carry == nsec >= PerSecond
    IN  [sec |-> now.sec + val \div PerSecond + (IF carry THEN 1 ELSE 0),
         nsec |-> IF carry THEN nsec - PerSecond ELSE nsec]

\* stse_platform_timeout_ms_start()
Start(t, val) ==
    /\ timeout_end' = [timeout_end EXCEPT ![t] = Deadline(Timespec(clock), val)]
    /\ due' = [due EXCEPT ![t] = clock + val]
    /\ UNCHANGED clock

\* stse_platform_timeout_ms_get_status()
Elapsed(now, end) == now.sec > end.sec \/ (now.sec = end.sec /\ now.nsec >= end.nsec)
GetStatus(t) == Elapsed(Timespec(clock), timeout_end[t])

Tick == clock < MaxClock /\ clock' = clock + 1 /\ UNCHANGED <<timeout_end, due>>

Next == Tick \/ \E t \in Thread, val \in 0 .. MaxTimeout : Start(t, val)

Spec == Init /\ [][Next]_vars

-----------------------------------------------------------------------------
(* Properties. *)

\* Every variable has its type: the fraction is always below a second.
TypeOK ==
    /\ clock \in 0 .. MaxClock
    /\ timeout_end \in [Thread -> [sec : Nat, nsec : 0 .. PerSecond - 1]]
    /\ due \in [Thread -> 0 .. MaxClock + MaxTimeout]

\* A timeout has elapsed exactly when the time asked for is over, at every moment
\* of the clock it can be started at and whatever timeouts other threads start:
\* no answer of the device is given up too early, and none is awaited too long.
ElapsedWhenDue == \A t \in Thread : GetStatus(t) <=> clock >= due[t]
================================================================================
