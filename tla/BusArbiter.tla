----------------------------- MODULE BusArbiter -----------------------------
(***************************************************************************)
(* What se-daemon promises its clients, without threads, sockets, slots or *)
(* descriptors: a bus has one owner at a time, only the owner's bytes      *)
(* reach the devices of the bus, and only the owner reads them.  What a    *)
(* device gives answers the bytes it received last: the owner's own if it  *)
(* has sent any to this device since it has the bus, and otherwise those   *)
(* of an earlier owner.  A bus always comes back from an owner that is     *)
(* finished with it: no owner leaves a bus behind.                         *)
(***************************************************************************)
CONSTANTS Party, Bus, Addr, Nobody

VARIABLES
    owner,   \* who has the bus
    last,    \* whose bytes reached the device at an address of the bus last
    answer   \* whose command the data on their way to a client answer

vars == <<owner, last, answer>>

Init ==
    /\ owner = [b \in Bus |-> Nobody]
    /\ last = [b \in Bus |-> [a \in Addr |-> Nobody]]
    /\ answer = [c \in Party |-> Nobody]

Grant(c, b) ==
    /\ owner[b] = Nobody
    /\ owner' = [owner EXCEPT ![b] = c]
    /\ UNCHANGED <<last, answer>>

\* The owner sends bytes to a device, which may miss them, and may give the
\* bus back with it.
Transmit(c, b, a) ==
    /\ owner[b] = c
    /\ owner' \in {owner, [owner EXCEPT ![b] = Nobody]}
    /\ last' \in {last, [last EXCEPT ![b][a] = c]}
    /\ UNCHANGED answer

\* The owner of a bus reads a device: the answer to the bytes it received last.
Read(c, b, a) ==
    /\ owner[b] = c
    /\ answer' = [answer EXCEPT ![c] = last[b][a]]
    /\ UNCHANGED <<owner, last>>

Deliver(c) ==
    /\ answer' = [answer EXCEPT ![c] = Nobody]
    /\ UNCHANGED <<owner, last>>

GiveBack(c, b) ==
    /\ owner[b] = c
    /\ owner' = [owner EXCEPT ![b] = Nobody]
    /\ UNCHANGED <<last, answer>>

\* A client that owns nothing and has nothing under way is forgotten.
Forget(c) ==
    /\ \A b \in Bus : owner[b] # c
    /\ last' = [b \in Bus |-> [a \in Addr |-> IF last[b][a] = c THEN Nobody ELSE last[b][a]]]
    /\ UNCHANGED <<owner, answer>>

Next ==
    \E c \in Party :
        \/ Deliver(c) \/ Forget(c)
        \/ \E b \in Bus : Grant(c, b) \/ GiveBack(c, b)
        \/ \E b \in Bus, a \in Addr : Transmit(c, b, a) \/ Read(c, b, a)

Spec == Init /\ [][Next]_vars
=============================================================================
