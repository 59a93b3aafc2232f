----------------------------- MODULE MCSeDaemon -----------------------------
(* Values of the constants of SeDaemon for TLC. *)
EXTENDS SeDaemon, TLC

CONSTANTS c1, c2, c3, b1, b2, a1, a2

\* Every client on the bus b1.
EverybodyOnB1 == [c \in Conn |-> {b1}]
\* Every client on every bus.
EverybodyEverywhere == [c \in Conn |-> Bus]

Symmetry == Permutations(Conn) \cup Permutations(Addr)
\* With every client on every bus, buses, descriptors and addresses are alike.
BusSymmetry == Permutations(Bus) \cup Permutations(Fd) \cup Permutations(Addr)
=============================================================================
