----------------------------- MODULE MCI2cClient -----------------------------
(* Values of the constants of I2cClient for TLC. *)
EXTENDS I2cClient

CONSTANTS t1, t2, t3, b1

AllOnB1 == [t \in Thread |-> b1]
AllL010 == [t \in Thread |-> "L010"]
OneOfEach == [t \in Thread |-> IF t = t2 THEN "L010" ELSE "A120"]

\* Response lengths: 2 just fits in the first read of an STSAFE-A120, 3 does not.
OneLength == [t \in Thread |-> {3}]
TwoLengths == [t \in Thread |-> IF t = t2 THEN {3} ELSE {2, 3}]
=============================================================================
