------------------------------ MODULE MCPlatform ------------------------------
(***************************************************************************)
(* Platform with the values of its constants for TLC, and the fairness of  *)
(* the demonstration.                                                      *)
(***************************************************************************)
EXTENDS Platform

\* HKDF: lengths on both sides of every bound.
MCHkdfLengths ==
    {0, 1, 31, 32, 33, 63, 64, 65, 8127, 8128, 8129, 8159, 8160, 8161, 8192, 65504, 65535}

\* CMAC: "kbad" has a length no cipher has; t1 starts over after an error.
MCCmac == [
    Thread |-> {"t1", "t2"}, Careful |-> {"t1"}, Key |-> {"ka", "kb", "kbad"},
    KeyLength |-> [k \in {"ka", "kb", "kbad"} |->
                      IF k = "kbad" THEN 20 ELSE IF k = "ka" THEN 16 ELSE 32],
    Block |-> {"x"}, TagSizes |-> {0, 4, 17}, MaxBlocks |-> 2]

\* CRC: frames of up to three parts, one of which may be empty.
MCCrc == [
    Thread |-> {"t1", "t2"},
    Part |-> {<< >>, <<0 .. 7, {0}>>, <<{0, 4, 5}, {1, 4, 5}, {0, 1, 4, 5}>>},
    MaxParts |-> 3]

\* Timeouts: four units in a second.
MCTimeout == [Thread |-> {"t1", "t2"}, PerSecond |-> 4, MaxTimeout |-> 9, MaxClock |-> 14]

\* Signatures: numbers at which the number of bytes or the sign bit changes.
MCFormatLengths ==
    LET Around(bits) == {1, 7, 8, 9, bits - 9, bits - 8, bits - 7, bits - 1, bits}
    IN  [NIST_P_256 |-> Around(256), NIST_P_384 |-> Around(384), NIST_P_521 |-> Around(521),
         BP_P_256 |-> Around(256), BP_P_384 |-> Around(384), BP_P_512 |-> Around(512)]

MCDemo == [Bus |-> {"b1", "b2"}, Worker |-> {"w1", "w2"}, NoBus |-> "none"]

-----------------------------------------------------------------------------
\* The main loop and the workers of the demonstration run.
Fairness ==
    /\ WF_all(part = "demo" /\ Demo!update_ui_idle /\ UNCHANGED <<part, vars>>)
    /\ \A w \in demo.Worker :
          WF_all(part = "demo" /\ Demo!auth_worker_thread(w) /\ UNCHANGED <<part, vars>>)

MCSpec == PartsSpec /\ Fairness

-----------------------------------------------------------------------------
\* The button of the demonstration comes back after every run.
ButtonComesBack ==
    (part = "demo" /\ \E w \in demo.Worker : v9[w] # "none") ~> (part = "demo" /\ (v2 \/ v1 = "quit"))
=============================================================================
