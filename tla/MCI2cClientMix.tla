---------------------------- MODULE MCI2cClientMix ----------------------------
(***************************************************************************)
(* I2cClient with two processes, one at a time: two threads whose callers  *)
(* follow stse_ipc.h, or one whose caller calls in any order with any      *)
(* size.  `acting' names the threads of a behaviour.                       *)
(***************************************************************************)
EXTENDS MCI2cClient

VARIABLE acting

MCInit == Init /\ acting \in {Documented, Thread \ Documented}

MCNext ==
    /\ UNCHANGED acting
    /\ \/ \E t \in acting : LibraryCall(t) \/ Library(t) \/ Serve(t) \/ Drop(t)
       \/ DaemonStops \/ DaemonStarts

MCSpec == MCInit /\ [][MCNext]_<<vars, acting>>
=============================================================================
