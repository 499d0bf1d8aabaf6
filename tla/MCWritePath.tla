---------------------------- MODULE MCWritePath ----------------------------
(***************************************************************************)
(* WritePath for TLC, in two settings: memtables that hold a batch and two *)
(* failing file operations, and memtables that are full at once and one    *)
(* failure.  One batch has two updates; one write is synchronous.          *)
(***************************************************************************)
EXTENDS WritePath

VARIABLE setting

MCUpdates == [x \in Writers |-> IF x = "two" THEN 2 ELSE 1]

Roomy == INSTANCE WritePath WITH BufferSize <- 1, L0Slowdown <- 2, MaxFaults <- 2
Full == INSTANCE WritePath WITH BufferSize <- 0, L0Slowdown <- 1, MaxFaults <- 1

WriteInit == Init /\ setting \in {"roomy", "full"}
WriteNext ==
    /\ \/ setting = "roomy" /\ Roomy!Next
       \/ setting = "full" /\ Full!Next
    /\ UNCHANGED setting
WriteSpec == WriteInit /\ [][WriteNext]_<<vars, setting>>
=============================================================================
