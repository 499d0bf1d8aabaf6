------------------------------- MODULE MCLSM -------------------------------
(***************************************************************************)
(* LSM for TLC, in two settings: two keys with a snapshot and manual       *)
(* compactions, and three keys with files of one entry, so that outputs    *)
(* are cut by size and by grandparent overlap.                             *)
(***************************************************************************)
EXTENDS LSM

VARIABLE setting

Snapshots == INSTANCE LSM WITH MaxKey <- 2, MaxMemLevel <- 2, MaxFileSize <- 9,
    GrandLimit <- 2, ExpandLimit <- 9, MaxWrites <- 4, MaxSnapshots <- 1,
    MaxFiles <- 8, Manual <- TRUE
Files == INSTANCE LSM WITH MaxKey <- 3, MaxMemLevel <- 1, MaxFileSize <- 1,
    GrandLimit <- 1, ExpandLimit <- 4, MaxWrites <- 4, MaxSnapshots <- 0,
    MaxFiles <- 9, Manual <- FALSE

LSMInit == Init /\ setting \in {"snapshots", "files"}
LSMNext ==
    /\ \/ setting = "snapshots" /\ Snapshots!Next
       \/ setting = "files" /\ Files!Next
    /\ UNCHANGED setting
LSMSpec == LSMInit /\ [][LSMNext]_<<vars, setting>>
=============================================================================
