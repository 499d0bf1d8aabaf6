----------------------------- MODULE MCRecovery -----------------------------
(***************************************************************************)
(* Recovery and Repair for TLC, one at a time: databases that lose power,  *)
(* that reuse their logs, that are compacted while iterators read them,    *)
(* and damaged ones under RepairDB, with calls that fail and repairs that  *)
(* are stopped, by the user or by a crash of the machine; and the          *)
(* directory of one that is opened and destroyed.                          *)
(***************************************************************************)
EXTENDS Recovery

VARIABLES
    setting,
    phase, files, lost, version, manifest, lastSeq, nextFile, written,  \* Repair
    logsToDo, tableNumbers, repaired, maxSequence, next, copying, stops, found, faulted,
    exists, names, lockFile, lockOwner, locks, made, faults,    \* Directory
    call, task, fd, todo, ok, alone, stolen

repairVars == <<phase, files, lost, version, manifest, lastSeq, nextFile, written, logsToDo,
                tableNumbers, repaired, maxSequence, next, copying, stops, found, faulted>>
dirVars == <<exists, names, lockFile, lockOwner, locks, made, faults,
             call, task, fd, todo, ok, alone, stolen>>

Power == INSTANCE Recovery WITH ReuseLogs <- FALSE, MaxWrites <- 3, MaxNumber <- 10,
    MaxCrashes <- 2, Compactions <- FALSE
Reuse == INSTANCE Recovery WITH ReuseLogs <- TRUE, MaxWrites <- 2, MaxNumber <- 8,
    MaxCrashes <- 0, Compactions <- FALSE
Compacted == INSTANCE Recovery WITH ReuseLogs <- FALSE, MaxWrites <- 2, MaxNumber <- 11,
    MaxCrashes <- 1, Compactions <- TRUE

Stopped == INSTANCE Repair WITH logs <- logsToDo, tables <- repaired,
    Keys <- {1, 2}, MaxSeq <- 2, MaxFile <- 4, MaxStops <- 1,
    Faults <- {"log", "copy", "descriptor"}, Damages <- {"lost"}, MachineCrash <- FALSE
Crashed == INSTANCE Repair WITH logs <- logsToDo, tables <- repaired,
    Keys <- {1, 2}, MaxSeq <- 2, MaxFile <- 4, MaxStops <- 1,
    Faults <- {"log", "create", "copy", "descriptor"}, Damages <- {"lost", "changed"},
    MachineCrash <- TRUE

\* A file of others, named like a table but with too large a number.
Others == {[stem |-> "", digits |-> <<2, 2>>, suffix |-> ".ldb"]}
\* Numbers in base 3, with at least two digits.
Dir == INSTANCE Directory WITH
    Base <- 3, Width <- 2, MaxNumber <- 7, Procs <- {"p1", "p2"}, Foreign <- Others,
    Types <- {"table"}, MaxFiles <- 1, MaxLocks <- 2, MaxFaults <- 1,
    pc <- call, files <- names

ASSUME Dir!DirectoryAssumption

OpenInit ==
    /\ Init /\ Stopped!Init /\ Dir!Init
    /\ setting \in {"power", "reuse", "compacted", "stopped", "crashed", "directory"}
OpenNext ==
    /\ \/ /\ \/ setting = "power" /\ Power!Next
             \/ setting = "reuse" /\ Reuse!Next
             \/ setting = "compacted" /\ Compacted!Next
          /\ UNCHANGED <<repairVars, dirVars>>
       \/ /\ \/ setting = "stopped" /\ Stopped!Next
             \/ setting = "crashed" /\ Crashed!Next
          /\ UNCHANGED <<vars, dirVars>>
       \/ setting = "directory" /\ Dir!Next /\ UNCHANGED <<vars, repairVars>>
    /\ UNCHANGED setting
OpenSpec == OpenInit /\ [][OpenNext]_<<vars, repairVars, dirVars, setting>>
-----------------------------------------------------------------------------
\* Nothing that a repair could read is destroyed by it, by calls that fail in
\* it, by stopping it and running it again, or by opening the database after
\* it: it is in the database or in lost/ (repair.cc:193-449).  A crash of the
\* machine or a table that cannot be made takes data with it.
RepairDestroysNothing == setting = "stopped" => Stopped!NothingDestroyed

\* A repair in which no call failed recovers everything its directory had.
RepairRecoversAll == setting = "stopped" => Stopped!RecoversAll

\* What a repaired database writes next is newer than all it holds, and its
\* next file is none that it has, also after crashes and failures.
RepairNumbersFresh == Stopped!NumbersFresh

\* What a repair does to the data it finds.
RepairKeeps == RepairDestroysNothing /\ RepairRecoversAll /\ RepairNumbersFresh

\* File names parse back to what they name (filename.cc:20-122), one process at a
\* time uses the directory, and DestroyDB removes what is the database's and
\* nothing else (db_impl.cc:1537-1566).  What is said of names depends on no state.
DirectoryKept ==
    /\ setting = "directory" /\ names = Others /\ locks = 0 => Dir!NamesParseBack
    /\ Dir!OneUser /\ Dir!ForeignStay /\ Dir!NothingLeft
=============================================================================
