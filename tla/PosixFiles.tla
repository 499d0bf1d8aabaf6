----------------------------- MODULE PosixFiles -----------------------------
(***************************************************************************)
(* leveldb util/env_posix.cc: what the threads and processes that have     *)
(* files open share.  Two machines that do not touch each other.           *)
(*                                                                         *)
(* LockFile and UnlockFile: the LOCK file that keeps a database to one     *)
(* user.  Threads of one process are kept apart by a table in memory       *)
(* (PosixLockTable), processes by fcntl(F_SETLK), whose lock belongs to    *)
(* the process: closing any descriptor of the file gives it up, whichever  *)
(* descriptor it was taken with.                                           *)
(*                                                                         *)
(* NewRandomAccessFile and the limits on mapped files and open descriptors *)
(* (Limiter).  A file is mapped while the limit allows it, else it keeps   *)
(* its descriptor while that limit allows it, else it is opened again for  *)
(* every read, by name.  A file is deleted while readers have it open only *)
(* when nobody needs it any more (modules Recovery and TableCache); here   *)
(* is what each kind of file holds of the system's resources.              *)
(***************************************************************************)
EXTENDS Integers, FiniteSets

CONSTANTS
    Threads, Processes,
    ProcessOf,      \* the process of each thread
    Users,          \* threads, each with one file at a time
    MaxMmaps, MaxOpenFiles

LockAssumption == ProcessOf \in [Threads -> Processes] /\ "none" \notin Processes
LimitsAssumption == IsFiniteSet(Users) /\ MaxMmaps \in Nat /\ MaxOpenFiles \in Nat

VARIABLES
    lockedFiles,    \* lockedFiles[p]: locked_files_ has the name
    osLock,         \* the process that fcntl says has the lock
    holder,         \* where each thread is in LockFile and UnlockFile
    dropped,        \* history: the processes whose lock went with a close of
                    \* another call since they took it
    allowed,        \* allowed_ of the two limiters
    user,           \* where a user is: in Acquire of a limiter, or what its file is
    descriptors,    \* the users that have a descriptor open
    maps            \* the users that have a mapping

lockVars == <<lockedFiles, osLock, holder, dropped>>
fileVars == <<allowed, user, descriptors, maps>>

None == "none"

LockInit ==
    /\ lockedFiles = [p \in Processes |-> FALSE] /\ osLock = None
    /\ holder = [t \in Threads |-> "idle"] /\ dropped = {}

Moves(t, from, to) == holder[t] = from /\ holder' = [holder EXCEPT ![t] = to]

\* close(fd)
Close(p) == osLock' = IF osLock = p THEN None ELSE osLock

\* close(fd) of a call that does not have the lock: it may take the lock of its
\* process with it.
CloseOther(p) == Close(p) /\ dropped' = dropped \cup ({p} \cap {osLock})

-----------------------------------------------------------------------------
(* LockFile *)

OpenFile(t) == Moves(t, "idle", "opened") /\ UNCHANGED <<lockedFiles, osLock, dropped>>

Insert(t) ==
    /\ ~lockedFiles[ProcessOf[t]] /\ Moves(t, "opened", "inserted")
    /\ lockedFiles' = [lockedFiles EXCEPT ![ProcessOf[t]] = TRUE] /\ UNCHANGED <<osLock, dropped>>

\* "already held by process": the descriptor is closed again.
HeldByProcess(t) ==
    /\ lockedFiles[ProcessOf[t]] /\ Moves(t, "opened", "idle") /\ CloseOther(ProcessOf[t])
    /\ UNCHANGED lockedFiles

SetLock(t) ==
    /\ osLock \in {None, ProcessOf[t]} /\ Moves(t, "inserted", "holds") /\ osLock' = ProcessOf[t]
    /\ dropped' = dropped \ {ProcessOf[t]} /\ UNCHANGED lockedFiles

\* Another process has it: close, then take the name out of the table.
HeldByOther(t) ==
    /\ osLock \notin {None, ProcessOf[t]} /\ Moves(t, "inserted", "remove") /\ Close(ProcessOf[t])
    /\ UNCHANGED <<lockedFiles, dropped>>

RemoveName(t) ==
    /\ Moves(t, "remove", "idle") /\ lockedFiles' = [lockedFiles EXCEPT ![ProcessOf[t]] = FALSE]
    /\ UNCHANGED <<osLock, dropped>>

-----------------------------------------------------------------------------
(* UnlockFile: fcntl, the table, close *)

Unlock(t) ==
    Moves(t, "holds", "unlocked") /\ Close(ProcessOf[t]) /\ UNCHANGED <<lockedFiles, dropped>>
UnlockRemove(t) ==
    /\ Moves(t, "unlocked", "removed") /\ lockedFiles' = [lockedFiles EXCEPT ![ProcessOf[t]] = FALSE]
    /\ UNCHANGED <<osLock, dropped>>
UnlockClose(t) == Moves(t, "removed", "idle") /\ CloseOther(ProcessOf[t]) /\ UNCHANGED lockedFiles

\* The process exits, and a new one may take its place.
Exit(p) ==
    /\ holder' = [t \in Threads |-> IF ProcessOf[t] = p THEN "idle" ELSE holder[t]]
    /\ lockedFiles' = [lockedFiles EXCEPT ![p] = FALSE] /\ Close(p)
    /\ dropped' = dropped \ {p}

LockNext ==
    \/ \E t \in Threads :
        \/ OpenFile(t) \/ Insert(t) \/ HeldByProcess(t) \/ SetLock(t) \/ HeldByOther(t) \/ RemoveName(t)
        \/ Unlock(t) \/ UnlockRemove(t) \/ UnlockClose(t)
    \/ \E p \in Processes : Exit(p)

LockSpec == LockInit /\ [][LockNext]_lockVars
-----------------------------------------------------------------------------
\* LockFile's promise: "Used to prevent concurrent access to the same db by
\* multiple processes"; no two callers hold the lock at once, except those of two
\* processes after another call of one of them closed the file: a LockFile that
\* was refused (470), or the end of an UnlockFile (493).
OneHolder ==
    \A t, u \in Threads : holder[t] = "holds" /\ holder[u] = "holds" /\ t # u =>
        ProcessOf[t] # ProcessOf[u] /\ {ProcessOf[t], ProcessOf[u]} \cap dropped # {}

\* The lock can be taken again: when nobody holds it or is in a call, neither the
\* system nor a process believes that it is held (also after failed attempts).
FreeWhenIdle ==
    (\A t \in Threads : holder[t] = "idle") => osLock = None /\ \A p \in Processes : ~lockedFiles[p]

-----------------------------------------------------------------------------
(* Files to read. *)

Limiters == {"mmap", "fd"}
Limit(l) == IF l = "mmap" THEN MaxMmaps ELSE MaxOpenFiles

FilesInit ==
    /\ allowed = [l \in Limiters |-> Limit(l)] /\ user = [u \in Users |-> "none"]
    /\ descriptors = {} /\ maps = {}

Goes(u, from, to) == user[u] = from /\ user' = [user EXCEPT ![u] = to]

\* Limiter::Acquire looks at allowed_ twice, the second time with the mutex.
Allows(l) == allowed[l] > 0
TakeOne(l) == allowed' = [allowed EXCEPT ![l] = @ - 1]
Release(l) == allowed' = [allowed EXCEPT ![l] = @ + 1]

\* NewRandomAccessFile opens the file and asks for a mapping.
NewRandomAccessFile(u) ==
    /\ Goes(u, "none", IF Allows("mmap") THEN "mmap" ELSE "pread")
    /\ descriptors' = descriptors \cup {u} /\ UNCHANGED <<allowed, maps>>

AcquireMmap(u) ==
    /\ IF Allows("mmap") THEN Goes(u, "mmap", "mapping") /\ TakeOne("mmap")
       ELSE Goes(u, "mmap", "pread") /\ UNCHANGED allowed
    /\ UNCHANGED <<descriptors, maps>>

\* mmap, and close(fd) in any case.
MapFile(u) ==
    /\ Goes(u, "mapping", "mapped") /\ maps' = maps \cup {u} /\ descriptors' = descriptors \ {u}
    /\ UNCHANGED allowed
\* Mutant: the place is not given back.
MapFailsKeepsPlace(u) ==
    /\ Goes(u, "mapping", "none") /\ descriptors' = descriptors \ {u} /\ UNCHANGED <<allowed, maps>>

MapFails(u) ==
    /\ Goes(u, "mapping", "none") /\ descriptors' = descriptors \ {u} /\ Release("mmap") /\ UNCHANGED maps

\* PosixRandomAccessFile: keeps the descriptor, or closes it (temporary_fd_).
AskForDescriptor(u) ==
    /\ IF Allows("fd") THEN Goes(u, "pread", "asks") /\ UNCHANGED descriptors
       ELSE Goes(u, "pread", "temporary") /\ descriptors' = descriptors \ {u}
    /\ UNCHANGED <<allowed, maps>>
AcquireDescriptor(u) ==
    /\ IF Allows("fd") THEN Goes(u, "asks", "open") /\ TakeOne("fd") /\ UNCHANGED descriptors
       ELSE Goes(u, "asks", "temporary") /\ descriptors' = descriptors \ {u} /\ UNCHANGED allowed
    /\ UNCHANGED maps

\* Read with a temporary descriptor.
ReadOpens(u) ==
    /\ Goes(u, "temporary", "reading") /\ descriptors' = descriptors \cup {u} /\ UNCHANGED <<allowed, maps>>
ReadCloses(u) ==
    /\ Goes(u, "reading", "temporary") /\ descriptors' = descriptors \ {u} /\ UNCHANGED <<allowed, maps>>

\* The destructors.
DeleteMapped(u) ==
    /\ Goes(u, "mapped", "none") /\ maps' = maps \ {u} /\ Release("mmap") /\ UNCHANGED descriptors
DeleteOpen(u) ==
    /\ Goes(u, "open", "none") /\ descriptors' = descriptors \ {u} /\ Release("fd") /\ UNCHANGED maps
DeleteTemporary(u) ==
    /\ Goes(u, "temporary", "none") /\ UNCHANGED <<allowed, descriptors, maps>>

FilesNext == \E u \in Users :
    \/ NewRandomAccessFile(u) \/ AcquireMmap(u) \/ MapFile(u) \/ MapFails(u)
    \/ AskForDescriptor(u) \/ AcquireDescriptor(u) \/ ReadOpens(u) \/ ReadCloses(u)
    \/ DeleteMapped(u) \/ DeleteOpen(u) \/ DeleteTemporary(u)

FilesSpec == FilesInit /\ [][FilesNext]_fileVars
-----------------------------------------------------------------------------
\* The limits hold: no more mappings and no more kept descriptors than allowed,
\* through races of threads in Acquire and mappings that fail.
LimitsHold ==
    /\ Cardinality(maps) <= MaxMmaps
    /\ Cardinality({u \in Users : user[u] = "open"}) <= MaxOpenFiles

\* And nothing leaks: when no file is open, all descriptors and mappings are closed
\* and the limiters allow as much as at the start.
NothingLeaks ==
    (\A u \in Users : user[u] = "none") =>
        descriptors = {} /\ maps = {} /\ allowed = [l \in Limiters |-> Limit(l)]
=============================================================================
