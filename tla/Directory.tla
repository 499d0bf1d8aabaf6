----------------------------- MODULE Directory ------------------------------
(***************************************************************************)
(* leveldb: the directory of a database.  The names of its files and how   *)
(* they are parsed (db/filename.cc, util/logging.cc), and DestroyDB        *)
(* (db/db_impl.cc) beside processes that open the database.                *)
(*                                                                         *)
(* A name is a stem, digits and a suffix; numbers are written in Base with *)
(* at least Width digits and fit below MaxNumber + 1 (10, 6 and 2^64 in    *)
(* the code).  LOCK is kept apart: a process locks the file it opened,     *)
(* which may no longer be the one of that name (module PosixFiles is about *)
(* the threads of one process).                                            *)
(***************************************************************************)
EXTENDS Integers, FiniteSets, SequencesExt

CONSTANTS
    Base, Width, MaxNumber,
    Procs,      \* processes that use the directory, one call at a time
    Foreign,    \* files of others that are in it
    Types,      \* the types of files made
    MaxFiles,   \* bound: numbered files made
    MaxLocks,   \* bound: LOCK files made
    MaxFaults   \* bound: deletions that fail

DirectoryAssumption ==
    /\ Base \in Nat /\ Base > 1 /\ Width \in Nat /\ MaxNumber \in Nat
    /\ Types \subseteq {"log", "table", "temp", "descriptor"}
    /\ MaxFiles \in Nat /\ MaxLocks \in Nat /\ MaxFaults \in Nat

Name(stem, digits, suffix) == [stem |-> stem, digits |-> digits, suffix |-> suffix]

\* snprintf of a number, without and with padding.
NumberDigits[n \in Nat] == IF n < Base THEN <<n>> ELSE Append(NumberDigits[n \div Base], n % Base)
Padded(n) == LET ds == NumberDigits[n] IN [i \in 1 .. Max({Width - Len(ds), 0}) |-> 0] \o ds

Suffix == [log |-> ".log", table |-> ".ldb", temp |-> ".dbtmp"]
Numbered == DOMAIN Suffix \cup {"descriptor"}
FileName(type, n) ==
    IF type = "descriptor" THEN Name("MANIFEST-", Padded(n), "") ELSE Name("", Padded(n), Suffix[type])
Special(name) == Name(name, <<>>, "")
Current == Special("CURRENT")
InfoLog == Special("LOG")
OldInfoLog == Special("LOG.old")
Lock == Special("LOCK")
-----------------------------------------------------------------------------
(* Parsing *)

Refused == -1

\* The number that the digits write, unless there are none or it is too large.
ConsumeDecimalNumber(ds) ==
    IF ds = <<>> THEN Refused
    ELSE FoldLeft(LAMBDA v, c :
            IF \/ v = Refused \/ v > MaxNumber \div Base
               \/ v = MaxNumber \div Base /\ c > MaxNumber % Base
            THEN Refused ELSE v * Base + c, 0, ds)

TypeOf(name) ==
    CASE name = Current -> "current"
      [] name = Lock -> "lock"
      [] name \in {InfoLog, OldInfoLog} -> "info"
      [] name.stem = "MANIFEST-" /\ name.suffix = "" -> "descriptor"
      [] name.stem = "" /\ name.suffix = ".log" -> "log"
      [] name.stem = "" /\ name.suffix \in {".sst", ".ldb"} -> "table"
      [] name.stem = "" /\ name.suffix = ".dbtmp" -> "temp"
      [] OTHER -> "none"

NoFile == [type |-> "none", number |-> 0]
ParseFileName(name) ==
    LET n == ConsumeDecimalNumber(name.digits) IN
    IF TypeOf(name) \in {"current", "lock", "info"} THEN [type |-> TypeOf(name), number |-> 0]
    ELSE IF TypeOf(name) = "none" \/ n = Refused THEN NoFile
    ELSE [type |-> TypeOf(name), number |-> n]
-----------------------------------------------------------------------------
VARIABLES
    exists, files,  \* the directory and what is in it, LOCK apart
    lockFile,       \* which file has the name LOCK, 0 if none
    lockOwner,      \* which process fcntl has given each LOCK file to
    locks, made, faults,        \* bounds: LOCK files and numbered files made, failures
    pc, task, fd,   \* what each process does, and the LOCK file it has open
    todo, ok,       \* DestroyDB's list and its result so far
    alone,          \* ghost: nobody else has begun to open the database meanwhile
    stolen          \* ghost: whose LOCK file a DestroyDB has removed since it was opened

dirVars == <<exists, files, lockFile, lockOwner, locks, made, faults>>
procVars == <<pc, task, fd, todo, ok, alone, stolen>>
vars == <<dirVars, procVars>>

Nobody == "nobody"
Idle == {"out", "done"}

Init ==
    /\ exists = (Foreign # {}) /\ files = Foreign /\ lockFile = 0
    /\ lockOwner = [i \in 1 .. MaxLocks |-> Nobody] /\ locks = 0 /\ made = 0 /\ faults = 0
    /\ pc = [p \in Procs |-> "out"] /\ task = [p \in Procs |-> "open"] /\ fd = [p \in Procs |-> 0]
    /\ todo = [p \in Procs |-> {}] /\ ok = [p \in Procs |-> TRUE] /\ alone = [p \in Procs |-> FALSE]
    /\ stolen = {}

\* The call of p is over and its result forgotten.
Ends(p) ==
    /\ pc' = [pc EXCEPT ![p] = "out"] /\ task' = [task EXCEPT ![p] = "open"]
    /\ fd' = [fd EXCEPT ![p] = 0] /\ todo' = [todo EXCEPT ![p] = {}]
    /\ ok' = [ok EXCEPT ![p] = TRUE] /\ alone' = [alone EXCEPT ![p] = FALSE]
    /\ stolen' = stolen \ {p}
Goes(p, from, to) == pc[p] \in from /\ pc' = [pc EXCEPT ![p] = to]
Free(p) == [i \in DOMAIN lockOwner |-> IF lockOwner[i] = p THEN Nobody ELSE lockOwner[i]]

\* DB::Open before it has the lock: the directory and a new info log.
SanitizeOptions(p) ==
    /\ Goes(p, Idle, "lock file")
    /\ exists' = TRUE
    /\ files' = files \cup {InfoLog} \cup (IF InfoLog \in files THEN {OldInfoLog} ELSE {})
    /\ task' = [task EXCEPT ![p] = "open"] /\ ok' = [ok EXCEPT ![p] = TRUE]
    /\ alone' = [q \in Procs |-> FALSE]
    /\ UNCHANGED <<lockFile, lockOwner, locks, made, faults, fd, todo, stolen>>

\* DestroyDB lists the directory before it has the lock.
GetChildren(p) ==
    /\ exists /\ Goes(p, Idle, "lock file")
    /\ todo' = [todo EXCEPT ![p] = files \cup (IF lockFile = 0 THEN {} ELSE {Lock})]
    /\ task' = [task EXCEPT ![p] = "destroy"] /\ ok' = [ok EXCEPT ![p] = TRUE]
    /\ alone' = [q \in Procs |-> IF q = p THEN \A r \in Procs \ {p} : pc[r] \in Idle
                                          ELSE FALSE]
    /\ UNCHANGED <<dirVars, fd, stolen>>

\* LockFile opens LOCK, which it makes if it is not there (Open makes the
\* directory again, too) ...
OpenLockFile(p) ==
    /\ pc[p] = "lock file"
    /\ IF ~exists /\ task[p] = "destroy"
       THEN Ends(p) /\ UNCHANGED <<exists, lockFile, locks>>
       ELSE /\ pc' = [pc EXCEPT ![p] = "lock"] /\ exists' = TRUE
            /\ IF lockFile = 0 THEN locks < MaxLocks /\ locks' = locks + 1 /\ lockFile' = locks + 1
                               ELSE UNCHANGED <<locks, lockFile>>
            /\ fd' = [fd EXCEPT ![p] = lockFile'] /\ UNCHANGED <<task, todo, ok, alone, stolen>>
    /\ UNCHANGED <<files, lockOwner, made, faults>>

\* ... and locks the file it opened, or closes it again.
LockOrUnlock(p) ==
    /\ pc[p] = "lock"
    /\ IF lockOwner[fd[p]] = Nobody
       THEN /\ pc' = [pc EXCEPT ![p] = task[p]] /\ lockOwner' = [lockOwner EXCEPT ![fd[p]] = p]
            /\ UNCHANGED <<task, fd, todo, ok, alone, stolen>>
       ELSE Ends(p) /\ UNCHANGED lockOwner
    /\ UNCHANGED <<exists, files, lockFile, locks, made, faults>>

\* The open database makes its files, CURRENT with the first.
NewFile(p, type) ==
    /\ pc[p] = "open" /\ made < MaxFiles /\ made' = made + 1
    /\ files' = files \cup {Current, FileName(type, made + 1)}
    /\ UNCHANGED <<exists, lockFile, lockOwner, locks, faults, procVars>>

\* ~DBImpl, or the process is killed in any call.
Leave(p) ==
    /\ pc[p] \notin Idle /\ Ends(p) /\ lockOwner' = Free(p)
    /\ UNCHANGED <<exists, files, lockFile, locks, made, faults>>
-----------------------------------------------------------------------------
(* DestroyDB with the lock *)

\* Mutant: LOCK goes with the other files, while it is held.
DestroyLockToo(p, name) ==
    /\ pc[p] = "destroy" /\ name \in todo[p]
    /\ todo' = [todo EXCEPT ![p] = @ \ {name}]
    /\ files' = IF ParseFileName(name).type = "none" THEN files ELSE files \ {name}
    /\ lockFile' = IF name = Lock THEN 0 ELSE lockFile
    /\ UNCHANGED <<exists, lockOwner, locks, made, faults, pc, task, fd, ok, alone, stolen>>

\* One turn of the loop, in the order of readdir: any.
DestroyFile(p, name) ==
    /\ pc[p] = "destroy" /\ name \in todo[p]
    /\ todo' = [todo EXCEPT ![p] = @ \ {name}]
    /\ IF ParseFileName(name).type \in {"none", "lock"} THEN UNCHANGED <<files, faults, ok>>
       ELSE \/ /\ files' = files \ {name} /\ UNCHANGED faults
               /\ ok' = [ok EXCEPT ![p] = @ /\ name \in files]
            \/ /\ faults < MaxFaults /\ faults' = faults + 1
               /\ ok' = [ok EXCEPT ![p] = FALSE] /\ UNCHANGED files
    /\ UNCHANGED <<exists, lockFile, lockOwner, locks, made, pc, task, fd, alone, stolen>>

UnlockFile(p) ==
    /\ todo[p] = {} /\ Goes(p, {"destroy"}, "unlocked") /\ lockOwner' = Free(p)
    /\ UNCHANGED <<exists, files, lockFile, locks, made, faults, task, fd, todo, ok, alone, stolen>>

\* DeleteFile(lockname), whichever file that is by now, and who has it open.
DeleteLock(p) ==
    /\ Goes(p, {"unlocked"}, "remove dir") /\ lockFile' = 0
    /\ stolen' = stolen \cup {q \in Procs : pc[q] \in {"lock", "open", "destroy"} /\ fd[q] = lockFile}
    /\ UNCHANGED <<exists, files, lockOwner, locks, made, faults, task, fd, todo, ok, alone>>

\* DeleteDir fails if there are other files.
DeleteDir(p) ==
    /\ Goes(p, {"remove dir"}, "done") /\ fd' = [fd EXCEPT ![p] = 0]
    /\ task' = [task EXCEPT ![p] = "open"]
    /\ exists' = (exists /\ (files # {} \/ lockFile # 0))
    /\ stolen' = stolen \ {p}
    /\ UNCHANGED <<files, lockFile, lockOwner, locks, made, faults, todo, ok, alone>>

Next ==
    \E p \in Procs :
        \/ SanitizeOptions(p) \/ GetChildren(p) \/ OpenLockFile(p) \/ LockOrUnlock(p)
        \/ \E type \in Types : NewFile(p, type)
        \/ \E name \in todo[p] : DestroyFile(p, name)
        \/ Leave(p) \/ UnlockFile(p) \/ DeleteLock(p) \/ DeleteDir(p)

Spec == Init /\ [][Next]_vars
-----------------------------------------------------------------------------
\* Every name that the code makes parses back to its type and number, and digits
\* are read exactly or, when the number does not fit, refused (filename.cc:20-59
\* against 77-122).
Value(ds) == FoldLeft(LAMBDA v, c : v * Base + c, 0, ds)
NamesParseBack ==
    /\ \A type \in Numbered, n \in 0 .. MaxNumber :
          ParseFileName(FileName(type, n)) = [type |-> type, number |-> n]
    /\ \A length \in 1 .. 4 : \A ds \in [1 .. length -> 0 .. Base - 1] :
          ParseFileName(Name("", ds, ".sst")) =
              IF Value(ds) <= MaxNumber THEN [type |-> "table", number |-> Value(ds)] ELSE NoFile

\* LockFile is "used to prevent concurrent access to the same db by multiple
\* processes" (env.h): nobody else has the database open, or destroys it, while
\* one does.  The one exception is a process whose LOCK file was unlinked by a
\* DestroyDB that had given it up before (db_impl.cc:1561-1562).
OneUser == Cardinality({p \in Procs : pc[p] \in {"open", "destroy"}} \ stolen) <= 1

\* DestroyDB leaves the files of others alone (1553).
ForeignStay == Foreign \subseteq files

\* A DestroyDB that says OK has removed all that was the database's and, if
\* nothing else was in it, the directory, provided nobody came in between:
\* the list is made before the lock is taken (1541, 1548).
NothingLeft ==
    \A p \in Procs : pc[p] = "done" /\ ok[p] /\ alone[p] =>
        /\ files = Foreign /\ lockFile = 0 /\ exists = (Foreign # {})
=============================================================================
