---------------------------- MODULE MCTableCache ----------------------------
(***************************************************************************)
(* The caches and the files under them, for TLC, one at a time: the table  *)
(* cache (as the configuration says) and one shard of the LRU cache alone, *)
(* whose memory cells and readers are alike; the database's lock file; and *)
(* the limits on open files.                                               *)
(***************************************************************************)
EXTENDS TableCache, TLC

VARIABLES
    setting,
    lockedFiles, osLock, holder, dropped, allowed, user, descriptors, maps   \* PosixFiles

lockVars == <<lockedFiles, osLock, holder, dropped>>
fileVars == <<allowed, user, descriptors, maps>>
allVars == <<tcVars, lockVars, fileVars, setting>>

Symmetry == Permutations(Handles) \cup Permutations(Readers)

\* The cache alone: charges 1 and 2.
Shard == INSTANCE TableCache WITH Charges <- {1, 2}, Capacity <- 2, MaxHeld <- 2

\* Three processes, three threads of one, and two threads of one beside another.
LockUsers == {"t1", "t2", "t3"}
FileUsers == {"u1", "u2", "u3", "u4"}
Apart == INSTANCE PosixFiles WITH
    Threads <- LockUsers, Processes <- LockUsers, ProcessOf <- [t \in LockUsers |-> t],
    Users <- FileUsers, MaxMmaps <- 1, MaxOpenFiles <- 2
Together == INSTANCE PosixFiles WITH
    Threads <- LockUsers, Processes <- LockUsers, ProcessOf <- [t \in LockUsers |-> "t1"],
    Users <- FileUsers, MaxMmaps <- 1, MaxOpenFiles <- 2
Mixed == INSTANCE PosixFiles WITH
    Threads <- LockUsers, Processes <- LockUsers,
    ProcessOf <- [t \in LockUsers |-> IF t = "t3" THEN "t3" ELSE "t1"],
    Users <- FileUsers, MaxMmaps <- 1, MaxOpenFiles <- 2

ASSUME Apart!LockAssumption /\ Together!LockAssumption /\ Mixed!LockAssumption /\ Apart!LimitsAssumption

CacheInit ==
    /\ setting \in {"tables", "shard", "apart", "together", "mixed", "files"}
    /\ TCInit /\ Apart!LockInit /\ Apart!FilesInit

CacheNext ==
    /\ \/ setting = "tables" /\ TCNext /\ UNCHANGED <<lockVars, fileVars>>
       \/ /\ setting = "shard" /\ Shard!Next
          /\ UNCHANGED <<reader, version, onDisk, lockVars, fileVars>>
       \/ /\ \/ setting = "apart" /\ Apart!LockNext
             \/ setting = "together" /\ Together!LockNext
             \/ setting = "mixed" /\ Mixed!LockNext
          /\ UNCHANGED <<tcVars, fileVars>>
       \/ setting = "files" /\ Apart!FilesNext /\ UNCHANGED <<tcVars, lockVars>>
    /\ UNCHANGED setting

CacheSpec == CacheInit /\ [][CacheNext]_allVars
-----------------------------------------------------------------------------
\* Open tables are bounded by the capacity and the readers that race (table_cache.cc:41-78).
TablesBounded == setting = "tables" => OpenTablesBounded

\* No two hold the lock of a database at once, unless a call of a process that
\* has it closed the file (env_posix.cc:464-496).
OneHolder ==
    /\ setting = "apart" => Apart!OneHolder
    /\ setting = "together" => Together!OneHolder
    /\ setting = "mixed" => Mixed!OneHolder

\* When nobody holds the lock or tries to, it can be taken (464-496).
FreeWhenIdle == Apart!FreeWhenIdle

\* No more mappings and kept descriptors than allowed (env_posix.cc:45-73).
LimitsHold == Apart!LimitsHold

\* When no file is open, the limiters allow what they did at the start (134-195, 347-371).
NothingLeaks == Apart!NothingLeaks

\* The lock and the limits on files are kept and given back.
FilesShared == OneHolder /\ FreeWhenIdle /\ LimitsHold /\ NothingLeaks /\ TablesBounded
=============================================================================
