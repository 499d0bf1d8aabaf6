----------------------------- MODULE MCThreads ------------------------------
(***************************************************************************)
(* What runs beside other threads or loops, for TLC, one at a time: the    *)
(* skip list (as the configuration says) with a writer and a reader, the   *)
(* threads of WritePath with a flush and a manual compaction or with a     *)
(* failing file operation, Env's background thread, and DBIter's loops.    *)
(***************************************************************************)
EXTENDS SkipList

VARIABLES
    setting,
    d, queue, w, rd, man, bg, cvWait, bgWait, faults, closer,           \* WritePath
    items, started, mutex, entering, thread, running, ran, scheduled,   \* BackgroundThread
    entries, last, sequence, iter, direction, valid,                    \* DBIter
    savedKey, savedValue, pc, skipping, valueType, want

writeVars == <<d, queue, w, rd, man, bg, cvWait, bgWait, faults, closer>>
envVars == <<items, started, mutex, entering, thread, running, ran, scheduled>>
iterVars == <<entries, last, sequence, iter, direction, valid,
              savedKey, savedValue, pc, skipping, valueType, want>>
allVars == <<vars, writeVars, envVars, iterVars, setting>>

Callers == {"a", "c", "flush"}
MCUpdates == [x \in Callers |-> IF x = "flush" THEN 0 ELSE 1]

Manual == INSTANCE WritePath WITH
    Writers <- Callers, Readers <- {}, Manuals <- {"m"}, Updates <- MCUpdates,
    Synchronous <- {"c"}, GroupLimit <- 2, BufferSize <- 0, L0Compaction <- 1,
    L0Slowdown <- 1, L0Stop <- 1, MaxLogs <- 3, MaxFaults <- 0, None <- "none"
Failing == INSTANCE WritePath WITH
    Writers <- Callers, Readers <- {}, Manuals <- {}, Updates <- MCUpdates,
    Synchronous <- {"c"}, GroupLimit <- 2, BufferSize <- 0, L0Compaction <- 1,
    L0Slowdown <- 1, L0Stop <- 1, MaxLogs <- 4, MaxFaults <- 1, None <- "none"
Env == INSTANCE BackgroundThread WITH
    queue <- items, bg <- thread, Items <- {"i1", "i2", "i3"}, Schedulers <- {"s1", "s2"}
Iter == INSTANCE DBIter WITH MaxKey <- 2, Old <- 3, New <- 1

ASSUME Manual!WriteAssumption /\ Failing!WriteAssumption /\ Iter!IterAssumption

ThreadsInit ==
    /\ Init /\ Env!Init
    /\ \/ setting \in {"list", "env"} /\ Manual!Init /\ iter = 0
       \/ setting = "manual" /\ Manual!Init /\ iter = 0
       \/ setting = "failing" /\ Failing!Init /\ iter = 0
       \/ setting = "iter" /\ Manual!Init /\ Iter!Init
    /\ setting # "iter" =>
        /\ entries = {} /\ last = 0 /\ sequence = 0 /\ direction = 0 /\ valid = FALSE
        /\ savedKey = 0 /\ savedValue = 0 /\ pc = "idle" /\ skipping = FALSE
        /\ valueType = 0 /\ want = 0

ThreadsNext ==
    /\ \/ setting = "list" /\ Next /\ UNCHANGED <<writeVars, envVars, iterVars>>
       \/ /\ \/ setting = "manual" /\ Manual!Next
             \/ setting = "failing" /\ Failing!Next
          /\ UNCHANGED <<vars, envVars, iterVars>>
       \/ setting = "env" /\ Env!Next /\ UNCHANGED <<vars, writeVars, iterVars>>
       \/ setting = "iter" /\ Iter!Next /\ UNCHANGED <<vars, writeVars, envVars>>
    /\ UNCHANGED setting

\* What goes on by itself: threads in a search or in Insert; the threads of a
\* database and the background thread (mutexes are handed out fairly, wakeups
\* without a signal need not come); the loops of an iterator's call.
WriterSteps(x) ==
    \/ setting = "manual" /\ (\/ Manual!AwaitTurn(x) \/ Manual!MakeRoomForWrite(x)
                              \/ Manual!Delayed(x) \/ Manual!LogGroup(x) \/ Manual!SyncLog(x)
                              \/ Manual!Insert(x) \/ Manual!FinishGroup(x) \/ Manual!Reply(x))
    \/ setting = "failing" /\ (\/ Failing!AwaitTurn(x) \/ Failing!MakeRoomForWrite(x)
                               \/ Failing!Delayed(x) \/ Failing!LogGroup(x) \/ Failing!SyncLog(x)
                               \/ Failing!Insert(x) \/ Failing!FinishGroup(x) \/ Failing!Reply(x))
BackgroundSteps ==
    \/ setting = "manual" /\ (\/ Manual!BackgroundCall \/ Manual!BuildTable \/ Manual!ApplyFlush
                              \/ Manual!PrioritizeImm \/ Manual!FinishCompaction)
    \/ setting = "failing" /\ (\/ Failing!BackgroundCall \/ Failing!BuildTable
                               \/ Failing!ApplyFlush \/ Failing!PrioritizeImm
                               \/ Failing!FinishCompaction)

ThreadsSpec ==
    /\ ThreadsInit /\ [][ThreadsNext]_allVars
    /\ WF_vars(setting = "list" /\ WriterStep)
    /\ \A r \in Readers : WF_vars(setting = "list" /\ Step(r))
    /\ \A x \in Callers : WF_writeVars(WriterSteps(x))
    /\ WF_writeVars(setting = "manual" /\ man["m"].pc = "running" /\ Manual!CompactRange("m"))
    /\ WF_writeVars(BackgroundSteps)
    /\ WF_writeVars(setting = "manual" /\ Manual!AwaitBackground)
    /\ WF_writeVars(setting = "failing" /\ Failing!AwaitBackground)
    /\ SF_envVars(setting = "env" /\ Env!Lock) /\ WF_envVars(setting = "env" /\ Env!Wait)
    /\ WF_envVars(setting = "env" /\ Env!Take) /\ WF_envVars(setting = "env" /\ Env!Return)
    /\ \A s \in {"s1", "s2"} : WF_envVars(setting = "env" /\ Env!Enqueue(s))
    /\ WF_iterVars(setting = "iter" /\ Iter!Loops)
-----------------------------------------------------------------------------
\* Every Write returns, also when it waits for the background thread or when
\* a file operation fails: no signal of w.cv or bg_cv_ is lost (1196-1260).
WritesReturn == setting \in {"manual", "failing"} => Manual!WritesReturn

\* CompactRange and the destructor return (db_impl.cc:595-636, 155-172).
WaitersReturn ==
    /\ setting = "manual" /\ man["m"].pc = "running"
          ~> setting = "manual" /\ man["m"].pc = "returned"
    /\ closer = "closing" ~> closer = "closed"

\* Everything passed to Env::Schedule is run: the thread is signalled only when
\* the queue was empty (env_posix.cc:612-650).
AllRun == setting = "env" => Env!AllRun

\* And in the order of the calls, once.
InOrder == Env!InOrder

\* Every call of an iterator returns (db_iter.cc:172-274).
CallsReturn == setting = "iter" => Iter!CallsReturn

\* Whatever reads comes to an end: searches of the memtable and calls of the
\* user's iterator, although writers insert ahead of them.
ReadsEnd == SearchEnds /\ CallsReturn

\* Whoever waits for another thread of the database returns.
CallersReturn == WritesReturn /\ WaitersReturn

\* The background thread runs all that is scheduled, in order and once.
RunsInOrder == []InOrder /\ AllRun
=============================================================================
