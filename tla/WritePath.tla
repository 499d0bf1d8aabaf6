----------------------------- MODULE WritePath -----------------------------
(***************************************************************************)
(* leveldb db/db_impl.cc: the threads of a database.  Writers queue up;    *)
(* the one at the front logs and applies a group of batches for itself and *)
(* those behind it.  One background thread turns full memtables into       *)
(* tables and compacts tables.  Readers take a snapshot and references.    *)
(*                                                                         *)
(* An action is what one thread does between taking and giving up mutex_,  *)
(* or one step it takes without the mutex.  A thread in cvWait or bgWait   *)
(* sleeps on its own condition variable or on bg_cv_ and runs only after   *)
(* a signal.  Data are sequence numbers: a memtable, a log or the tables   *)
(* are the set of the updates they hold.  The tables below level 0 are one *)
(* set (see LSM for what is inside), level 0 has a number of files.        *)
(***************************************************************************)
EXTENDS Integers, Sequences, FiniteSets, SequencesExt, FiniteSetsExt

CONSTANTS
    Writers, Readers, Manuals, \* threads: Write, Get, CompactRange
    Updates,                   \* updates of a writer's batch; 0: no batch
    Synchronous,               \* the writers with WriteOptions::sync
    GroupLimit,                \* bound of BuildBatchGroup, in updates
    BufferSize,                \* write_buffer_size, in updates
    L0Compaction, L0Slowdown, L0Stop,  \* config::kL0_*Trigger
    MaxLogs,                   \* bound: log files (and memtables) made
    MaxFaults,                 \* bound: failing file operations
    None

ASSUME WriteAssumption ==
    /\ Updates \in [Writers -> Nat] /\ Synchronous \subseteq Writers
    /\ GroupLimit \in Nat /\ BufferSize \in Nat /\ MaxLogs \in Nat \ {0} /\ MaxFaults \in Nat
    /\ L0Compaction \in Nat /\ L0Slowdown \in Nat /\ L0Stop \in Nat
    /\ L0Compaction > 0 /\ L0Compaction <= L0Slowdown /\ L0Slowdown <= L0Stop
    /\ None \notin Manuals

Batches == {x \in Writers : Updates[x] > 0}
Flushers == Writers \ Batches   \* TEST_CompactMemTable writes a NULL batch

VARIABLES
    d,       \* the fields of DBImpl and VersionSet
    queue,   \* writers_
    w,       \* the writers' local state
    rd,      \* the readers' local state
    man,     \* the CompactRange callers' local state
    bg,      \* the background thread
    cvWait, bgWait, faults, closer

vars == <<d, queue, w, rd, man, bg, cvWait, bgWait, faults, closer>>

NewWriter == [pc |-> "start", delay |-> FALSE, seqs |-> {}, left |-> {}, group |-> <<>>,
              status |-> "ok", done |-> FALSE]

Init ==
    /\ d = [mem |-> [n \in 1 .. MaxLogs |-> {}], logged |-> [n \in 1 .. MaxLogs |-> {}],
            synced |-> [n \in 1 .. MaxLogs |-> {}], logNumber |-> 1, imm |-> 0, hasImm |-> FALSE,
            tables |-> {}, level0 |-> 0, keptLog |-> 1, lastSequence |-> 0,
            error |-> FALSE, shutting |-> FALSE, manual |-> None, scheduled |-> FALSE]
    /\ queue = <<>> /\ w = [x \in Writers |-> NewWriter]
    /\ rd = [r \in Readers |-> [pc |-> "idle", snap |-> 0, mem |-> 1, imm |-> 0, tables |-> {}, got |-> {}]]
    /\ man = [m \in Manuals |-> [pc |-> "start", done |-> FALSE]]
    /\ bg = [pc |-> "idle", nested |-> FALSE, manual |-> None]
    /\ cvWait = {} /\ bgWait = {} /\ faults = 0 /\ closer = "open"

Seqs(n, k) == n + 1 .. n + k

\* MaybeScheduleCompaction
MaybeScheduleCompaction(s) ==
    [s EXCEPT !.scheduled = \/ @
                            \/ /\ ~s.shutting /\ ~s.error
                               /\ (s.imm # 0 \/ s.manual # None \/ s.level0 >= L0Compaction)]

\* The background thread finds queued work once it is scheduled.
Queued(b, s) == IF s.scheduled /\ b.pc = "idle" THEN [b EXCEPT !.pc = "queued"] ELSE b

\* RecordBackgroundError: remembers the first error and wakes everybody.
RecordBackgroundError(s) == [s EXCEPT !.error = TRUE]
-----------------------------------------------------------------------------
(* Write *)

Succeeded == {y \in Writers : w[y].pc = "returned" /\ w[y].status = "ok"}

Enqueue(x) ==
    /\ w[x].pc = "start" /\ closer = "open"
    /\ queue' = Append(queue, x)
    /\ w' = [w EXCEPT ![x].pc = "queued"]
    /\ UNCHANGED <<d, rd, man, bg, cvWait, bgWait, faults, closer>>

\* while (!w.done && &w != writers_.front()) w.cv.Wait();
AwaitTurn(x) ==
    /\ w[x].pc = "queued" /\ x \notin cvWait
    /\ \/ /\ w[x].done /\ w' = [w EXCEPT ![x].pc = "reply"] /\ UNCHANGED cvWait
       \/ /\ ~w[x].done /\ queue[1] = x
          /\ w' = [w EXCEPT ![x].pc = "room", ![x].delay = x \in Batches] /\ UNCHANGED cvWait
       \/ /\ ~w[x].done /\ queue[1] # x /\ cvWait' = cvWait \cup {x} /\ UNCHANGED w
    /\ UNCHANGED <<d, queue, rd, man, bg, bgWait, faults, closer>>

\* The number of updates of the first i writers of q.
SizeTo(q, i) == Cardinality(UNION {{j} \X (1 .. Updates[q[j]]) : j \in 1 .. i})

\* Mutant: synchronous writers join any group.
GroupAnySync(q) ==
    Max({k \in DOMAIN q : \A i \in 2 .. k : q[i] \in Batches => SizeTo(q, i) <= GroupLimit})

\* BuildBatchGroup: how many of the queue's writers the first one serves.
BuildBatchGroup(q) ==
    Max({k \in DOMAIN q : \A i \in 2 .. k :
            /\ q[i] \in Synchronous => q[1] \in Synchronous
            /\ q[i] \in Batches => SizeTo(q, i) <= GroupLimit})

\* The group's sequence numbers, from LastSequence() + 1 on.
AssignSequence(x, group) ==
    [y \in Writers |->
        IF \E i \in DOMAIN group : group[i] = y
        THEN LET i == CHOOSE j \in DOMAIN group : group[j] = y IN
             [w[y] EXCEPT !.seqs = Seqs(d.lastSequence + SizeTo(group, i) - Updates[y], Updates[y])]
        ELSE w[y]]

\* The end of a Write that has its turn: nothing to write, or an error.
Alone(x, status) == [w EXCEPT ![x].pc = "finish", ![x].group = <<x>>, ![x].status = status]

StartGroup(x) ==
    LET group == SubSeq(queue, 1, BuildBatchGroup(queue)) IN
    IF x \in Flushers THEN Alone(x, "ok")
    ELSE [AssignSequence(x, group) EXCEPT ![x].pc = "log", ![x].group = group]

MemFull == Cardinality(d.mem[d.logNumber]) > BufferSize

\* A new log and memtable; the full one becomes imm_.
SwitchMemTable(s) ==
    MaybeScheduleCompaction([s EXCEPT !.logNumber = @ + 1, !.imm = s.logNumber, !.hasImm = TRUE])

\* MakeRoomForWrite, up to where it waits, sleeps, fails or has room.
MakeRoomForWrite(x) ==
    LET slow == w[x].delay /\ d.level0 >= L0Slowdown
        full == x \in Flushers \/ MemFull
    IN  /\ w[x].pc = "room" /\ x \notin bgWait
        /\ \/ /\ d.error /\ w' = Alone(x, "error") /\ UNCHANGED <<d, bg, bgWait, faults>>
           \/ /\ ~d.error /\ slow /\ w' = [w EXCEPT ![x].pc = "sleep"]
              /\ UNCHANGED <<d, bg, bgWait, faults>>
           \/ /\ ~d.error /\ ~slow /\ ~full /\ w' = StartGroup(x)
              /\ UNCHANGED <<d, bg, bgWait, faults>>
           \/ /\ ~d.error /\ ~slow /\ full /\ (d.imm # 0 \/ d.level0 >= L0Stop)
              /\ bgWait' = bgWait \cup {x} /\ UNCHANGED <<d, w, bg, faults>>
           \/ /\ ~d.error /\ ~slow /\ full /\ d.imm = 0 /\ d.level0 < L0Stop /\ d.logNumber < MaxLogs
              /\ d' = SwitchMemTable(d) /\ bg' = Queued(bg, d') /\ w' = StartGroup(x)
              /\ UNCHANGED <<bgWait, faults>>
           \/ /\ ~d.error /\ ~slow /\ full /\ d.imm = 0 /\ d.level0 < L0Stop /\ faults < MaxFaults
              /\ w' = Alone(x, "error") /\ faults' = faults + 1 /\ UNCHANGED <<d, bg, bgWait>>
        /\ UNCHANGED <<queue, rd, man, cvWait, closer>>

\* SleepForMicroseconds(1000), once per write.
Delayed(x) ==
    /\ w[x].pc = "sleep" /\ w' = [w EXCEPT ![x].pc = "room", ![x].delay = FALSE]
    /\ UNCHANGED <<d, queue, rd, man, bg, cvWait, bgWait, faults, closer>>

GroupSeqs(x) == UNION {w[y].seqs : y \in Range(w[x].group)}

\* log_->AddRecord and logfile_->Sync, without the mutex.
LogGroup(x) ==
    /\ w[x].pc = "log"
    /\ \/ /\ d' = [d EXCEPT !.logged[d.logNumber] = @ \cup GroupSeqs(x)]
          /\ w' = [w EXCEPT ![x].pc = IF x \in Synchronous THEN "sync" ELSE "insert", ![x].left = GroupSeqs(x)]
          /\ UNCHANGED faults
       \/ /\ faults < MaxFaults /\ faults' = faults + 1
          /\ w' = [w EXCEPT ![x].pc = "finish", ![x].status = "error"] /\ UNCHANGED d
    /\ UNCHANGED <<queue, rd, man, bg, cvWait, bgWait, closer>>

SyncLog(x) ==
    /\ w[x].pc = "sync"
    /\ \/ /\ d' = [d EXCEPT !.synced[d.logNumber] = d.logged[d.logNumber]]
          /\ w' = [w EXCEPT ![x].pc = "insert"] /\ UNCHANGED faults
       \/ /\ faults < MaxFaults /\ faults' = faults + 1
          /\ w' = [w EXCEPT ![x].pc = "finish", ![x].status = "sync error"] /\ UNCHANGED d
    /\ UNCHANGED <<queue, rd, man, bg, cvWait, bgWait, closer>>

\* InsertInto: one update after the other, while readers look.
Insert(x) ==
    /\ w[x].pc = "insert"
    /\ \E s \in w[x].left :
          /\ \A t \in w[x].left : s <= t
          /\ d' = [d EXCEPT !.mem[d.logNumber] = @ \cup {s}]
          /\ w' = [w EXCEPT ![x].left = @ \ {s},
                            ![x].pc = IF w[x].left = {s} THEN "finish" ELSE "insert"]
    /\ UNCHANGED <<queue, rd, man, bg, cvWait, bgWait, faults, closer>>

\* A group that was numbered uses up its numbers, written or not.
LastSequenceOf(x) ==
    d.lastSequence + (IF GroupSeqs(x) = {} THEN 0 ELSE SizeTo(w[x].group, Len(w[x].group)))

\* Mutant: the next writer is not woken.
NotifyGroupOnly(x, rest) == Range(w[x].group)

\* The group leaves the queue with its status; the next writer is woken.
NotifyWriters(x, rest) == Range(w[x].group) \cup (IF rest = <<>> THEN {} ELSE {rest[1]})

FinishGroup(x) ==
    LET n == Len(w[x].group)
        rest == SubSeq(queue, n + 1, Len(queue))
        status == IF w[x].status = "ok" THEN "ok" ELSE "error"
        s == [d EXCEPT !.lastSequence = LastSequenceOf(x)]
    IN  /\ w[x].pc = "finish"
        /\ d' = IF w[x].status = "sync error" THEN RecordBackgroundError(s) ELSE s
        /\ bgWait' = IF w[x].status = "sync error" THEN {} ELSE bgWait
        /\ queue' = rest /\ cvWait' = cvWait \ NotifyWriters(x, rest)
        /\ w' = [y \in Writers |->
                   IF y \notin Range(w[x].group) THEN w[y]
                   ELSE [w[y] EXCEPT !.status = status, !.done = TRUE, !.pc = IF y = x THEN "reply" ELSE @]]
        /\ UNCHANGED <<rd, man, bg, faults, closer>>

\* Write returns; TEST_CompactMemTable first waits until imm_ is compacted.
Reply(x) ==
    /\ w[x].pc = "reply" /\ x \notin bgWait
    /\ IF x \in Flushers /\ w[x].status = "ok" /\ d.imm # 0 /\ ~d.error
       THEN bgWait' = bgWait \cup {x} /\ UNCHANGED w
       ELSE /\ w' = [w EXCEPT ![x].pc = "returned",
                              ![x].status = IF x \in Flushers /\ d.imm # 0 THEN "error" ELSE @]
            /\ UNCHANGED bgWait
    /\ UNCHANGED <<d, queue, rd, man, bg, cvWait, faults, closer>>
-----------------------------------------------------------------------------
(* Get *)

\* Mutant: imm_ is not searched.
GetWithoutImm(r) ==
    /\ rd[r].pc = "idle" /\ closer = "open"
    /\ rd' = [rd EXCEPT ![r] = [@ EXCEPT !.pc = "read", !.snap = d.lastSequence, !.mem = d.logNumber,
                                         !.tables = d.tables]]
    /\ UNCHANGED <<d, queue, w, man, bg, cvWait, bgWait, faults, closer>>
Get(r) ==
    /\ rd[r].pc = "idle" /\ closer = "open"
    /\ rd' = [rd EXCEPT ![r] = [@ EXCEPT !.pc = "read", !.snap = d.lastSequence, !.mem = d.logNumber,
                                         !.imm = d.imm, !.tables = d.tables]]
    /\ UNCHANGED <<d, queue, w, man, bg, cvWait, bgWait, faults, closer>>

Lookup(r) ==
    /\ rd[r].pc = "read"
    /\ LET held == d.mem[rd[r].mem] \cup (IF rd[r].imm = 0 THEN {} ELSE d.mem[rd[r].imm]) \cup rd[r].tables IN
       rd' = [rd EXCEPT ![r] = [@ EXCEPT !.pc = "idle", !.got = {s \in held : s <= rd[r].snap}]]
    /\ UNCHANGED <<d, queue, w, man, bg, cvWait, bgWait, faults, closer>>
-----------------------------------------------------------------------------
(* TEST_CompactRange on level 0 *)

CompactRange(m) ==
    /\ man[m].pc \in {"start", "running"} /\ closer = "open" /\ m \notin bgWait
    /\ IF man[m].done \/ d.shutting \/ d.error
       THEN /\ man' = [man EXCEPT ![m].pc = "returned"]
            /\ d' = IF d.manual = m THEN [d EXCEPT !.manual = None] ELSE d
            /\ UNCHANGED <<bg, bgWait>>
       ELSE IF d.manual = None
            THEN /\ d' = MaybeScheduleCompaction([d EXCEPT !.manual = m])
                 /\ bg' = Queued(bg, d') /\ bgWait' = bgWait \cup {m}
                 /\ man' = [man EXCEPT ![m].pc = "running"]
            ELSE /\ bgWait' = bgWait \cup {m} /\ UNCHANGED <<d, bg>>
                 /\ man' = [man EXCEPT ![m].pc = "running"]
    /\ UNCHANGED <<queue, w, rd, cvWait, faults, closer>>
-----------------------------------------------------------------------------
(* The background thread *)

\* The tail of BackgroundCall: reschedule, wake everybody.
BackgroundDone(s) ==
    /\ d' = MaybeScheduleCompaction([s EXCEPT !.scheduled = FALSE])
    /\ bg' = [pc |-> IF d'.scheduled THEN "queued" ELSE "idle", nested |-> FALSE, manual |-> None]
    /\ bgWait' = {}

\* BackgroundCall and BackgroundCompaction up to the first unlocking.
BackgroundCall ==
    /\ bg.pc = "queued"
    /\ IF d.shutting \/ d.error THEN BackgroundDone(d) /\ UNCHANGED man
       ELSE IF d.imm # 0
       THEN bg' = [bg EXCEPT !.pc = "build"] /\ UNCHANGED <<d, bgWait, man>>
       ELSE IF d.manual # None /\ d.level0 = 0
       THEN man' = [man EXCEPT ![d.manual].done = TRUE] /\ BackgroundDone([d EXCEPT !.manual = None])
       ELSE IF d.manual # None \/ d.level0 >= L0Compaction
       THEN bg' = [bg EXCEPT !.pc = "compact", !.manual = d.manual] /\ UNCHANGED <<d, bgWait, man>>
       ELSE BackgroundDone(d) /\ UNCHANGED man
    /\ UNCHANGED <<queue, w, rd, cvWait, faults, closer>>

\* CompactMemTable returns to DoCompactionWork or to BackgroundCall.  The
\* memtable it wrote stays imm_ when it failed.
AfterFlush(s) ==
    IF bg.nested THEN /\ d' = s /\ bg' = [bg EXCEPT !.pc = "compact", !.nested = FALSE]
                      /\ bgWait' = {}
    ELSE BackgroundDone(s)

\* WriteLevel0Table's BuildTable, without the mutex.
BuildTable ==
    /\ bg.pc = "build"
    /\ \/ ~d.shutting /\ bg' = [bg EXCEPT !.pc = "apply"] /\ UNCHANGED <<d, bgWait, faults>>
       \/ /\ d.shutting \/ faults < MaxFaults
          /\ faults' = IF d.shutting THEN faults ELSE faults + 1
          /\ AfterFlush(RecordBackgroundError(d))
    /\ UNCHANGED <<queue, w, rd, man, cvWait, closer>>

\* LogAndApply (which unlocks) and the commit to the new state: the edit's
\* log number makes the logs before the current one obsolete.
CommitFlush(s) ==
    [s EXCEPT !.tables = @ \cup s.mem[s.imm], !.level0 = @ + 1, !.keptLog = s.logNumber,
              !.imm = 0, !.hasImm = FALSE]

ApplyFlush ==
    /\ bg.pc = "apply"
    /\ \/ AfterFlush(CommitFlush(d)) /\ UNCHANGED faults
       \/ /\ faults < MaxFaults /\ faults' = faults + 1
          /\ AfterFlush(RecordBackgroundError(d))
    /\ UNCHANGED <<queue, w, rd, man, cvWait, closer>>

\* DoCompactionWork's loop notices imm_ between two keys.
PrioritizeImm ==
    /\ bg.pc = "compact" /\ ~d.shutting /\ d.hasImm
    /\ bg' = [bg EXCEPT !.pc = "build", !.nested = TRUE]
    /\ UNCHANGED <<d, queue, w, rd, man, cvWait, bgWait, faults, closer>>

\* The end of BackgroundCompaction.  A manual compaction dereferences
\* manual_compaction_, as it is now: NULL kills the process.
EndManual(s, ok) ==
    IF bg.manual = None THEN BackgroundDone(s) /\ UNCHANGED <<man, closer>>
    ELSE IF s.manual = None THEN closer' = "crashed" /\ UNCHANGED <<d, bg, bgWait, man>>
    ELSE /\ man' = IF ok THEN man ELSE [man EXCEPT ![s.manual].done = TRUE]
         /\ BackgroundDone([s EXCEPT !.manual = None]) /\ UNCHANGED closer

\* The rest of the compaction: its files are written and installed, or it
\* fails, by itself or because the database is being closed.  Files that were not
\* its inputs are left in level 0, those flushed in its middle among them.
FinishCompaction ==
    /\ bg.pc = "compact" /\ closer # "crashed"
    /\ \/ /\ \E left \in 0 .. d.level0 : /\ left = 0 \/ left < d.level0
                                       /\ EndManual([d EXCEPT !.level0 = left], TRUE)
          /\ UNCHANGED faults
       \/ /\ d.shutting \/ faults < MaxFaults
          /\ faults' = IF d.shutting THEN faults ELSE faults + 1
          /\ EndManual(RecordBackgroundError(d), FALSE)
    /\ UNCHANGED <<queue, w, rd, cvWait>>
-----------------------------------------------------------------------------
(* ~DBImpl, called when no other call is running. *)

Quiet == /\ \A x \in Writers : w[x].pc \in {"start", "returned"}
         /\ \A m \in Manuals : man[m].pc \in {"start", "returned"}
         /\ \A r \in Readers : rd[r].pc = "idle"

Close ==
    /\ closer = "open" /\ Quiet
    /\ closer' = "closing" /\ d' = [d EXCEPT !.shutting = TRUE]
    /\ UNCHANGED <<queue, w, rd, man, bg, cvWait, bgWait, faults>>

AwaitBackground ==
    /\ closer = "closing" /\ "closer" \notin bgWait
    /\ IF d.scheduled THEN bgWait' = bgWait \cup {"closer"} /\ UNCHANGED closer
       ELSE closer' = "closed" /\ UNCHANGED bgWait
    /\ UNCHANGED <<d, queue, w, rd, man, bg, cvWait, faults>>

Closed == closer = "closed" /\ UNCHANGED vars

Next ==
    \/ \E x \in Writers :
        Enqueue(x) \/ AwaitTurn(x) \/ MakeRoomForWrite(x) \/ Delayed(x) \/ LogGroup(x)
        \/ SyncLog(x) \/ Insert(x) \/ FinishGroup(x) \/ Reply(x)
    \/ \E r \in Readers : Get(r) \/ Lookup(r)
    \/ \E m \in Manuals : CompactRange(m)
    \/ BackgroundCall \/ BuildTable \/ ApplyFlush \/ PrioritizeImm \/ FinishCompaction
    \/ Close \/ AwaitBackground \/ Closed

Spec == Init /\ [][Next]_vars

\* Every thread that can go on does: mutex_ is fair enough and the operating
\* system schedules the threads, the background thread of Env included.
\* Whether a call is made, and whether an operation fails, is not assumed.
FairSpec ==
    /\ Spec
    /\ \A x \in Writers :
        WF_vars(AwaitTurn(x) \/ MakeRoomForWrite(x) \/ Delayed(x) \/ LogGroup(x)
                \/ SyncLog(x) \/ Insert(x) \/ FinishGroup(x) \/ Reply(x))
    /\ \A m \in Manuals : WF_vars(man[m].pc = "running" /\ CompactRange(m))
    /\ WF_vars(BackgroundCall \/ BuildTable \/ ApplyFlush \/ PrioritizeImm \/ FinishCompaction)
    /\ WF_vars(AwaitBackground)
-----------------------------------------------------------------------------
Held(s) == s.tables \cup UNION {s.mem[n] : n \in 1 .. MaxLogs}

\* Queues, waits and numbers have their types, imm_ is the memtable before
\* the current one, and sequence numbers are given out without gaps.
WriteTypeOK ==
    /\ d.logNumber \in 1 .. MaxLogs /\ d.imm \in {0, d.logNumber - 1} /\ d.hasImm = (d.imm # 0)
    /\ d.keptLog \in 1 .. d.logNumber /\ d.level0 \in 0 .. L0Stop
    /\ cvWait \subseteq Range(queue) /\ bgWait \subseteq Writers \cup Manuals \cup {"closer"}
    /\ Held(d) \subseteq UNION {w[x].seqs : x \in Writers}
    /\ d.scheduled = (bg.pc # "idle")

\* The order in which batches take effect: that of their numbers.
Ordered(B) ==
    {p \in B \X B : p[1] = p[2] \/ \A s \in w[p[1]].seqs, t \in w[p[2]].seqs : s < t}
UpTo(n) ==
    Ordered({x \in Batches : /\ w[x].seqs # {} /\ w[x].seqs \subseteq Held(d)
                             /\ \A s \in w[x].seqs : s <= n})
\* The batches that a reader has found; one found in part is paired with None.
Found(got) ==
    LET touched == {x \in Batches : w[x].seqs \cap got # {}}
        torn == {x \in touched : ~(w[x].seqs \subseteq got)}
    IN  Ordered(touched \ torn) \cup (torn \X {None})

Abstract == INSTANCE AtomicStore WITH
    call <- [x \in Batches |-> IF w[x].pc = "start" THEN "no"
                               ELSE IF w[x].pc = "returned" THEN w[x].status ELSE "called"],
    store <- UpTo(d.lastSequence),
    seen <- [r \in Readers |-> UpTo(rd[r].snap)],
    result <- [r \in Readers |-> Found(rd[r].got)]

\* Write and Get are atomic: batches grouped behind one leader, memtables that
\* are switched and flushed under a reader, and failed writes all look like
\* single writes that happen at one moment of their call (AtomicStore).
Linearizable == Abstract!Spec

\* A write that returned OK is in a table or in a log that recovery reads,
\* and with sync in the synced part of it, whatever was flushed, switched or
\* deleted since, and whichever writer wrote the group.
Durable ==
    \A x \in Succeeded :
        w[x].seqs \subseteq d.tables \cup
            UNION {IF x \in Synchronous THEN d.synced[n] ELSE d.logged[n] : n \in d.keptLog .. d.logNumber}

\* Every Write returns, also when it waits for the background thread: no
\* signal of w.cv or bg_cv_ is lost.
WritesReturn == \A x \in Writers : w[x].pc # "start" ~> w[x].pc = "returned"

\* CompactRange and the destructor return.
WaitersReturn ==
    /\ \A m \in Manuals : man[m].pc = "running" ~> man[m].pc = "returned"
    /\ closer = "closing" ~> closer = "closed"

\* What a Write acknowledged is kept, in a state that is well typed.
AcknowledgedKept == WriteTypeOK /\ Durable
=============================================================================
