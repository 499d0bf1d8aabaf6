------------------------------ MODULE Recovery ------------------------------
(***************************************************************************)
(* leveldb: the files of a database, the descriptor that says which of     *)
(* them count, DB::Open after a crash at any step, and the deletion of     *)
(* obsolete files (db_impl.cc, version_set.cc).                            *)
(*                                                                         *)
(* An update is a record of its identity and its sequence number.  A table *)
(* is the set of its updates; which level it is on is module LSM's matter. *)
(* A log and a MANIFEST are sequences of records of which a prefix has     *)
(* been synced: a power loss keeps any longer or equal prefix (a torn last *)
(* record reads as end of file, module LogFile).  Creating, renaming and   *)
(* deleting files is durable in the order in which it is done.             *)
(***************************************************************************)
EXTENDS Integers, Sequences, FiniteSets, SequencesExt, FiniteSetsExt, Functions

CONSTANTS
    ReuseLogs,      \* Options::reuse_logs
    MaxWrites,      \* bound: updates ever written
    MaxNumber,      \* bound: file numbers
    MaxCrashes,     \* bound: power losses
    Compactions,    \* table compactions and iterators take part
    CreationSafe    \* no power loss while MANIFEST-1 is in use and not yet synced

ASSUME RecoveryAssumption ==
    /\ ReuseLogs \in BOOLEAN /\ Compactions \in BOOLEAN /\ CreationSafe \in BOOLEAN
    /\ MaxWrites \in Nat /\ MaxNumber \in Nat /\ MaxNumber > 1 /\ MaxCrashes \in Nat

VARIABLES
    tables, logs, manifests,  \* the files, by number
    current,    \* the MANIFEST that CURRENT names, or 0
    pc,         \* where DB::Open is; "closed", "open" or "refused" outside it
    vs,         \* VersionSet: the version's files, next_file_number_, ...
    toReplay,   \* Recover's logs still to be read
    edit,       \* Open's save_manifest and the tables its VersionEdit adds
    mem, imm,   \* memtables
    logfile,    \* logfile_number_, 0 while log_ is NULL
    pending,    \* pending_outputs_
    bg,         \* the edit that the background thread is logging
    comp,       \* the running compaction
    pinned,     \* the tables of a version that an iterator holds
    bgError,    \* bg_error_ is set
    synced,     \* updates acknowledged by a synchronous write
    count,      \* updates ever written
    crashes     \* power losses so far

disk == <<tables, logs, manifests, current>>
opening == <<toReplay, edit>>
memory == <<mem, imm, logfile>>
background == <<pending, bg, comp, pinned, bgError>>
ghosts == <<synced, count, crashes>>
vars == <<disk, pc, vs, opening, memory, background, ghosts>>

Put(f, n, v) == [m \in DOMAIN f \cup {n} |-> IF m = n THEN v ELSE f[m]]
File(recs, k) == [recs |-> recs, synced |-> k]
NoEdit == [kind |-> "none"]
NoVersions == [files |-> {}, next |-> 2, manifest |-> 0, last |-> 0, log |-> 0, desc |-> FALSE]

\* What DB::Open's first steps start from: nothing of an earlier process.
Fresh(p) ==
    /\ pc' = p /\ vs' = NoVersions /\ toReplay' = {} /\ edit' = [save |-> FALSE, add |-> {}]
    /\ mem' = {} /\ imm' = {} /\ logfile' = 0 /\ pending' = {} /\ bg' = NoEdit
    /\ comp' = NoEdit /\ pinned' = <<>> /\ bgError' = FALSE

Init ==
    /\ tables = <<>> /\ logs = <<>> /\ manifests = <<>> /\ current = 0
    /\ pc = "closed" /\ vs = NoVersions /\ toReplay = {} /\ edit = [save |-> FALSE, add |-> {}]
    /\ mem = {} /\ imm = {} /\ logfile = 0 /\ pending = {} /\ bg = NoEdit
    /\ comp = NoEdit /\ pinned = <<>> /\ bgError = FALSE
    /\ synced = {} /\ count = 0 /\ crashes = 0

Contents == mem \cup imm \cup UNION {tables[n] : n \in vs.files \cap DOMAIN tables}
-----------------------------------------------------------------------------
(* DB::Open *)

NewDBEdit == [add |-> {}, del |-> {}, log |-> 0, next |-> 2, last |-> 0]

\* NewDB: MANIFEST-1 is written and closed, not synced.
NewDB ==
    /\ pc = "closed" /\ current = 0
    /\ manifests' = Put(manifests, 1, File(<<NewDBEdit>>, 0))
    /\ pc' = "newdb"
    /\ UNCHANGED <<tables, logs, current, vs, opening, memory, background, ghosts>>

\* SetCurrentFile: a synced temporary file is renamed to CURRENT.
SetCurrentFile ==
    /\ pc = "newdb" /\ current' = 1 /\ pc' = "recover"
    /\ UNCHANGED <<tables, logs, manifests, vs, opening, memory, background, ghosts>>

\* Builder::Apply over the edits of a descriptor: a file is in the version if an
\* edit added it and no later one deleted it.
FilesAfter(edits) ==
    {n \in UNION {edits[i].add : i \in DOMAIN edits} :
        \E i \in DOMAIN edits : /\ n \in edits[i].add
                                 /\ \A j \in DOMAIN edits : j > i => n \notin edits[j].del}

\* VersionSet::Recover, and Recover's look at the directory: every table of the
\* version must have some file of its number; the logs not older than the
\* descriptor's are to be read.
RecoverVersions(reuse) ==
    LET edits == manifests[current].recs
        last == edits[Len(edits)]
        present == DOMAIN tables \cup DOMAIN logs \cup DOMAIN manifests
    IN  IF edits = <<>> \/ ~(FilesAfter(edits) \subseteq present)
        THEN Fresh("refused")
        ELSE /\ vs' = [files |-> FilesAfter(edits), next |-> last.next + 1,
                       manifest |-> IF reuse THEN current ELSE last.next,
                       last |-> last.last, log |-> last.log, desc |-> reuse]
             /\ edit' = [save |-> ~reuse, add |-> {}]
             /\ toReplay' = {n \in DOMAIN logs : n >= last.log}
             /\ pc' = "replay"
             /\ UNCHANGED <<memory, background>>

Recover ==
    /\ pc = "recover" \/ (pc = "closed" /\ current # 0)
    /\ \E reuse \in {FALSE, ReuseLogs} : RecoverVersions(reuse)
    /\ UNCHANGED <<disk, ghosts>>

MarkFileNumberUsed(next, n) == IF next <= n THEN n + 1 ELSE next

\* RecoverLogFile: the memtable is written to a table whenever it is full (here
\* after k records), and at the end unless the log is the last one and kept.
RecoverLogFile(n, k, keep) ==
    LET recs == logs[n].recs
        full == Range(SubSeq(recs, 1, k))
        rest == Range(SubSeq(recs, k + 1, Len(recs)))
        second == vs.next + (IF full = {} THEN 0 ELSE 1)
        end == second + (IF keep \/ rest = {} THEN 0 ELSE 1)
        new == vs.next .. end - 1
    IN  /\ tables' = [m \in DOMAIN tables \cup new |->
                        IF m \notin new THEN tables[m] ELSE IF m < second THEN full ELSE rest]
        /\ mem' = IF keep THEN rest ELSE mem
        /\ logfile' = IF keep THEN n ELSE logfile
        /\ edit' = [save |-> edit.save \/ new # {}, add |-> edit.add \cup new]
        /\ vs' = [vs EXCEPT !.next = MarkFileNumberUsed(end, n),
                            !.last = Max({vs.last} \cup {u.seq : u \in Range(recs)})]

ReplayLog ==
    /\ pc = "replay" /\ toReplay # {} /\ vs.next + 2 <= MaxNumber
    /\ LET n == Min(toReplay) IN
        /\ \E k \in 0 .. Len(logs[n].recs) :
            \E keep \in {FALSE, ReuseLogs /\ toReplay = {n} /\ k = 0} : RecoverLogFile(n, k, keep)
        /\ toReplay' = toReplay \ {n}
    /\ UNCHANGED <<logs, manifests, current, pc, imm, background, ghosts>>

\* A new log and memtable unless the last log is kept.
NewLog ==
    /\ pc = "replay" /\ toReplay = {} /\ vs.next < MaxNumber
    /\ pc' = IF edit.save THEN "save" ELSE "collect"
    /\ IF logfile = 0
       THEN /\ logfile' = vs.next /\ logs' = Put(logs, vs.next, File(<<>>, 0))
            /\ vs' = [vs EXCEPT !.next = vs.next + 1]
       ELSE UNCHANGED <<logfile, logs, vs>>
    /\ UNCHANGED <<tables, manifests, current, opening, mem, imm, background, ghosts>>

\* LogAndApply's record: the numbers are those of the moment it is written.
EditOf(add, del, log) ==
    [add |-> add, del |-> del, log |-> log, next |-> vs.next, last |-> vs.last]
Append1(f, e) == File(Append(f.recs, e), Len(f.recs) + 1)

\* Open's LogAndApply.  Without a descriptor log a new MANIFEST begins with a
\* snapshot of the version (WriteSnapshot); CURRENT follows when it is synced.
SaveManifest ==
    /\ pc = "save"
    /\ IF vs.desc
       THEN /\ manifests' = [manifests EXCEPT ![vs.manifest] = Append1(@, EditOf(edit.add, {}, logfile))]
            /\ pc' = "install"
       ELSE /\ manifests' = Put(manifests, vs.manifest,
                                File(<<EditOf(vs.files \cup edit.add, {}, logfile)>>, 1))
            /\ pc' = "setcurrent"
    /\ UNCHANGED <<tables, logs, current, vs, opening, memory, background, ghosts>>

PointCurrent ==
    /\ pc = "setcurrent" /\ current' = vs.manifest /\ pc' = "install"
    /\ UNCHANGED <<tables, logs, manifests, vs, opening, memory, background, ghosts>>

\* Writing the new MANIFEST or CURRENT fails: the file is deleted, Open fails.
SaveFails ==
    /\ pc = "setcurrent"
    /\ manifests' = [n \in DOMAIN manifests \ {vs.manifest} |-> manifests[n]]
    /\ Fresh("closed")
    /\ UNCHANGED <<tables, logs, current, ghosts>>

Install ==
    /\ pc = "install"
    /\ vs' = [vs EXCEPT !.files = vs.files \cup edit.add, !.log = logfile, !.desc = TRUE]
    /\ pc' = "collect"
    /\ UNCHANGED <<disk, opening, memory, background, ghosts>>

\* Mutant: versions held by iterators are forgotten.
LiveCurrent(files, outputs) == outputs \cup files

\* AddLiveFiles: the tables of every version still in the list.
LiveFiles(files, outputs) == outputs \cup files \cup DOMAIN pinned

\* DeleteObsoleteFiles, given the version's files, pending_outputs_, the log
\* number, the descriptors and whether bg_error_ is set.
DeleteObsoleteFiles(files, outputs, log, mans, err) ==
    IF err
    THEN manifests' = mans /\ UNCHANGED <<tables, logs>>
    ELSE /\ tables' = Restrict(tables, DOMAIN tables \cap LiveFiles(files, outputs))
         /\ logs' = Restrict(logs, {n \in DOMAIN logs : n >= log})
         /\ manifests' = Restrict(mans, {n \in DOMAIN mans : n >= vs.manifest})

Opened ==
    /\ pc = "collect" /\ pc' = "open"
    /\ DeleteObsoleteFiles(vs.files, pending, vs.log, manifests, bgError)
    /\ UNCHANGED <<current, vs, opening, memory, background, ghosts>>
-----------------------------------------------------------------------------
(* The open database *)

Running == pc = "open" /\ ~bgError

Write(sync) ==
    /\ Running /\ count < MaxWrites
    /\ LET u == [id |-> count + 1, seq |-> vs.last + 1]
           log == logs[logfile]
       IN  /\ logs' = [logs EXCEPT ![logfile] =
                        File(Append(log.recs, u), IF sync THEN Len(log.recs) + 1 ELSE log.synced)]
           /\ mem' = mem \cup {u} /\ vs' = [vs EXCEPT !.last = u.seq] /\ count' = u.id
           /\ synced' = IF sync THEN synced \cup {u} ELSE synced
    /\ UNCHANGED <<tables, manifests, current, pc, opening, imm, logfile, background, crashes>>

\* MakeRoomForWrite: a full memtable becomes imm_, with a new log.
SwitchMemTable ==
    /\ Running /\ mem # {} /\ imm = {} /\ vs.next < MaxNumber
    /\ imm' = mem /\ mem' = {} /\ logfile' = vs.next
    /\ logs' = Put(logs, vs.next, File(<<>>, 0))
    /\ vs' = [vs EXCEPT !.next = vs.next + 1]
    /\ UNCHANGED <<tables, manifests, current, pc, opening, background, ghosts>>

\* Mutant: the flush gives up the log being written, too.
FlushDropsLog ==
    /\ Running /\ imm # {} /\ bg = NoEdit /\ vs.next < MaxNumber
    /\ tables' = Put(tables, vs.next, imm)
    /\ vs' = [vs EXCEPT !.next = vs.next + 1]
    /\ bg' = [kind |-> "flush", add |-> {vs.next}, del |-> {}, log |-> vs.next, logged |-> FALSE]
    /\ UNCHANGED <<logs, manifests, current, pc, opening, memory, pending, comp, pinned, bgError, ghosts>>

\* WriteLevel0Table: imm_ is a synced table; its edit drops the older logs.
WriteLevel0Table ==
    /\ Running /\ imm # {} /\ bg = NoEdit /\ vs.next < MaxNumber
    /\ tables' = Put(tables, vs.next, imm)
    /\ vs' = [vs EXCEPT !.next = vs.next + 1]
    /\ bg' = [kind |-> "flush", add |-> {vs.next}, del |-> {}, log |-> logfile, logged |-> FALSE]
    /\ UNCHANGED <<logs, manifests, current, pc, opening, memory, pending, comp, pinned, bgError, ghosts>>

\* A compaction opens its output, protected by pending_outputs_; a memtable may
\* be flushed before it is done.
OpenCompactionOutputFile(inputs) ==
    /\ Compactions /\ Running /\ imm = {} /\ bg = NoEdit /\ comp = NoEdit /\ vs.next < MaxNumber
    /\ tables' = Put(tables, vs.next, {})
    /\ pending' = pending \cup {vs.next}
    /\ comp' = [kind |-> "run", inputs |-> inputs, out |-> vs.next]
    /\ vs' = [vs EXCEPT !.next = vs.next + 1]
    /\ UNCHANGED <<logs, manifests, current, pc, opening, memory, bg, pinned, bgError, ghosts>>

\* FinishCompactionOutputFile and InstallCompactionResults up to LogAndApply.
FinishCompactionOutputFile ==
    /\ Running /\ bg = NoEdit /\ comp # NoEdit
    /\ tables' = [tables EXCEPT ![comp.out] = UNION {tables[n] : n \in comp.inputs}]
    /\ bg' = [kind |-> "compact", add |-> {comp.out}, del |-> comp.inputs, log |-> vs.log,
              logged |-> FALSE]
    /\ UNCHANGED <<logs, manifests, current, pc, vs, opening, memory, pending, comp, pinned, bgError,
                   ghosts>>

\* LogAndApply: the record is written without the mutex; a sync follows.  A
\* database that reopened without a new MANIFEST creates it here.
LogEdit ==
    /\ Running /\ bg # NoEdit /\ ~bg.logged
    /\ manifests' = [manifests EXCEPT ![vs.manifest] =
                        File(Append(@.recs, EditOf(bg.add, bg.del, bg.log)), @.synced)]
    /\ bg' = [bg EXCEPT !.logged = TRUE]
    /\ UNCHANGED <<tables, logs, current, pc, vs, opening, memory, pending, comp, pinned, bgError, ghosts>>

\* CleanupCompaction takes the outputs off pending_outputs_.
Outputs(kind) == IF kind = "compact" THEN pending \ {comp.out} ELSE pending
AfterEdit(kind) ==
    /\ bg' = NoEdit /\ pending' = Outputs(kind)
    /\ comp' = IF kind = "compact" THEN NoEdit ELSE comp
    /\ UNCHANGED <<current, pc, opening, mem, logfile, pinned, ghosts>>

\* The version is installed, imm_ or the inputs are given up, and what nobody
\* needs any more is deleted.
CommitEdit ==
    /\ Running /\ bg # NoEdit /\ bg.logged
    /\ LET files == (vs.files \ bg.del) \cup bg.add
           recs == manifests[vs.manifest].recs
       IN  /\ vs' = [vs EXCEPT !.files = files, !.log = bg.log]
           /\ DeleteObsoleteFiles(files, Outputs(bg.kind), bg.log,
                [manifests EXCEPT ![vs.manifest] = File(recs, Len(recs))], FALSE)
    /\ imm' = IF bg.kind = "flush" THEN {} ELSE imm
    /\ UNCHANGED bgError /\ AfterEdit(bg.kind)

\* The record is not written, or its sync fails: the version stays, nobody knows
\* whether the record will be read back, and nothing is deleted from now on.
\* CompactMemTable skips DeleteObsoleteFiles; after a table compaction it runs.
FailEdit ==
    /\ Running /\ bg # NoEdit
    /\ bgError' = TRUE
    /\ IF bg.kind = "compact" THEN DeleteObsoleteFiles(vs.files, Outputs(bg.kind), vs.log, manifests, TRUE)
                              ELSE UNCHANGED <<tables, logs, manifests>>
    /\ UNCHANGED <<vs, imm>> /\ AfterEdit(bg.kind)

\* An iterator holds the version it was made from.
NewIterator ==
    /\ Compactions /\ pc = "open" /\ vs.files # {} /\ pinned = <<>>
    /\ pinned' = [n \in vs.files |-> tables[n]]
    /\ UNCHANGED <<disk, pc, vs, opening, memory, pending, bg, comp, bgError, ghosts>>

CleanupIteratorState ==
    /\ pinned # <<>> /\ pinned' = <<>>
    /\ UNCHANGED <<disk, pc, vs, opening, memory, pending, bg, comp, bgError, ghosts>>

\* The process ends: ~DBImpl, which flushes nothing, DB::Open failing for a file
\* it cannot write, or a kill at any step.  The files stay as they are.
ProcessEnds ==
    /\ pc \notin {"closed", "refused"}
    /\ Fresh("closed")
    /\ UNCHANGED <<disk, ghosts>>

\* Power fails: of each log and descriptor some prefix no shorter than the
\* synced one is left.  The process may be anywhere, in DB::Open too.
Unsynced(files) == {n \in DOMAIN files : files[n].synced < Len(files[n].recs)}
Cuts(files) ==
    {c \in [Unsynced(files) -> 0 .. Max({0} \cup {Len(files[n].recs) : n \in Unsynced(files)})] :
        \A n \in Unsynced(files) : c[n] \in files[n].synced .. Len(files[n].recs)}
Cut(files, c) == [n \in DOMAIN files |->
                    IF n \in DOMAIN c THEN File(SubSeq(files[n].recs, 1, c[n]), c[n]) ELSE files[n]]
PowerLoss ==
    /\ crashes < MaxCrashes /\ pc # "refused"
    /\ CreationSafe /\ current = 1 => manifests[1].synced > 0
    /\ \E c \in Cuts(logs) : logs' = Cut(logs, c)
    /\ \E c \in Cuts(manifests) : manifests' = Cut(manifests, c)
    /\ Fresh("closed") /\ crashes' = crashes + 1
    /\ UNCHANGED <<tables, current, synced, count>>

Next ==
    \/ NewDB \/ SetCurrentFile \/ Recover \/ ReplayLog \/ NewLog \/ SaveManifest \/ PointCurrent
    \/ SaveFails \/ Install \/ Opened
    \/ \E sync \in BOOLEAN : Write(sync)
    \/ SwitchMemTable \/ WriteLevel0Table
    \/ \E inputs \in SUBSET vs.files \ {{}} : OpenCompactionOutputFile(inputs)
    \/ FinishCompactionOutputFile \/ LogEdit \/ CommitEdit \/ FailEdit
    \/ NewIterator \/ CleanupIteratorState \/ ProcessEnds \/ PowerLoss

Spec == Init /\ [][Next]_vars
-----------------------------------------------------------------------------
(* Properties *)

Updates == [id : 1 .. MaxWrites, seq : 1 .. MaxWrites]
Numbers == 0 .. MaxNumber + 2

\* The type invariant: files, memtables and numbers have their shapes.
RecoveryTypeOK ==
    /\ \A n \in DOMAIN tables : n \in Numbers /\ tables[n] \subseteq Updates
    /\ \A n \in DOMAIN logs : n \in Numbers /\ logs[n].recs \in Seq(Updates)
    /\ DOMAIN manifests \subseteq Numbers /\ current \in Numbers /\ logfile \in Numbers
    /\ vs.files \subseteq Numbers /\ vs.last \in 0 .. MaxWrites /\ vs.next \in Numbers
    /\ mem \cup imm \cup synced \subseteq Updates /\ pending \subseteq Numbers

\* DB::Open never finds the database damaged: after a power loss at any step, of
\* the creation, of a recovery or of the background thread, CURRENT names a
\* readable descriptor and every table it lists is there (Recover's checks).
NeverRefused == pc # "refused"

\* What a synchronous write acknowledged is in the open database, whatever was
\* flushed, compacted, deleted or lost before it was opened again.
SyncedSurvive == pc = "open" => synced \subseteq Contents

\* Without a power loss nothing is lost, synchronous or not, however often the
\* process is killed and wherever (options.h on WriteOptions::sync).
KillLosesNothing ==
    pc = "open" /\ crashes = 0 => \A i \in 1 .. count : \E u \in Contents : u.id = i

\* Sequence numbers are fresh: nothing in the database is numbered above
\* last_sequence_, and no two updates share a number, also when a crash lost
\* updates whose numbers are given out again.
SequencesFresh ==
    pc = "open" => /\ \A u \in Contents : u.seq <= vs.last
                   /\ \A u, v \in Contents : u.seq = v.seq => u = v

\* The files of a version that an iterator holds stay as they were, through
\* compactions that replace them and DeleteObsoleteFiles after each of them.
PinnedIntact ==
    \A n \in DOMAIN pinned : n \in DOMAIN tables /\ tables[n] = pinned[n]

\* Files that are still needed are there: those an Open reads (version_set.cc:
\* 907-1025) and those of a version that an iterator holds (db_impl.cc:218-272).
FilesIntact == RecoveryTypeOK /\ NeverRefused /\ PinnedIntact

\* Updates survive: synced ones a power loss, all of them a kill, and no later
\* update takes the sequence number of one that did (db_impl.cc:284-486).
UpdatesSurvive == SyncedSurvive /\ KillLosesNothing /\ SequencesFresh
=============================================================================
