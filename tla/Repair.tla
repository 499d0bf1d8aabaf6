------------------------------- MODULE Repair -------------------------------
(***************************************************************************)
(* leveldb db/repair.cc: RepairDB makes a database that cannot be opened   *)
(* into one that can, from its log and table files.  It may be stopped at  *)
(* any step and run again.                                                 *)
(*                                                                         *)
(* The first part makes the databases it is run on: writes go to a log,    *)
(* a flush makes a table of level 0, a compaction merges older tables into *)
(* level 1 (the deeper levels behave like it), and files that are not      *)
(* needed any more may still be there.  A file is its number and type, the *)
(* entries that can be read from it, whether reading it ends in an error,  *)
(* and whether it would survive a crash of the machine.  paranoid_checks   *)
(* is on, so that damage to a table is always seen.                        *)
(***************************************************************************)
EXTENDS Integers, FiniteSets, FiniteSetsExt

CONSTANTS
    Keys,
    MaxSeq,         \* bound: writes
    MaxFile,        \* bound: file numbers before the database breaks
    MaxStops,       \* bound: stopped repairs
    Faults,         \* the calls that may fail during a repair: "log", "create", "copy", "descriptor"
    Damages,        \* what happens to entries on disk: "lost", or "changed" in a log
    MachineCrash    \* a stop may be a crash of the machine

VARIABLES
    phase,      \* "open", "broken", then the part of Run: "logs", "tables", "descriptor", "installing"; "repaired"
    files,      \* the files in the database's directory
    lost,       \* and those in lost/
    version,    \* version[level]: the numbers of its tables
    manifest,   \* CURRENT names a readable manifest
    lastSeq, nextFile,
    written,    \* ghost: all entries ever written
    logs, tableNumbers, tables,     \* logs_, table_numbers_ that are still to do, tables_
    maxSequence,                    \* the largest max_sequence of tables_
    next,                           \* next_file_number_
    copying,    \* the table that RepairTable is copying and the copy's number
    stops,
    found,      \* ghost: what could be read when this repair began
    faulted     \* ghost: a call has failed in it

db == <<files, lost, version, manifest, lastSeq, nextFile, written>>
repairer == <<logs, tableNumbers, tables, maxSequence, next, copying>>
ghosts == <<stops, found, faulted>>
vars == <<phase, db, repairer, ghosts>>

NoCopy == [num |-> 0, copy |-> 0, entries |-> {}]
File(type, num, entries, hurt, synced) ==
    [type |-> type, num |-> num, entries |-> entries, hurt |-> hurt, synced |-> synced]

Init ==
    /\ phase = "open" /\ files = {File("log", 1, {}, FALSE, TRUE)} /\ lost = {}
    /\ version = [l \in 0 .. 1 |-> {}] /\ manifest = TRUE /\ lastSeq = 0 /\ nextFile = 2 /\ written = {}
    /\ logs = {} /\ tableNumbers = {} /\ tables = {} /\ maxSequence = 0 /\ next = 1 /\ copying = NoCopy
    /\ stops = 0 /\ found = {} /\ faulted = FALSE

Logs(fs) == {f \in fs : f.type = "log"}
Tables(fs) == {f \in fs : f.type = "table"}
Entries(fs) == UNION {f.entries : f \in fs}
Table(n) == CHOOSE f \in Tables(files) : f.num = n
Live == {f \in Tables(files) : f.num \in version[0] \cup version[1]}
-----------------------------------------------------------------------------
(* The life of a database before it breaks *)

CurrentLog == CHOOSE f \in Logs(files) : \A g \in Logs(files) : g.num <= f.num

Write(k, type) ==
    /\ phase = "open" /\ lastSeq < MaxSeq /\ stops = 0
    /\ LET e == [key |-> k, seq |-> lastSeq + 1, type |-> type]
       IN  /\ files' = (files \ {CurrentLog}) \cup {[CurrentLog EXCEPT !.entries = @ \cup {e}]}
           /\ written' = written \cup {e}
    /\ lastSeq' = lastSeq + 1
    /\ UNCHANGED <<phase, lost, version, manifest, nextFile, repairer, ghosts>>

\* A new log, and a table of the old one's entries.
FlushLog ==
    /\ phase = "open" /\ CurrentLog.entries # {} /\ nextFile < MaxFile /\ stops = 0
    /\ files' = files \cup {File("log", nextFile, {}, FALSE, TRUE),
                            File("table", nextFile + 1, CurrentLog.entries, FALSE, TRUE)}
    /\ version' = [version EXCEPT ![0] = @ \cup {nextFile + 1}]
    /\ nextFile' = nextFile + 2
    /\ UNCHANGED <<phase, lost, manifest, lastSeq, written, repairer, ghosts>>

NewestOf(es) == {e \in es : \A f \in es : f.key = e.key => f.seq <= e.seq}

\* A compaction of the tables of level 0 up to number n (newer ones were flushed
\* while it ran) with those of level 1 that share keys with them.  A table alone
\* is moved; deletions end in the last level.
Compact(n) ==
    LET upper == {m \in version[0] : m <= n}
        keys == {e.key : e \in Entries({Table(m) : m \in upper})}
        lower == {m \in version[1] : \E e \in Table(m).entries : e.key \in keys}
        merged == {e \in NewestOf(Entries({Table(m) : m \in upper \cup lower})) : e.type = "value"}
    IN  /\ phase = "open" /\ n \in version[0] /\ nextFile < MaxFile /\ stops = 0
        /\ IF Cardinality(upper) = 1 /\ lower = {}
           THEN /\ version' = [version EXCEPT ![0] = @ \ upper, ![1] = @ \cup upper]
                /\ UNCHANGED <<files, nextFile>>
           ELSE /\ version' = [version EXCEPT ![0] = @ \ upper,
                                              ![1] = (@ \ lower) \cup IF merged = {} THEN {} ELSE {nextFile}]
                /\ files' = files \cup IF merged = {} THEN {} ELSE {File("table", nextFile, merged, FALSE, TRUE)}
                /\ nextFile' = nextFile + 1
        /\ UNCHANGED <<phase, lost, manifest, lastSeq, written, repairer, ghosts>>

\* A file that is not needed any more is deleted, now or later.
DeleteObsolete(f) ==
    /\ phase = "open"
    /\ f \in files \ (Live \cup {CurrentLog})
    /\ files' = files \ {f}
    /\ UNCHANGED <<phase, lost, version, manifest, lastSeq, nextFile, written, repairer, ghosts>>

\* Some of a file's entries cannot be read any more.  A log that lost a record has
\* no error for it.  The contents of a log record may be changed.
Bogus(e) == [e EXCEPT !.key = 0]
Damage(f, gone) ==
    /\ "lost" \in Damages /\ phase = "broken" /\ stops = 0 /\ ~f.hurt /\ gone \subseteq f.entries /\ gone # {}
    /\ files' = (files \ {f}) \cup {[f EXCEPT !.hurt = TRUE, !.entries = @ \ gone]}
    /\ UNCHANGED <<phase, lost, version, manifest, lastSeq, nextFile, written, repairer, ghosts>>
DamageLog(f, e) ==
    /\ "changed" \in Damages /\ phase = "broken" /\ stops = 0 /\ f.type = "log" /\ e \in f.entries /\ e \in written
    /\ files' = (files \ {f}) \cup {[f EXCEPT !.entries = (@ \ {e}) \cup {Bogus(e)}]}
    /\ UNCHANGED <<phase, lost, version, manifest, lastSeq, nextFile, written, repairer, ghosts>>

\* The manifest is lost: the database cannot be opened.
Break ==
    /\ phase = "open" /\ stops = 0 /\ phase' = "broken" /\ manifest' = FALSE
    /\ UNCHANGED <<files, lost, version, lastSeq, nextFile, written, repairer, ghosts>>
-----------------------------------------------------------------------------
(* Repairer::Run *)

\* FindFiles.  Its list of logs is in no order.
FindFiles ==
    /\ phase = "broken" /\ phase' = "logs"
    /\ logs' = {f.num : f \in Logs(files)} /\ tableNumbers' = {f.num : f \in Tables(files)}
    /\ tables' = {} /\ maxSequence' = 0 /\ copying' = NoCopy
    /\ next' = 1 + Max({0} \cup {f.num : f \in files})
    /\ found' = found \cup Entries(files) /\ faulted' = FALSE
    /\ UNCHANGED <<db, stops>>

\* ArchiveFile: a file of that name in lost/ is replaced.
Named(fs, f) == {g \in fs : g.type = f.type /\ g.num = f.num}
Archive(fs, f) == (fs \ Named(fs, f)) \cup {f}

\* ConvertLogToTable: the records that can be read, whatever their checksums say
\* (the reader is told not to look), become a table; BuildTable syncs it.
ConvertLogToTable(l) ==
    /\ phase = "logs" /\ l \in logs
    /\ next' = next + 1
    /\ LET entries == (CHOOSE f \in Logs(files) : f.num = l).entries
       IN  \/ /\ "log" \in Faults /\ faulted' = TRUE
              /\ UNCHANGED <<files, tableNumbers>>
           \/ /\ files' = files \cup IF entries = {} THEN {} ELSE {File("table", next, entries, FALSE, TRUE)}
              /\ tableNumbers' = tableNumbers \cup IF entries = {} THEN {} ELSE {next}
              /\ UNCHANGED faulted
    /\ phase' = "archive" /\ copying' = [NoCopy EXCEPT !.num = l]
    /\ UNCHANGED <<lost, version, manifest, lastSeq, nextFile, written, logs, tables, maxSequence, stops, found>>

\* The log goes to lost/ in any case.
ArchiveLog ==
    /\ phase = "archive" /\ phase' = "logs"
    /\ LET f == CHOOSE g \in Logs(files) : g.num = copying.num
       IN  files' = files \ {f} /\ lost' = Archive(lost, f) /\ logs' = logs \ {f.num}
    /\ copying' = NoCopy
    /\ UNCHANGED <<version, manifest, lastSeq, nextFile, written, tableNumbers, tables, maxSequence, next, ghosts>>

LogsDone ==
    /\ phase = "logs" /\ logs = {} /\ phase' = "tables"
    /\ UNCHANGED <<db, repairer, ghosts>>

LargestSequence(es) == Max({maxSequence} \cup {e.seq : e \in es})

\* ScanTable, of a table without errors.
ScanTable(n) ==
    /\ phase = "tables" /\ copying = NoCopy /\ n \in tableNumbers /\ ~Table(n).hurt
    /\ tables' = tables \cup {n} /\ tableNumbers' = tableNumbers \ {n}
    /\ maxSequence' = LargestSequence(Table(n).entries)
    /\ UNCHANGED <<phase, db, logs, next, copying, ghosts>>

\* Mutant: the table is not archived but overwritten at once.
RepairInPlace(n) ==
    /\ phase = "tables" /\ copying = NoCopy /\ n \in tableNumbers /\ Table(n).hurt
    /\ tableNumbers' = tableNumbers \ {n} /\ next' = next + 1
    /\ LET f == Table(n)
       IN  /\ files' = (files \ {f}) \cup {File("table", next, {}, TRUE, FALSE)}
           /\ copying' = [num |-> n, copy |-> next, entries |-> f.entries]
    /\ UNCHANGED <<phase, lost, version, manifest, lastSeq, nextFile, written, logs, tables, maxSequence, ghosts>>

\* ScanTable with an error and RepairTable: the entries are copied to a new file,
\* which is not complete yet when the table is archived.
RepairTable(n) ==
    /\ phase = "tables" /\ copying = NoCopy /\ n \in tableNumbers /\ Table(n).hurt
    /\ tableNumbers' = tableNumbers \ {n} /\ next' = next + 1
    /\ LET f == Table(n)
       IN  \/ /\ "create" \in Faults /\ faulted' = TRUE
              /\ UNCHANGED <<files, lost, copying>>
           \/ /\ files' = (files \ {f}) \cup {File("table", next, {}, TRUE, FALSE)}
              /\ lost' = Archive(lost, f)
              /\ copying' = [num |-> n, copy |-> next, entries |-> f.entries]
              /\ UNCHANGED faulted
    /\ UNCHANGED <<phase, version, manifest, lastSeq, nextFile, written, logs, tables, maxSequence, stops, found>>

\* The copy is finished, closed and renamed to the table; it is deleted if one of
\* these fails, and just left if it is empty.
FinishCopy ==
    /\ phase = "tables" /\ copying # NoCopy /\ copying' = NoCopy
    /\ LET copy == Table(copying.copy)
       IN  \/ /\ copying.entries = {}
              /\ UNCHANGED <<files, tables, maxSequence, faulted>>
           \/ /\ copying.entries # {}
              /\ files' = (files \ {copy}) \cup {File("table", copying.num, copying.entries, FALSE, FALSE)}
              /\ tables' = tables \cup {copying.num}
              /\ maxSequence' = LargestSequence(copying.entries)
              /\ UNCHANGED faulted
           \/ /\ copying.entries # {} /\ "copy" \in Faults /\ faulted' = TRUE
              /\ files' = files \ {copy}
              /\ UNCHANGED <<tables, maxSequence>>
    /\ UNCHANGED <<phase, lost, version, manifest, lastSeq, nextFile, written, logs, tableNumbers, next, stops, found>>

TablesDone ==
    /\ phase = "tables" /\ tableNumbers = {} /\ copying = NoCopy /\ phase' = "descriptor"
    /\ UNCHANGED <<db, repairer, ghosts>>

\* WriteDescriptor: the new manifest is written to a temporary file; if it cannot
\* be, the repair ends with an error.  The old manifests are archived before it
\* is renamed and CURRENT set.
WriteDescriptor ==
    /\ phase = "descriptor"
    /\ \/ phase' = "installing" /\ manifest' = FALSE /\ UNCHANGED ghosts
       \/ /\ "descriptor" \in Faults /\ stops < MaxStops /\ stops' = stops + 1
          /\ phase' = "broken" /\ faulted' = TRUE /\ UNCHANGED <<manifest, found>>
    /\ UNCHANGED <<files, lost, version, lastSeq, nextFile, written, repairer>>

InstallDescriptor ==
    /\ phase = "installing" /\ phase' = "repaired"
    /\ manifest' = TRUE /\ version' = [l \in 0 .. 1 |-> IF l = 0 THEN tables ELSE {}]
    /\ lastSeq' = maxSequence /\ nextFile' = next
    /\ UNCHANGED <<files, lost, written, repairer, ghosts>>

\* The repair is stopped: its process, or the machine, which loses what was not
\* synced.
Stop(crash) ==
    /\ phase \in {"logs", "archive", "tables", "descriptor", "installing"}
    /\ stops < MaxStops /\ stops' = stops + 1 /\ phase' = "broken"
    /\ files' = IF crash THEN {IF f.synced THEN f ELSE [f EXCEPT !.entries = {}, !.hurt = TRUE] : f \in files}
                ELSE files
    /\ UNCHANGED <<lost, version, manifest, lastSeq, nextFile, written, repairer, found, faulted>>

\* The repaired database is opened: files that the manifest does not name go.
Open ==
    /\ phase = "repaired" /\ phase' = "reopened"
    /\ files' = Live
    /\ UNCHANGED <<lost, version, manifest, lastSeq, nextFile, written, repairer, ghosts>>

Next ==
    \/ \E k \in Keys, type \in {"value", "deletion"} : Write(k, type)
    \/ FlushLog \/ Break \/ FindFiles \/ ArchiveLog \/ LogsDone \/ FinishCopy \/ TablesDone
    \/ WriteDescriptor \/ InstallDescriptor \/ Open
    \/ \E n \in version[0] : Compact(n)
    \/ \E f \in files : DeleteObsolete(f) \/ (\E gone \in SUBSET f.entries : Damage(f, gone))
                                          \/ (\E e \in f.entries : DamageLog(f, e))
    \/ \E l \in logs : ConvertLogToTable(l)
    \/ \E n \in tableNumbers : ScanTable(n) \/ RepairTable(n)
    \/ \E crash \in {FALSE, MachineCrash} : Stop(crash)

Spec == Init /\ [][Next]_vars
-----------------------------------------------------------------------------
\* Nothing that could be read when a repair began is destroyed by it, by calls
\* that fail in it, by stopping it and running it again, or by opening the
\* database afterwards: it is in the database or in lost/.
NothingDestroyed == found \subseteq Entries(files) \cup Entries(lost)

\* A repair in which no call failed recovers everything that its directory had.
RecoversAll ==
    phase = "repaired" /\ ~faulted /\ stops = 0 => found = Entries(Live)

\* What a repaired database writes next is newer than all it holds, and its next
\* file is none that it has: otherwise a write would be hidden by an older one.
NumbersFresh ==
    phase \in {"repaired", "reopened"} =>
        /\ \A e \in Entries(Live) : e.seq <= lastSeq
        /\ \A f \in files : f.num < nextFile
=============================================================================
