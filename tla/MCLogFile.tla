----------------------------- MODULE MCLogFile ------------------------------
(***************************************************************************)
(* What is written to be read back, for TLC, one at a time: a log file     *)
(* that is read from every offset (as the configuration says), damaged or  *)
(* reused after failed writes; batches in the log and in the memtable; and *)
(* the edits of the descriptor.                                            *)
(***************************************************************************)
EXTENDS LogFile

CONSTANT Absent

VARIABLES
    setting,
    batch, other, mem, lastSeq, ops, others, done, inserts,  \* WriteBatch
    edit, calls                                              \* VersionEdit

batchVars == <<batch, other, mem, lastSeq, ops, others, done, inserts>>
editVars == <<edit, calls>>

Damaged == INSTANCE LogFile WITH
    Sizes <- {2, 9}, MaxDamage <- 1, ZeroFill <- TRUE, InitialOffsets <- {0}
Faulty == INSTANCE LogFile WITH
    Sizes <- {2, 9}, MaxRecords <- 2, MaxOpens <- 2, MaxErrors <- 1, MaxDamage <- 1,
    InitialOffsets <- {0}

\* Digits 0 .. 1: the length of a three-byte key takes two bytes.
Batch == INSTANCE WriteBatch WITH
    Base <- 2, Digits32 <- 3, Limit32 <- 8, Digits64 <- 4, Limit64 <- 16,
    Keys <- {<<1>>, <<1, 0, 2>>}, Values <- {<<>>, <<0, 1>>}, MaxOps <- 4, MaxBatches <- 2
\* Digits 0 .. 15: a tag takes one byte, as in the code, a number up to three.
Edit == INSTANCE VersionEdit WITH
    Base <- 16, Digits32 <- 2, Limit32 <- 128, Digits64 <- 3, Limit64 <- 2048,
    Names <- {<<17, 3>>}, Numbers <- {0, 2047}, kNumLevels <- 2,
    MaxFields <- 3

ASSUME Batch!CodingAssumption /\ Batch!BatchAssumption
ASSUME Edit!CodingAssumption /\ Edit!EditAssumption

LogInit ==
    /\ setting \in {"offsets", "damage", "faults", "batch", "edit"}
    /\ Init /\ Batch!BatchInit /\ Edit!EditInit

LogNext ==
    /\ \/ /\ \/ setting = "offsets" /\ Next
             \/ setting = "damage" /\ Damaged!Next
             \/ setting = "faults" /\ Faulty!Next
          /\ UNCHANGED <<batchVars, editVars>>
       \/ setting = "batch" /\ Batch!BatchNext /\ UNCHANGED <<vars, editVars>>
       \/ setting = "edit" /\ Edit!EditNext /\ UNCHANGED <<vars, batchVars>>
    /\ UNCHANGED setting

LogSpec == LogInit /\ [][LogNext]_<<vars, batchVars, editVars, setting>>
-----------------------------------------------------------------------------
\* A file that is only written and cut by crashes reads back as the records that
\* survived whole from each initial offset (log_reader.h:41, 55).
ReadsFromOffsets == setting = "offsets" => ReadsBack

\* "If length itself may have been corrupted" only the rest of its block is
\* dropped (log_reader.cc:258): a record none of whose blocks is damaged is read.
ContainsDamage == setting = "damage" => DamageContained

\* A batch reads back as the operations put into it (write_batch.cc:42-145).
BatchReadsBack == Batch!BatchReadsBack

\* A batch that lost its end never passes for a smaller one (44-79).
CutIsNoticed == Batch!CutIsNoticed

\* A read at a snapshot sees the last operation up to it on the key
\* (write_batch.cc:117-133, memtable.cc:82-143).
ReadsNewest == Batch!ReadsNewest

\* Every edit decodes to itself (version_edit.cc:41-86 against 109-210).
DecodesBack == Edit!DecodesBack

\* An edit that lost its end is refused or has fewer fields (109-210).
CutIsAnEdit == Edit!CutIsAnEdit

\* Decoding leaves of a used edit its compaction pointers only (26-39, 110).
ReusedKeepsPointersOnly == Edit!ReusedKeepsPointersOnly

\* What a log gives back: every whole record from an offset on, all outside the
\* blocks that are damaged, and nothing that was not added.
RecordsReadBack == LogTypeOK /\ ReadsFromOffsets /\ ContainsDamage /\ NoInvention

\* What batches give back, as bytes and in the memtable, and what the edits of
\* the descriptor give back.
EncodingsReadBack ==
    /\ BatchReadsBack /\ CutIsNoticed /\ ReadsNewest
    /\ DecodesBack /\ CutIsAnEdit /\ ReusedKeepsPointersOnly
=============================================================================
