------------------------------ MODULE LogFile ------------------------------
(***************************************************************************)
(* leveldb db/log_writer.cc and db/log_reader.cc: the record log under the *)
(* write-ahead log and the MANIFEST.  A record is cut into fragments so    *)
(* that no fragment crosses a block; a fragment is a header and a payload. *)
(*                                                                         *)
(* The file is a sequence of cells, one per byte.  A header byte carries   *)
(* the type and the checksummed payload, so "the checksum matches" means   *)
(* that header and payload are exactly what one EmitPhysicalRecord wrote   *)
(* (an ideal checksum; every reader of the database except repair checks   *)
(* it).  A crash keeps a prefix of the file that holds all synced bytes,   *)
(* possibly followed by bytes the file system never wrote (zeros).         *)
(***************************************************************************)
EXTENDS Integers, Sequences, FiniteSets

CONSTANTS
    BlockSize, HeaderSize,  \* kBlockSize, kHeaderSize
    Sizes,                  \* lengths of the records that may be added
    MaxRecords,             \* bound: records added
    MaxOpens,               \* bound: writers opened on the file (reuse_logs)
    MaxErrors,              \* bound: failed Appends
    MaxDamage,              \* bound: bytes damaged on disk
    ZeroFill,               \* a crash may leave zeros instead of data
    InitialOffsets          \* initial_offset of the readers

ASSUME LogAssumption ==
    /\ HeaderSize \in Nat \ {0} /\ BlockSize \in Nat /\ BlockSize > HeaderSize
    /\ Sizes \subseteq Nat /\ InitialOffsets \subseteq Nat
    /\ MaxRecords \in Nat /\ MaxOpens \in Nat /\ MaxErrors \in Nat
    /\ MaxDamage \in Nat /\ ZeroFill \in BOOLEAN

VARIABLES
    file,     \* the bytes of the file
    synced,   \* how many of them fsync has covered
    added,    \* the records passed to AddRecord, in order
    span,     \* where each record lies: from its first header to its end
    acked,    \* records whose AddRecord and a following Sync succeeded
    wr,       \* the Writer: block_offset_ and the record it is cutting
    rd,       \* the Reader
    phase,    \* "write", "read" or "done"
    opens, errors, damaged

vars == <<file, synced, added, span, acked, wr, rd, phase, opens, errors, damaged>>

Zero == [zero |-> TRUE]
Bad == [bad |-> TRUE]
Header(type, payload) ==
    [j \in 1 .. HeaderSize |-> [byte |-> j, type |-> type, crc |-> payload]]
Zeros(n) == [j \in 1 .. n |-> Zero]

\* Record r of n bytes.
Payload(r, n) == [j \in 1 .. n |-> [rec |-> r, byte |-> j]]

Idle == [begin |-> TRUE, left |-> <<>>, busy |-> FALSE]

NoReader == [start |-> 0, pos |-> 0, buffer |-> <<>>, eof |-> FALSE,
             resyncing |-> FALSE, inFragment |-> FALSE, scratch |-> <<>>,
             offset |-> 0, out |-> <<>>, last |-> 0, reported |-> FALSE]

Init ==
    /\ file = <<>> /\ synced = 0 /\ added = <<>> /\ span = <<>> /\ acked = {}
    /\ wr = [blockOffset |-> 0, cur |-> Idle]
    /\ rd = NoReader /\ phase = "write" /\ opens = 1 /\ errors = 0 /\ damaged = {}
-----------------------------------------------------------------------------
(* Writer *)

AddRecord(n) ==
    /\ phase = "write" /\ ~wr.cur.busy /\ Len(added) < MaxRecords
    /\ added' = Append(added, Payload(Len(added) + 1, n))
    /\ span' = Append(span, [from |-> -1, to |-> -1])
    /\ wr' = [wr EXCEPT !.cur = [begin |-> TRUE, left |-> Payload(Len(added) + 1, n), busy |-> TRUE]]
    /\ UNCHANGED <<file, synced, acked, rd, phase, opens, errors, damaged>>

\* "Invariant: we never leave < kHeaderSize bytes in a block."
Trailer ==
    IF BlockSize - wr.blockOffset < HeaderSize THEN BlockSize - wr.blockOffset ELSE 0
FragmentStart == IF BlockSize - wr.blockOffset < HeaderSize THEN 0 ELSE wr.blockOffset
FragmentLength ==
    LET avail == BlockSize - FragmentStart - HeaderSize IN
    IF Len(wr.cur.left) < avail THEN Len(wr.cur.left) ELSE avail
FragmentType ==
    LET end == FragmentLength = Len(wr.cur.left) IN
    CASE wr.cur.begin /\ end -> "full" [] wr.cur.begin /\ ~end -> "first"
      [] ~wr.cur.begin /\ end -> "last" [] OTHER -> "middle"

\* The bytes one round of AddRecord's loop appends, trailer included.
FragmentBytes ==
    LET payload == SubSeq(wr.cur.left, 1, FragmentLength) IN
    Zeros(Trailer) \o Header(FragmentType, payload) \o payload

BumpOffset == [wr EXCEPT !.blockOffset = FragmentStart + HeaderSize + FragmentLength]

Rest == SubSeq(wr.cur.left, FragmentLength + 1, Len(wr.cur.left))

\* One round of the loop whose Append and Flush succeed.
EmitPhysicalRecord ==
    LET r == Len(added)
        at == Len(file) + Trailer
    IN  /\ phase = "write" /\ wr.cur.busy
        /\ file' = file \o FragmentBytes
        /\ wr' = [BumpOffset EXCEPT !.cur =
                    IF Rest = <<>> THEN Idle ELSE [begin |-> FALSE, left |-> Rest, busy |-> TRUE]]
        /\ span' = [span EXCEPT ![r] = [from |-> IF wr.cur.begin THEN at ELSE @.from,
                                        to |-> IF Rest = <<>> THEN Len(file') ELSE -1]]
        /\ UNCHANGED <<synced, added, acked, rd, phase, opens, errors, damaged>>

\* A round in which an Append or the Flush fails after some bytes: AddRecord
\* returns the error, but block_offset_ has moved past the whole fragment.
EmitFails ==
    /\ phase = "write" /\ wr.cur.busy /\ errors < MaxErrors
    /\ \E k \in 0 .. Len(FragmentBytes) - 1 : file' = file \o SubSeq(FragmentBytes, 1, k)
    /\ wr' = [BumpOffset EXCEPT !.cur = Idle]
    /\ errors' = errors + 1
    /\ UNCHANGED <<synced, added, span, acked, rd, phase, opens, damaged>>

Complete == {r \in DOMAIN span : span[r].to # -1}

\* WritableFile::Sync after AddRecord.
Sync ==
    /\ phase = "write" /\ ~wr.cur.busy /\ synced < Len(file)
    /\ synced' = Len(file) /\ acked' = Complete
    /\ UNCHANGED <<file, added, span, wr, rd, phase, opens, errors, damaged>>
-----------------------------------------------------------------------------
(* Crash, and a reader over what is left. *)

\* SkipToInitialBlock, called by the first ReadRecord of a reader with an
\* initial offset.  (6 of the code is kHeaderSize - 1.)
SkipToInitialBlock(off) ==
    LET inBlock == off % BlockSize IN
    IF inBlock > BlockSize - (HeaderSize - 1) THEN off - inBlock + BlockSize ELSE off - inBlock

OpenReader(off) ==
    [NoReader EXCEPT !.start = off, !.resyncing = off > 0,
                     !.pos = IF off > 0 THEN SkipToInitialBlock(off) ELSE 0]

\* The machine stops; the file keeps its first k bytes.
Crash ==
    /\ phase = "write"
    /\ \E k \in synced .. Len(file), z \in {0} \cup (IF ZeroFill THEN {1, HeaderSize} ELSE {}),
          off \in InitialOffsets :
        /\ file' = SubSeq(file, 1, k) \o Zeros(z)
        /\ span' = [r \in DOMAIN span |-> IF span[r].to <= k THEN span[r] ELSE [from |-> -1, to |-> -1]]
        /\ rd' = OpenReader(off)
    /\ synced' = Len(file') /\ phase' = "read"
    /\ wr' = [wr EXCEPT !.cur = Idle]
    /\ UNCHANGED <<added, acked, opens, errors, damaged>>

\* A byte rots before the file is read.
Damage ==
    /\ phase = "read" /\ rd = OpenReader(rd.start) /\ Cardinality(damaged) < MaxDamage
    /\ \E p \in DOMAIN file : file' = [file EXCEPT ![p] = Bad] /\ damaged' = damaged \cup {p - 1}
    /\ UNCHANGED <<synced, added, span, acked, wr, rd, phase, opens, errors>>

Drop(b, n) == SubSeq(b, n + 1, Len(b))

\* ReportDrop: nothing is reported about bytes before initial_offset_.  pos
\* is end_of_buffer_offset_.
ReportDrop(r, bytes) ==
    [r EXCEPT !.reported = @ \/ r.pos - Len(r.buffer) - bytes >= r.start]

\* The next block in the buffer, once less than a header is left of this one.
FillBuffer(r) ==
    LET b == SubSeq(file, r.pos + 1,
                    IF r.pos + BlockSize < Len(file) THEN r.pos + BlockSize ELSE Len(file))
    IN  [r EXCEPT !.buffer = b, !.pos = @ + Len(b), !.eof = Len(b) < BlockSize]

Result(t, fragment, r) == [type |-> t, fragment |-> fragment, rd |-> r]
Emptied(r) == [r EXCEPT !.buffer = <<>>]

WholeHeader(b) ==
    /\ "type" \in DOMAIN b[1]
    /\ SubSeq(b, 1, HeaderSize) = Header(b[1].type, b[1].crc)

\* A checksum that fails takes the rest of the block with it; so does a
\* length beyond the block, which at the end of the file is a torn record.
Lost(r) == Result("bad", <<>>, ReportDrop(Emptied(r), Len(r.buffer)))
TooLong(r) == IF r.eof THEN Result("eof", <<>>, Emptied(r)) ELSE Lost(r)

\* What the header and payload at the front of the buffer give.  A header
\* that is not whole has some length: too long, or one whose checksum fails.
ParsePhysicalRecord(r) ==
    LET b == r.buffer
    IN  IF WholeHeader(b)
        THEN LET n == Len(b[1].crc)
                 next == [r EXCEPT !.buffer = Drop(b, HeaderSize + n)]
             IN  CASE HeaderSize + n > Len(b) -> {TooLong(r)}
                   [] HeaderSize + n <= Len(b) /\ SubSeq(b, HeaderSize + 1, HeaderSize + n) # b[1].crc -> {Lost(r)}
                   [] OTHER ->
                        IF next.pos - Len(next.buffer) - HeaderSize - n < r.start
                        THEN {Result("bad", <<>>, next)}
                        ELSE {Result(b[1].type, b[1].crc, next)}
        ELSE IF SubSeq(b, 1, HeaderSize) = Zeros(HeaderSize)
             THEN {Result("bad", <<>>, Emptied(r))}
             ELSE {TooLong(r), Lost(r)}

\* ReadPhysicalRecord: the possible results.
ReadPhysicalRecord ==
    IF Len(rd.buffer) >= HeaderSize THEN ParsePhysicalRecord(rd)
    ELSE LET r == FillBuffer(rd) IN
         IF rd.eof \/ Len(r.buffer) < HeaderSize THEN {Result("eof", <<>>, Emptied(IF rd.eof THEN rd ELSE r))}
         ELSE ParsePhysicalRecord(r)

\* The end of one call of ReadRecord: the next call starts without fragments.
Return(r, data, off) ==
    [r EXCEPT !.out = Append(@, [data |-> data, off |-> off]), !.last = off,
              !.inFragment = FALSE, !.scratch = <<>>]

\* "partial record without end": an unfinished record is given up.
Unfinished(r) ==
    IF r.inFragment /\ r.scratch # <<>> THEN ReportDrop(r, Len(r.scratch)) ELSE r

\* Mutant: the fragments read so far are kept.
KeepFragment(r) == r

\* "error in middle of record"
GiveUp(r) ==
    IF r.inFragment
    THEN [ReportDrop(r, Len(r.scratch)) EXCEPT !.inFragment = FALSE, !.scratch = <<>>]
    ELSE r

Handle(x) ==
    LET r == x.rd
        off == r.pos - Len(r.buffer) - HeaderSize - Len(x.fragment)
    IN  CASE x.type = "full" -> Return(Unfinished(r), x.fragment, off)
          [] x.type = "first" -> [Unfinished(r) EXCEPT !.scratch = x.fragment,
                                    !.inFragment = TRUE, !.offset = off]
          [] x.type = "middle" ->
                IF r.inFragment THEN [r EXCEPT !.scratch = @ \o x.fragment]
                ELSE ReportDrop(r, Len(x.fragment))
          [] x.type = "last" ->
                IF r.inFragment THEN Return(r, r.scratch \o x.fragment, r.offset)
                ELSE ReportDrop(r, Len(x.fragment))
          [] x.type = "bad" -> GiveUp(r)
          [] OTHER -> r

\* One round of ReadRecord's loop; while resyncing_ the tail of a record that
\* began before the initial offset is skipped.
ReadRecord ==
    /\ phase = "read"
    /\ \E x \in ReadPhysicalRecord :
        /\ rd' = IF x.rd.resyncing /\ x.type \in {"middle", "last"}
                 THEN [x.rd EXCEPT !.resyncing = x.type = "middle"]
                 ELSE Handle([x EXCEPT !.rd.resyncing = FALSE])
        /\ phase' = IF x.type = "eof" THEN "done" ELSE "read"
    /\ UNCHANGED <<file, synced, added, span, acked, wr, opens, errors, damaged>>

\* reuse_logs: the recovered log is appended to, Writer(dest, dest_length).
ReuseLog ==
    /\ phase = "done" /\ opens < MaxOpens
    /\ wr' = [blockOffset |-> Len(file) % BlockSize, cur |-> Idle]
    /\ rd' = NoReader /\ phase' = "write" /\ opens' = opens + 1
    /\ UNCHANGED <<file, synced, added, span, acked, errors, damaged>>

Next ==
    \/ \E n \in Sizes : AddRecord(n)
    \/ EmitPhysicalRecord \/ EmitFails \/ Sync
    \/ Crash \/ Damage \/ ReadRecord \/ ReuseLog

Spec == Init /\ [][Next]_vars
-----------------------------------------------------------------------------
\* The reader's and the writer's fields have their types, and block_offset_
\* is within the block it counts.
LogTypeOK ==
    /\ synced \in 0 .. Len(file) /\ acked \subseteq DOMAIN added
    /\ wr.blockOffset \in 0 .. BlockSize
    /\ phase \in {"write", "read", "done"}
    /\ Len(rd.buffer) <= BlockSize /\ DOMAIN span = DOMAIN added

\* ReadRecord over an undamaged file returns exactly the records that begin
\* at or after initial_offset and survived whole, in order and unchanged, and
\* LastRecordOffset names the place of each (log_reader.h:41, 55).
ReadsBack ==
    phase = "done" /\ damaged = {} =>
      LET kept == SelectSeq([r \in DOMAIN added |-> r],
                            LAMBDA r : span[r].to # -1 /\ span[r].from >= rd.start)
      IN  rd.out = [i \in DOMAIN kept |-> [data |-> added[kept[i]], off |-> span[kept[i]].from]]

\* Whatever the damage, the reader invents nothing: what it returns are added
\* records, unchanged and in the order they were added.
NoInvention ==
    \E f \in [DOMAIN rd.out -> DOMAIN added] :
        /\ \A i, j \in DOMAIN f : i < j => f[i] < f[j]
        /\ \A i \in DOMAIN f : rd.out[i].data = added[f[i]]

Returned(r) == \E i \in DOMAIN rd.out : rd.out[i] = [data |-> added[r], off |-> span[r].from]
BlocksOf(r) == {p \div BlockSize : p \in span[r].from .. span[r].to - 1}

\* "If length itself may have been corrupted" only the rest of its block is
\* dropped (log_reader.cc:258): a record none of whose blocks is damaged is read.
DamageContained ==
    phase = "done" =>
        \A r \in Complete : BlocksOf(r) \cap {p \div BlockSize : p \in damaged} = {} => Returned(r)
=============================================================================
