----------------------------- MODULE TableFile ------------------------------
(***************************************************************************)
(* leveldb's table files: BuildTable (db/builder.cc) writes one with       *)
(* TableBuilder and FilterBlockBuilder, Table opens it and looks keys up   *)
(* through its index, filter and data blocks (table/table.cc, format.cc),  *)
(* which may have been damaged on disk and may come from the block cache.  *)
(*                                                                         *)
(* What a block holds is module Block's matter: here it is a sequence of   *)
(* internal keys.  Sizes and offsets are in units; compression stores a    *)
(* block in any smaller size.  The filter policy is a set of user keys     *)
(* that may also answer yes for others.                                    *)
(***************************************************************************)
EXTENDS Comparator, FiniteSets

CONSTANTS
    Users, Tags,        \* user keys and tags that are used
    MaxEntries,         \* bound: entries of a table
    Sizes,              \* the sizes an entry may have
    BlockSize,          \* options.block_size
    FilterBase,         \* kFilterBase
    MaxDamage,          \* bound: damaged parts of a file
    Trailer,            \* kBlockTrailerSize
    Paranoid, Verify    \* the values paranoid_checks and verify_checksums may have

ASSUME TableFileAssumption ==
    /\ MaxEntries \in Nat /\ MaxDamage \in Nat /\ BlockSize \in Nat /\ FilterBase \in Nat \ {0} /\ Trailer \in Nat
    /\ Sizes \subseteq Nat \ {0} /\ Paranoid \subseteq BOOLEAN /\ Verify \subseteq BOOLEAN

InternalKeys == [user : Users, tag : Tags]
NoKey == [user |-> <<>>, tag |-> -1]

\* The parts of a file: its data blocks 1, 2, ... and these.
IndexPart == -1
FilterPart == 0

VARIABLES
    phase,      \* "building", "finished", "kept", "deleted", "open", "refused"
    added,      \* ghost: the keys given to Add
    rep,        \* TableBuilder::Rep with its FilterBlockBuilder
    blocks,     \* the data blocks in the file
    damage,     \* the damaged parts
    table       \* Table::Rep: the state of index and filter; the cached blocks

vars == <<phase, added, rep, blocks, damage, table>>

Unopened == [index |-> "none", filter |-> "none", verified |-> FALSE, cached |-> {}, cachedBad |-> {}]

\* filters is the sequence of filters that are done, filterKeys the next one's keys.
Init ==
    /\ phase = "building" /\ added = <<>> /\ blocks = <<>> /\ damage = {} /\ table = Unopened
    /\ \E policy \in BOOLEAN :
        rep = [offset |-> 0, err |-> FALSE, data |-> <<>>, size |-> 0, index |-> <<>>,
               lastKey |-> NoKey, pending |-> 0,
               policy |-> policy, filters |-> <<>>, filterKeys |-> {}]
-----------------------------------------------------------------------------
(* Writing *)

\* FilterBlockBuilder
GenerateFilter(r) == [r EXCEPT !.filters = Append(@, r.filterKeys), !.filterKeys = {}]

\* Mutant: one filter for each block.
StartBlockOncePerBlock(r, offset) == GenerateFilter(r)

RECURSIVE StartBlock(_, _)
StartBlock(r, offset) ==
    IF offset \div FilterBase > Len(r.filters) THEN StartBlock(GenerateFilter(r), offset) ELSE r

\* Flush with WriteBlock and WriteRawBlock: the data block, unless it is empty,
\* goes to the file in stored units; appending it or flushing the file may fail.
Flush(r, stored, fails) ==
    LET written == IF fails = "append" THEN [r EXCEPT !.err = TRUE]
                   ELSE [r EXCEPT !.offset = @ + stored + Trailer, !.pending = Len(blocks) + 1,
                                  !.err = (fails = "flush")]
        reset == [written EXCEPT !.data = <<>>, !.size = 0]
    IN  IF r.data = <<>> THEN r
        ELSE IF r.policy THEN StartBlock(reset, reset.offset) ELSE reset
WriteBlock(r, fails) ==
    IF r.data = <<>> \/ fails = "append" THEN blocks
    ELSE Append(blocks, [offset |-> r.offset, keys |-> r.data])

\* The index entry for the last block, once the next key or the end is known.
IndexEntry(r, key) ==
    IF r.pending = 0 THEN r
    ELSE [r EXCEPT !.index = Append(@, [key |-> key, block |-> r.pending]), !.pending = 0]

Faults == {"none", "append", "flush"}

Add(key, size, stored, fails) ==
    /\ phase = "building" /\ Len(added) < MaxEntries
    /\ added # <<>> => LessInternal(added[Len(added)], key)
    /\ added' = Append(added, key)
    /\ IF rep.err THEN UNCHANGED <<rep, blocks>>
       ELSE LET indexed == IndexEntry(rep, SeparatorInternal(rep.lastKey, key))
                r == [indexed EXCEPT !.lastKey = key, !.data = Append(@, key), !.size = @ + size,
                                     !.filterKeys = IF rep.policy THEN @ \cup {key.user} ELSE @]
            IN  /\ stored \in 1 .. r.size
                /\ IF r.size >= BlockSize
                   THEN rep' = Flush(r, stored, fails) /\ blocks' = WriteBlock(r, fails)
                   ELSE stored = 1 /\ fails = "none" /\ rep' = r /\ UNCHANGED blocks
    /\ UNCHANGED <<phase, damage, table>>

\* Finish: the last data block, then filter, metaindex, index and footer, each of
\* which may fail to be written.
Finish(stored, fails, restFails) ==
    /\ phase = "building" /\ added # <<>> /\ phase' = "finished"
    /\ IF rep.err THEN UNCHANGED <<rep, blocks>>
       ELSE LET r == Flush(rep, stored, fails)
                filtered == IF r.policy /\ r.filterKeys # {} THEN GenerateFilter(r) ELSE r
            IN  /\ stored \in 1 .. IF rep.data = <<>> THEN 1 ELSE rep.size
                /\ blocks' = WriteBlock(rep, fails)
                /\ rep' = IF r.err THEN r
                          ELSE [IndexEntry(filtered, SuccessorInternal(r.lastKey)) EXCEPT !.err = restFails]
    /\ UNCHANGED <<added, damage, table>>

\* The rest of BuildTable: sync, close, open the table once, and look at the
\* status of the input; the file is kept if all went well.
Keep(otherError) ==
    /\ phase = "finished"
    /\ phase' = IF rep.err \/ otherError THEN "deleted" ELSE "kept"
    /\ UNCHANGED <<added, rep, blocks, damage, table>>
-----------------------------------------------------------------------------
(* Reading *)

Damage(part) ==
    /\ phase = "kept" /\ Cardinality(damage) < MaxDamage /\ damage' = damage \cup {part}
    /\ UNCHANGED <<phase, added, rep, blocks, table>>

\* ReadBlock: what may come of reading a part.
ReadBlock(part, verify) ==
    IF part \notin damage THEN {"good"} ELSE IF verify THEN {"error"} ELSE {"error", "bad"}

\* Open with ReadMeta and ReadFilter: a filter that cannot be read is done without.
Open(paranoid, index, filter) ==
    /\ phase = "kept"
    /\ index \in ReadBlock(IndexPart, paranoid)
    /\ filter \in IF rep.policy THEN ReadBlock(FilterPart, paranoid) ELSE {"error"}
    /\ IF index = "error" THEN phase' = "refused" /\ UNCHANGED table
       ELSE /\ phase' = "open"
            /\ table' = [Unopened EXCEPT !.index = index, !.verified = paranoid,
                                         !.filter = IF filter = "error" THEN "none" ELSE filter]
    /\ UNCHANGED <<added, rep, blocks, damage>>

\* The index block's Seek: the block to look in, or 0.
IndexSeek(key) ==
    LET at == {i \in 1 .. Len(rep.index) : ~LessInternal(rep.index[i].key, key)}
    IN  IF at = {} THEN 0 ELSE rep.index[CHOOSE i \in at : \A j \in at : i <= j].block

\* FilterBlockReader::KeyMayMatch with InternalFilterPolicy: the answers it may give.
KeyMayMatch(block, key) ==
    LET i == blocks[block].offset \div FilterBase + 1
    IN  IF table.filter = "bad" THEN BOOLEAN
        ELSE IF table.filter = "none" \/ i > Len(rep.filters) THEN {TRUE}
        ELSE IF key.user \in rep.filters[i] THEN {TRUE}
        ELSE BOOLEAN

\* BlockReader: the contents it may get, from the cache if they are there.
BlockReader(block, verify) ==
    IF block \in table.cached THEN {IF block \in table.cachedBad THEN "bad" ELSE "good"}
    ELSE ReadBlock(block, verify)

BlockSeek(block, key) ==
    LET at == SelectSeq(blocks[block].keys, LAMBDA k : ~LessInternal(k, key))
    IN  IF at = <<>> THEN NoKey ELSE at[1]

\* InternalGet: everything that may be handed to the saver (NoKey for nothing),
\* and Error for a status that is not OK.  Damaged contents may give anything.
Error == [user |-> <<>>, tag |-> -2]
AnyResult == InternalKeys \cup {NoKey, Error}
InternalGet(key, verify) ==
    LET block == IndexSeek(key)
        of(contents) == IF contents = "good" THEN {BlockSeek(block, key)}
                        ELSE IF contents = "error" THEN {Error} ELSE AnyResult
    IN  IF table.index = "bad" THEN AnyResult
        ELSE IF block = 0 THEN {NoKey}
        ELSE (IF FALSE \in KeyMayMatch(block, key) THEN {NoKey} ELSE {})
             \cup (IF TRUE \in KeyMayMatch(block, key)
                   THEN UNION {of(c) : c \in BlockReader(block, verify)} ELSE {})

\* A read of a block that leaves it in the block cache (fill_cache, and a file
\* that is not mapped).
Cache(key, verify, contents) ==
    /\ phase = "open" /\ table.index = "good" /\ IndexSeek(key) # 0
    /\ LET block == IndexSeek(key)
       IN  /\ TRUE \in KeyMayMatch(block, key)
           /\ block \notin table.cached
           /\ contents \in BlockReader(block, verify) \ {"error"}
           /\ table' = [table EXCEPT !.cached = @ \cup {block},
                                     !.cachedBad = IF contents = "bad" THEN @ \cup {block} ELSE @]
    /\ UNCHANGED <<phase, added, rep, blocks, damage>>

\* The cache drops a block.
Evict(block) ==
    /\ block \in table.cached
    /\ table' = [table EXCEPT !.cached = @ \ {block}, !.cachedBad = @ \ {block}]
    /\ UNCHANGED <<phase, added, rep, blocks, damage>>

\* The metaindex block comes after the filters, all of which come after the data.
ApproximateOffsetOf(key) ==
    IF IndexSeek(key) # 0 THEN blocks[IndexSeek(key)].offset ELSE rep.offset

Parts == IndexPart .. Len(blocks)
Next ==
    \/ \E key \in InternalKeys, size \in Sizes, stored \in 1 .. BlockSize + 2, fails \in Faults :
        Add(key, size, stored, fails)
    \/ \E stored \in 1 .. BlockSize + 2, fails \in Faults, restFails \in BOOLEAN : Finish(stored, fails, restFails)
    \/ \E otherError \in BOOLEAN : Keep(otherError)
    \/ \E part \in Parts : Damage(part)
    \/ \E paranoid \in Paranoid, index, filter \in {"good", "bad", "error"} : Open(paranoid, index, filter)
    \/ \E key \in InternalKeys, verify \in Verify, contents \in {"good", "bad"} : Cache(key, verify, contents)
    \/ \E block \in 1 .. Len(blocks) : Evict(block)

Spec == Init /\ [][Next]_vars
-----------------------------------------------------------------------------
\* What a lookup should find: the newest entry of the user key at or below the tag.
Lookup(key) ==
    LET at == SelectSeq(added, LAMBDA k : k.user = key.user /\ ~LessInternal(k, key))
    IN  IF at = <<>> THEN NoKey ELSE at[1]

\* A table that BuildTable kept gives the right entry of each key or none, through
\* shortened index keys and filters that several blocks or none share, or says
\* that it could not: no entry is lost or replaced without an error, also when
\* parts of the file are damaged, if checksums are verified.
VerifiedReadsRight ==
    phase = "open" =>
        \A key \in InternalKeys : \A r \in InternalGet(key, TRUE) :
            \/ r = Error \/ r = Lookup(key)
            \/ Lookup(key) = NoKey /\ r.user # key.user

\* The approximate offset of a key (GetApproximateSizes subtracts two) never
\* decreases from one key to the next.
OffsetsOrdered ==
    phase = "open" =>
        \A a, b \in InternalKeys : LessInternal(a, b) => ApproximateOffsetOf(a) <= ApproximateOffsetOf(b)

\* What a table answers to a reader who verifies checksums.
TablesReadRight == VerifiedReadsRight /\ OffsetsOrdered
=============================================================================
