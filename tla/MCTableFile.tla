---------------------------- MODULE MCTableFile -----------------------------
(***************************************************************************)
(* Table files (as the configuration says) and what reads them, for TLC,   *)
(* one at a time: a block and its iterator, the iterator over many blocks, *)
(* the merge of many iterators and the user's iterator; and the hash table *)
(* of the block cache.                                                     *)
(***************************************************************************)
EXTENDS TableFile

VARIABLES
    setting,
    keysAdded, buffer, restarts, counter, lastKey, finished, bad, it, blockCall,  \* Block
    owner, child, current, mergeDirection, mergeCall,                             \* MergingIterator
    blockOf, index, data, failed, levelCall,                                      \* TwoLevelIterator
    entries, last, sequence, iter, direction, valid,                              \* DBIter
    savedKey, savedValue, pc, skipping, valueType, want,
    list, elems, result                                                           \* HandleTable

blockVars == <<keysAdded, buffer, restarts, counter, lastKey, finished, bad, it, blockCall>>
mergeVars == <<owner, child, current, mergeDirection, mergeCall>>
levelVars == <<blockOf, index, data, failed, levelCall>>
iterVars == <<entries, last, sequence, iter, direction, valid,
              savedKey, savedValue, pc, skipping, valueType, want>>
chainVars == <<list, elems, result>>
allVars == <<vars, blockVars, mergeVars, levelVars, iterVars, chainVars, setting>>

\* Keys that share prefixes, that can be shortened, and that end in the last byte.
MCUsers == {<<0>>, <<0, 1>>, <<1, 0>>, <<2, 2>>}

\* Entries so large that a block may begin two filter windows after the last.
Wide == INSTANCE TableFile WITH Sizes <- {5}, MaxDamage <- 0

BlockKeys == {<<>>, <<0>>, <<0, 0>>, <<0, 1>>, <<1>>, <<1, 1>>, <<1, 2>>, <<2>>}
OneBlock == INSTANCE Block WITH
    MaxTag <- 0, Keys <- BlockKeys, N <- 5, Interval <- 2, Damaged <- {1, 3, 4}, added <- keysAdded, called <- blockCall
Merge == INSTANCE MergingIterator WITH
    N <- 5, Children <- {1, 2, 3}, direction <- mergeDirection, called <- mergeCall
Level == INSTANCE TwoLevelIterator WITH N <- 5, Blocks <- 4, called <- levelCall
User == INSTANCE DBIter WITH MaxKey <- 3, Old <- 3, New <- 1

\* Keys that share chains, some of them also after the array has doubled.
ChainKeys == 1 .. 5
ChainHash == <<0, 2, 4, 4, 8>>
ChainHandles == {"e1", "e2"}
Chains == INSTANCE HandleTable WITH
    Keys <- ChainKeys, Hash <- ChainHash, Handles <- ChainHandles, Nil <- "nil", MinLength <- 2

ASSUME OneBlock!ComparatorAssumption /\ OneBlock!BlockAssumption
ASSUME Merge!MergeAssumption /\ Level!TwoLevelAssumption /\ User!IterAssumption
ASSUME Chains!TableAssumption

TablesInit ==
    /\ setting \in {"table", "wide", "block", "merge", "level", "user", "chains"}
    /\ Init /\ (setting # "table" => rep.policy)
    /\ OneBlock!Init /\ Merge!Init /\ Level!Init /\ Chains!Init
    /\ setting # "merge" => owner = [k \in 1 .. 5 |-> 1]
    /\ setting # "level" => blockOf = [k \in 1 .. 5 |-> 1]
    /\ IF setting = "user" THEN User!Init
       ELSE /\ entries = {} /\ last = 0 /\ sequence = 0 /\ iter = 0 /\ direction = "forward"
            /\ valid = FALSE /\ savedKey = 0 /\ savedValue = 0 /\ pc = "none"
            /\ skipping = FALSE /\ valueType = "deletion" /\ want = 0

TablesNext ==
    /\ \/ setting = "table" /\ Next /\ UNCHANGED <<blockVars, mergeVars, levelVars, iterVars, chainVars>>
       \/ setting = "wide" /\ Wide!Next /\ UNCHANGED <<blockVars, mergeVars, levelVars, iterVars, chainVars>>
       \/ setting = "block" /\ OneBlock!Next /\ UNCHANGED <<vars, mergeVars, levelVars, iterVars, chainVars>>
       \/ setting = "merge" /\ Merge!Next /\ UNCHANGED <<vars, blockVars, levelVars, iterVars, chainVars>>
       \/ setting = "level" /\ Level!Next /\ UNCHANGED <<vars, blockVars, mergeVars, iterVars, chainVars>>
       \/ setting = "user" /\ User!Next /\ UNCHANGED <<vars, blockVars, mergeVars, levelVars, chainVars>>
       \/ setting = "chains" /\ Chains!Next
          /\ UNCHANGED <<vars, blockVars, mergeVars, levelVars, iterVars>>
    /\ UNCHANGED setting

TablesSpec == TablesInit /\ [][TablesNext]_allVars
-----------------------------------------------------------------------------
\* The iterator over a block is a cursor over the keys that were added, for any
\* keys and restart interval, unless an error says otherwise (block.cc:77-265).
ReadsBackBlock == OneBlock!ReadsBackBlock

\* The merge is one sorted iterator through every turn (merger.cc:16-183).
MergesInOrder == Merge!MergesInOrder

\* The two-level iterator passes over keys of a block that could not be read
\* only with an error from then on (two_level_iterator.cc:76-170).
SkipsOnlyWithError == Level!SkipsOnlyWithError

\* The user's iterator shows its snapshot (db_iter.cc:146-304).
ShowsSnapshot == setting = "user" => User!ShowsSnapshot

\* The chains implement a map from keys to entries (cache.cc:72-149): with the
\* mapping of HandleTable every call is a step of HandleMap.
ImplementsMap ==
    Chains!Map!Init /\ [][setting = "chains" => Chains!Map!Next]_chainVars

\* elems_ counts the entries of all chains (cache.cc:76-112).
ElemsExact == setting = "chains" => Chains!ElemsExact

\* The three iterators below the user's are cursors as iterator.h promises.
IteratorsAreCursors == ReadsBackBlock /\ MergesInOrder /\ SkipsOnlyWithError

\* The hash table of the cache is a map and knows its size.
ChainsAreMap == ImplementsMap /\ []ElemsExact
=============================================================================
