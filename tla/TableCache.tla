----------------------------- MODULE TableCache -----------------------------
(***************************************************************************)
(* leveldb util/cache.cc and db/table_cache.cc.  First one shard of the    *)
(* LRU cache, of blocks and of open tables: reference-counted entries, the *)
(* two circular lists they are on, the table that finds them and the       *)
(* eviction of idle ones.  Then the table cache on such a shard, whose     *)
(* keys are file numbers and where every table is charged 1: reads look up *)
(* the open table of a file and open the file on a miss, without a lock    *)
(* between the two; DeleteObsoleteFiles evicts the tables of files it      *)
(* deletes.                                                                *)
(*                                                                         *)
(* next and prev are the code's pointers.  A method of the shard holds     *)
(* mutex_ from its first step to its last; the longer ones take several    *)
(* steps here, with pc saying where they are, and no other method starts   *)
(* in between.  The hash table is a function from keys to entries, which   *)
(* module HandleTable implements.  free(e) makes the entry's memory        *)
(* available to a later malloc, so a handle used after that would meet     *)
(* somebody else's entry.                                                  *)
(***************************************************************************)
EXTENDS Integers, Sequences, FiniteSets

CONSTANTS
    Handles,    \* memory for LRUHandles
    Keys,
    Lru, InUse, \* the dummy heads lru_ and in_use_
    Nil,        \* NULL
    Charges,    \* charges that Insert is called with
    Capacity,   \* capacity_
    MaxHeld     \* bound: references that clients hold on one entry

ASSUME CacheAssumption ==
    /\ Lru \notin Handles /\ InUse \notin Handles /\ Nil \notin Handles
    /\ Lru # InUse /\ Nil \notin {Lru, InUse}
    /\ Keys # {} /\ Charges \subseteq Nat /\ Capacity \in Nat \ {0} /\ MaxHeld \in Nat

Nodes == Handles \cup {Lru, InUse}

VARIABLES
    next, prev, \* the pointers of the lists
    alloc,      \* entries that are allocated
    refs,       \* LRUHandle::refs
    inCache,    \* LRUHandle::in_cache
    keyOf,      \* LRUHandle::key()
    charge,     \* LRUHandle::charge
    table,      \* table_: the entry of a key, or Nil
    usage,      \* usage_
    held,       \* references that clients have got and not released
    pc,         \* the method that holds mutex_, "free" if none
    victim,     \* FinishErase's argument
    idle        \* ghost: entries nobody uses, in the order they became so

lists == <<next, prev>>
entry == <<alloc, keyOf, charge>>
vars == <<lists, entry, refs, inCache, table, usage, held, pc, victim, idle>>

Init ==
    /\ next = [x \in Nodes |-> x] /\ prev = [x \in Nodes |-> x]
    /\ alloc = {} /\ refs = [h \in Handles |-> 0] /\ inCache = [h \in Handles |-> FALSE]
    /\ charge = [h \in Handles |-> 0]
    /\ keyOf = [h \in Handles |-> CHOOSE k \in Keys : TRUE]
    /\ table = [k \in Keys |-> Nil] /\ usage = 0
    /\ held = [h \in Handles |-> 0] /\ pc = "free" /\ victim = Nil /\ idle = <<>>

\* The sequence s without the element h, if it is there.
Without(s, h) ==
    IF \A i \in DOMAIN s : s[i] # h THEN s
    ELSE LET j == CHOOSE i \in DOMAIN s : s[i] = h
         IN  [i \in 1 .. Len(s) - 1 |-> s[IF i < j THEN i ELSE i + 1]]
-----------------------------------------------------------------------------
(* The lists of a shard *)

LRU_Remove(e) ==
    /\ next' = [next EXCEPT ![prev[e]] = next[e]]
    /\ prev' = [prev EXCEPT ![next[e]] = prev[e]]

\* e becomes the newest of a list: it goes before the list's head.
LRU_Append(list, e) ==
    /\ next' = [next EXCEPT ![e] = list, ![prev[list]] = e]
    /\ prev' = [prev EXCEPT ![e] = prev[list], ![list] = e]

\* LRU_Remove and then LRU_Append.
Move(list, e) ==
    LET n == [next EXCEPT ![prev[e]] = next[e]]
        p == [prev EXCEPT ![next[e]] = prev[e]]
    IN  /\ next' = [n EXCEPT ![e] = list, ![p[list]] = e]
        /\ prev' = [p EXCEPT ![e] = p[list], ![list] = e]
-----------------------------------------------------------------------------
(* The methods of a shard *)

Ref(e) ==
    /\ refs' = [refs EXCEPT ![e] = refs[e] + 1]
    /\ IF refs[e] = 1 /\ inCache[e]
       THEN Move(InUse, e) /\ idle' = Without(idle, e)
       ELSE UNCHANGED <<lists, idle>>

\* Unref: the last reference calls the deleter and frees the entry.  (The move
\* of a cached entry to lru_ is in Release, the only place where it can happen.)
Unref(e) ==
    /\ refs' = [refs EXCEPT ![e] = refs[e] - 1]
    /\ alloc' = IF refs[e] = 1 THEN alloc \ {e} ELSE alloc

\* Mutant: Lookup hands out the entry without Ref.
LookupUnreferenced(k) ==
    /\ pc = "free" /\ table[k] # Nil /\ held[table[k]] < MaxHeld
    /\ held' = [held EXCEPT ![table[k]] = held[table[k]] + 1]
    /\ UNCHANGED <<lists, refs, idle, entry, inCache, table, usage, pc, victim>>

\* Lookup that finds an entry (one that does not changes nothing).
Lookup(k) ==
    /\ pc = "free" /\ table[k] # Nil /\ held[table[k]] < MaxHeld
    /\ Ref(table[k])
    /\ held' = [held EXCEPT ![table[k]] = held[table[k]] + 1]
    /\ UNCHANGED <<entry, inCache, table, usage, pc, victim>>

Release(h) ==
    /\ pc = "free" /\ held[h] > 0
    /\ Unref(h)
    /\ held' = [held EXCEPT ![h] = held[h] - 1]
    /\ IF inCache[h] /\ refs[h] = 2
       THEN Move(Lru, h) /\ idle' = Append(idle, h)
       ELSE UNCHANGED <<lists, idle>>
    /\ UNCHANGED <<keyOf, charge, inCache, table, usage, pc, victim>>

\* Insert up to table_.Insert: one reference for the caller, one for the cache;
\* an entry that had the key before is the victim of FinishErase.
Insert(k, c, h) ==
    /\ pc = "free" /\ h \in Handles \ alloc
    /\ alloc' = alloc \cup {h} /\ keyOf' = [keyOf EXCEPT ![h] = k]
    /\ charge' = [charge EXCEPT ![h] = c] /\ refs' = [refs EXCEPT ![h] = 2]
    /\ inCache' = [inCache EXCEPT ![h] = TRUE]
    /\ LRU_Append(InUse, h)
    /\ usage' = usage + c
    /\ victim' = table[k] /\ table' = [table EXCEPT ![k] = h]
    /\ held' = [held EXCEPT ![h] = 1]
    /\ pc' = "insert" /\ UNCHANGED idle

\* Mutant: the charge of an erased entry stays counted.
FinishEraseKeepsCharge ==
    /\ victim # Nil
    /\ LRU_Remove(victim) /\ idle' = Without(idle, victim)
    /\ inCache' = [inCache EXCEPT ![victim] = FALSE]
    /\ Unref(victim)
    /\ victim' = Nil
    /\ UNCHANGED <<keyOf, charge, table, usage, held, pc>>

\* FinishErase: the cache's own reference goes.
FinishErase ==
    /\ victim # Nil
    /\ LRU_Remove(victim) /\ idle' = Without(idle, victim)
    /\ inCache' = [inCache EXCEPT ![victim] = FALSE]
    /\ usage' = usage - charge[victim]
    /\ Unref(victim)
    /\ victim' = Nil
    /\ UNCHANGED <<keyOf, charge, table, held, pc>>

\* table_.Remove: what it finds is the next victim.
Remove(k) ==
    /\ victim' = table[k]
    /\ table' = [table EXCEPT ![k] = Nil]
    /\ UNCHANGED <<lists, entry, refs, inCache, usage, held, idle>>

\* The loops of Insert and Prune take the oldest idle entry.
Evict ==
    /\ victim = Nil /\ next[Lru] # Lru
    /\ pc = "prune" \/ (pc = "insert" /\ usage > Capacity)
    /\ Remove(keyOf[next[Lru]]) /\ UNCHANGED pc

\* The method returns when its loop has nothing left to evict.
Unlock ==
    /\ victim = Nil
    /\ \/ pc = "erase"
       \/ pc = "prune" /\ next[Lru] = Lru
       \/ pc = "insert" /\ (usage <= Capacity \/ next[Lru] = Lru)
    /\ pc' = "free"
    /\ UNCHANGED <<lists, entry, refs, inCache, table, usage, held, victim, idle>>

Erase(k) == pc = "free" /\ pc' = "erase" /\ Remove(k)

Prune ==
    /\ pc = "free" /\ pc' = "prune"
    /\ UNCHANGED <<lists, entry, refs, inCache, table, usage, held, victim, idle>>

Next ==
    \/ \E k \in Keys : Lookup(k) \/ Erase(k)
    \/ \E h \in Handles : Release(h)
    \/ \E k \in Keys, c \in Charges, h \in Handles : Insert(k, c, h)
    \/ FinishErase \/ Evict \/ Unlock \/ Prune

Spec == Init /\ [][Next]_vars
-----------------------------------------------------------------------------
(* Properties *)

\* The type invariant.
CacheTypeOK ==
    /\ next \in [Nodes -> Nodes] /\ prev \in [Nodes -> Nodes]
    /\ alloc \subseteq Handles /\ refs \in [Handles -> Nat] /\ inCache \in [Handles -> BOOLEAN]
    /\ keyOf \in [Handles -> Keys] /\ charge \in [Handles -> Nat]
    /\ table \in [Keys -> Handles \cup {Nil}] /\ usage \in Nat /\ held \in [Handles -> Nat]
    /\ pc \in {"free", "insert", "erase", "prune"} /\ victim \in Handles \cup {Nil}
    /\ idle \in Seq(Handles)

\* Every reference is counted: an entry has one for each handle a client got
\* and has not released, one for the cache, and is freed exactly when there is
\* none.  So no client's handle is ever freed under it, and nothing leaks.
RefsCounted ==
    \A h \in Handles :
        /\ refs[h] = held[h] + (IF inCache[h] THEN 1 ELSE 0)
        /\ h \in alloc <=> refs[h] > 0

\* The list an entry belongs on (the comments at lru_ and in_use_).
ListOf(x) ==
    IF x \in {Lru, InUse} THEN x
    ELSE IF ~inCache[x] THEN Nil ELSE IF refs[x] = 1 THEN Lru ELSE InUse

\* The pointers make two circular lists: the neighbours of a node belong on the
\* same list as it does and point back to it.  The entries that eviction finds
\* at lru_.next are cached and idle, as the code asserts.
Linked ==
    \A x \in Nodes : ListOf(x) # Nil =>
        /\ ListOf(next[x]) = ListOf(x) /\ prev[next[x]] = x
        /\ ListOf(prev[x]) = ListOf(x) /\ next[prev[x]] = x

\* The table finds exactly the cached entries (FinishErase's argument has left
\* it already), so the erase of an evicted entry's key finds that entry.
TableMatches ==
    /\ \A k \in Keys : table[k] # Nil =>
            inCache[table[k]] /\ keyOf[table[k]] = k /\ table[k] # victim
    /\ \A h \in Handles : inCache[h] /\ h # victim => table[keyOf[h]] = h
    /\ victim # Nil => inCache[victim]

\* lru_ holds the idle entries, each once, from the longest to the shortest
\* unused, so the one that Insert evicts is the least recently used.
OldestFirst ==
    /\ \A h \in Handles : ListOf(h) = Lru <=> \E i \in DOMAIN idle : idle[i] = h
    /\ \A i, j \in DOMAIN idle : idle[i] = idle[j] => i = j
    /\ next[Lru] = IF idle = <<>> THEN Lru ELSE idle[1]
    /\ prev[Lru] = IF idle = <<>> THEN Lru ELSE idle[Len(idle)]
    /\ \A i \in 1 .. Len(idle) - 1 : next[idle[i]] = idle[i + 1]

\* usage_ is what the cached entries are charged, counted unit by unit.
Units(cached, c) == UNION {{h} \X (1 .. c[h]) : h \in {x \in Handles : cached[x]}}
UsageExact == usage = Cardinality(Units(inCache, charge))

\* The cache's structures agree after every step: reference counts with the
\* clients, the two lists with the counts, the table with the lists, the usage
\* with the charges, and the links of memory with the lists (cache.cc:180-333).
CacheConsistent ==
    CacheTypeOK /\ RefsCounted /\ TableMatches /\ UsageExact /\ OldestFirst /\ Linked
-----------------------------------------------------------------------------
(* The table cache *)

CONSTANT Readers    \* threads that read: Get, iterators, compactions

ASSUME ReadersAssumption == IsFiniteSet(Readers) /\ Readers # {}

VARIABLES
    reader,     \* what each is doing, with which file and which handle
    version,    \* table files of some live version (read and never written here)
    onDisk      \* table files that exist

cacheVars == vars
tcVars == <<cacheVars, reader, version, onDisk>>

Idle == [pc |-> "idle", file |-> Nil, handle |-> Nil]

TCInit ==
    /\ Init /\ reader = [t \in Readers |-> Idle]
    /\ version = Keys /\ onDisk = Keys

\* FindTable's Lookup.  A reader holds the version it reads from, so the file
\* is in a live version.
FindTable(t, f) ==
    /\ reader[t] = Idle /\ f \in version /\ pc = "free"
    /\ IF table[f] = Nil
       THEN /\ reader' = [reader EXCEPT ![t] = [pc |-> "open", file |-> f, handle |-> Nil]]
            /\ UNCHANGED cacheVars
       ELSE /\ reader' = [reader EXCEPT ![t] = [pc |-> "use", file |-> f, handle |-> table[f]]]
            /\ Lookup(f)
    /\ UNCHANGED <<version, onDisk>>

\* NewRandomAccessFile and Table::Open; errors are not cached.
OpenTable(t, h) ==
    /\ reader[t].pc = "open" /\ reader[t].file \in onDisk
    /\ Insert(reader[t].file, 1, h)
    /\ reader' = [reader EXCEPT ![t].pc = "use", ![t].handle = h]
    /\ UNCHANGED <<version, onDisk>>
OpenFails(t) ==
    /\ reader[t].pc = "open"
    /\ reader' = [reader EXCEPT ![t] = Idle]
    /\ UNCHANGED <<cacheVars, version, onDisk>>

\* Get is done, or the iterator is deleted (UnrefEntry).
UnrefEntry(t) ==
    /\ reader[t].pc = "use" /\ Release(reader[t].handle)
    /\ reader' = [reader EXCEPT ![t] = Idle]
    /\ UNCHANGED <<version, onDisk>>

\* A compaction drops the file: it leaves the versions when no reader of an old
\* version is left.
DropFromVersions(f) ==
    /\ f \in version /\ \A t \in Readers : reader[t].file # f
    /\ version' = version \ {f}
    /\ UNCHANGED <<cacheVars, reader, onDisk>>

\* DeleteObsoleteFiles: Evict, then DeleteFile.
EvictFile(f) ==
    /\ f \in onDisk \ version
    /\ Erase(f)
    /\ onDisk' = onDisk \ {f}
    /\ UNCHANGED <<reader, version>>

CacheSteps == (FinishErase \/ Evict \/ Unlock) /\ UNCHANGED <<reader, version, onDisk>>

TCNext ==
    \/ \E t \in Readers : \/ \E f \in Keys : FindTable(t, f)
                          \/ \E h \in Handles : OpenTable(t, h)
                          \/ OpenFails(t) \/ UnrefEntry(t)
    \/ \E f \in Keys : DropFromVersions(f) \/ EvictFile(f)
    \/ CacheSteps

TCSpec == TCInit /\ [][TCNext]_tcVars
-----------------------------------------------------------------------------
\* A reader has an allocated table of the file it asked for, from FindTable to
\* UnrefEntry, although two readers may open the same file, the cache may evict
\* the table and its memory may be reused.
RightTable ==
    \A t \in Readers : reader[t].pc = "use" =>
        reader[t].handle \in alloc /\ keyOf[reader[t].handle] = reader[t].file

\* No table of a deleted file stays open: a miss that was under way when the
\* file was evicted cannot put it back, for its reader holds a version.
NoStaleTable == pc = "free" => \A f \in Keys \ onDisk : table[f] = Nil

\* A reader's file is not deleted before it is opened: with no I/O error a read
\* from a live version never fails for a missing table.
FileStillThere == \A t \in Readers : reader[t].pc = "open" => reader[t].file \in onDisk

\* Open tables are bounded: the cache's capacity and one table for each other
\* reader, that has one of which a racing reader opened a duplicate.  (More are
\* cached while all are in use, but then each has a reader.)
OpenTablesBounded ==
    pc = "free" => Cardinality(alloc) <= Capacity + Cardinality(Readers) - 1

\* Readers of the table cache get the table of their file while it is there.
TableCacheSafe == NoStaleTable /\ FileStillThere /\ RightTable
=============================================================================
