---------------------------- MODULE HandleTable ----------------------------
(***************************************************************************)
(* leveldb util/cache.cc HandleTable: an array of chains that doubles when *)
(* it holds more entries than chains.  An entry is its key and its memory  *)
(* (handle); the chain of a key is its hash modulo the array's length,     *)
(* which is a power of two.                                                *)
(***************************************************************************)
EXTENDS Integers, Sequences
LOCAL S == INSTANCE SequencesExt

CONSTANTS
    Keys, Handles, Nil,
    Hash,       \* the hash of a key
    MinLength   \* the length of the first array (4 in the code)

TableAssumption == Hash \in [Keys -> Nat] /\ MinLength \in Nat \ {0}

VARIABLES
    list,   \* list_: the chains, chain i at i + 1
    elems,  \* elems_
    result  \* what the last call returned

vars == <<list, elems, result>>

Entries == [key : Keys, handle : Handles]

\* The constructor's Resize makes an empty array.
Init == list = [i \in 1 .. MinLength |-> <<>>] /\ elems = 0 /\ result = Nil

\* list_[hash & (length_ - 1)]
ChainOf(l, k) == (Hash[k] % Len(l)) + 1

\* FindPointer: the place of the key's entry in its chain, or just behind it.
FindPointer(k) ==
    LET chain == list[ChainOf(list, k)]
        at == {i \in 1 .. Len(chain) : Hash[chain[i].key] = Hash[k] /\ chain[i].key = k}
    IN  IF at = {} THEN Len(chain) + 1 ELSE CHOOSE i \in at : \A j \in at : i <= j

Found(k) ==
    LET chain == list[ChainOf(list, k)] IN
    IF FindPointer(k) <= Len(chain) THEN chain[FindPointer(k)].handle ELSE Nil

\* Mutant: entries are pushed to the chains of the old length.
ResizeOldMask(l) ==
    LET all == S!FlattenSeq(l)
        new == 2 * Len(l)
    IN  [c \in 1 .. new |-> S!Reverse(SelectSeq(all, LAMBDA e : ChainOf(l, e.key) = c))]

\* Resize: the entries are taken in order and each is put at the front of its
\* new chain.
Resize(l) ==
    LET all == S!FlattenSeq(l)
        fits == CHOOSE n \in {MinLength * 2 ^ i : i \in 0 .. Len(all)} :
                    /\ n >= Len(all)
                    /\ n = MinLength \/ n \div 2 < Len(all)
    IN  [c \in 1 .. fits |-> S!Reverse(SelectSeq(all, LAMBDA e : (Hash[e.key] % fits) + 1 = c))]

Insert(k, h) ==
    LET c == ChainOf(list, k)
        p == FindPointer(k)
        new == Found(k) = Nil
        l == [list EXCEPT ![c] = [i \in 1 .. (IF new THEN p ELSE Len(@)) |->
                                    IF i = p THEN [key |-> k, handle |-> h] ELSE @[i]]]
    IN  /\ result' = Found(k)
        /\ elems' = IF new THEN elems + 1 ELSE elems
        /\ list' = IF new /\ elems + 1 > Len(list) THEN Resize(l) ELSE l

Remove(k) ==
    /\ result' = Found(k)
    /\ IF Found(k) = Nil THEN UNCHANGED <<list, elems>>
       ELSE /\ list' = [list EXCEPT ![ChainOf(list, k)] = S!RemoveAt(@, FindPointer(k))]
            /\ elems' = elems - 1

Lookup(k) == result' = Found(k) /\ UNCHANGED <<list, elems>>

Next ==
    \/ \E k \in Keys, h \in Handles : Insert(k, h)
    \/ \E k \in Keys : Remove(k) \/ Lookup(k)

Spec == Init /\ [][Next]_vars
-----------------------------------------------------------------------------
\* elems_ is the number of entries in all chains, as Resize asserts of its count.
ElemsExact == elems = Len(S!FlattenSeq(list))

\* The chains implement a map from keys to entries: through replacement, removal
\* in the middle of a chain and doubling, Lookup finds what was inserted last.
Map == INSTANCE HandleMap WITH map <- [k \in Keys |-> Found(k)]
ImplementsMap == Map!Spec
=============================================================================
