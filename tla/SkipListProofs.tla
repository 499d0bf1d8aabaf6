--------------------------- MODULE SkipListProofs ---------------------------
(***************************************************************************)
(* Proofs about SkipList for every number of keys, levels and readers.     *)
(*                                                                         *)
(* LevelsSorted is not inductive: what keeps it is that the nodes in prev, *)
(* found before the height was chosen, are still the neighbours of the new *)
(* key when it is linked, level by level (WriterReady).  There is one      *)
(* writer; readers change nothing.                                         *)
(***************************************************************************)
EXTENDS SkipList, TLAPS

\* The new key fits between prev[l] and its successor.
Fits(l) == /\ prev[l] \in OnLevel(l)
           /\ prev[l] < wkey
           /\ wkey < link[l][prev[l]]

\* What the writer knows in each part of Insert.
WriterReady ==
    /\ \A k \in Keys : linked[k] <= maxHeight
    /\ wpc # "idle" => wkey \in Keys
    /\ wpc = "find" => /\ linked[wkey] = 0
                       /\ wat \in OnLevel(wlvl)
                       /\ wat < wkey
                       /\ wlvl < maxHeight
                       /\ \A l \in Levels : wlvl < l /\ l < maxHeight => Fits(l)
    /\ wpc = "raise" => /\ linked[wkey] = 0
                        /\ \A l \in Levels : l < maxHeight => Fits(l)
    /\ wpc \in {"own", "publish"} =>
          /\ linked[wkey] = wlvl
          /\ wlvl < height
          /\ height <= maxHeight
          /\ \A l \in Levels : wlvl <= l /\ l < height => Fits(l)
    /\ wpc = "publish" => link[wlvl][wkey] = link[wlvl][prev[wlvl]]

\* An iterator stands on a key of the list, and what a search saw when it
\* began is still there.
ReadersSee ==
    \A r \in Readers : /\ node[r] \in Keys => linked[node[r]] > 0
                       /\ seen[r] \subseteq Present

SkipInv == SkipTypeOK /\ LevelsSorted /\ ReadersOnLevel /\ WriterReady /\ ReadersSee

LEMMA InitSkip == Init => SkipInv
<1>. SUFFICES ASSUME Init PROVE SkipInv
  OBVIOUS
<1>. USE SkipAssumption DEF Keys, Null, Levels
<1>1. SkipTypeOK
  BY DEF Init, SkipTypeOK
<1>2. \A l \in Levels : OnLevel(l) = {0} /\ link[l][0] = Null
  BY DEF Init, OnLevel
<1>3. LevelsSorted
  BY <1>2 DEF LevelsSorted
<1>4. WriterReady
  BY DEF Init, WriterReady
<1>5. ReadersOnLevel /\ ReadersSee
  BY DEF Init, ReadersOnLevel, ReadersSee, Present
<1>. QED
  BY <1>1, <1>3, <1>4, <1>5 DEF SkipInv

-----------------------------------------------------------------------------
(* Frames: what the steps of one side leave to the other. *)

\* The type invariant in parts: the list, the writer, the readers.
ListType == /\ link \in [Levels -> [0 .. N -> 0 .. Null]]
            /\ maxHeight \in 1 .. MaxHeight
            /\ linked \in [Keys -> 0 .. MaxHeight]
WriterType == /\ wpc \in {"idle", "find", "raise", "own", "publish"}
              /\ wkey \in 0 .. N
              /\ height \in 0 .. MaxHeight
              /\ wat \in 0 .. N
              /\ wlvl \in Levels
              /\ prev \in [Levels -> 0 .. N]
ReaderType == /\ op \in [Readers -> {"idle", "ge", "lt"}]
              /\ target \in [Readers -> 0 .. Null]
              /\ at \in [Readers -> 0 .. N]
              /\ lvl \in [Readers -> Levels]
              /\ seen \in [Readers -> SUBSET Keys]
              /\ node \in [Readers -> 1 .. Null]

LEMMA TypeParts == /\ SkipTypeOK <=> ListType /\ WriterType /\ ReaderType
                   /\ SkipTypeOK' <=> ListType' /\ WriterType' /\ ReaderType'
BY DEF SkipTypeOK, ListType, WriterType, ReaderType

\* A level's nodes are head_ and keys, and every node of a level is on the one
\* below.
LEMMA OnLevelFacts ==
    ASSUME SkipTypeOK, NEW l \in Levels
    PROVE  /\ OnLevel(l) \subseteq 0 .. N
           /\ 0 \in OnLevel(l)
           /\ \A k \in Keys : k \in OnLevel(l) <=> linked[k] > l
           /\ \A m \in Levels : m <= l => OnLevel(l) \subseteq OnLevel(m)
<1>. linked \in [Keys -> 0 .. MaxHeight]
  BY DEF SkipTypeOK
<1>1. OnLevel(l) \subseteq 0 .. N /\ 0 \in OnLevel(l)
  BY SkipAssumption DEF OnLevel, Keys
<1>2. \A k \in Keys : k \in OnLevel(l) <=> linked[k] > l
  BY SkipAssumption DEF OnLevel, Keys
<1>3. ASSUME NEW m \in Levels, m <= l, NEW x \in OnLevel(l)
      PROVE  x \in OnLevel(m)
  <2>1. CASE x = 0
    BY <2>1 DEF OnLevel
  <2>2. CASE x \in Keys /\ linked[x] > l
    BY <1>3, <2>2, SkipAssumption DEF OnLevel, Levels
  <2>. QED
    BY <1>3, <2>1, <2>2 DEF OnLevel
<1>. QED
  BY <1>1, <1>2, <1>3

\* The writer only adds links, so readers stay where they are.
LEMMA ReadersKeep ==
    ASSUME SkipInv, UNCHANGED readers, \A k \in Keys : linked'[k] >= linked[k],
           linked' \in [Keys -> 0 .. MaxHeight]
    PROVE  ReaderType' /\ ReadersOnLevel' /\ ReadersSee'
<1>. /\ op' = op /\ target' = target /\ at' = at
     /\ lvl' = lvl /\ seen' = seen /\ node' = node
  BY DEF readers
<1>1. ReaderType'
  BY TypeParts DEF SkipInv, ReaderType
<1>2. \A l \in Levels : OnLevel(l) \subseteq OnLevel(l)'
  BY SkipAssumption DEF SkipInv, SkipTypeOK, OnLevel, Levels
<1>3. Present \subseteq Present'
  BY SkipAssumption DEF SkipInv, SkipTypeOK, Present
<1>4. ReadersOnLevel'
  BY <1>2 DEF SkipInv, SkipTypeOK, ReadersOnLevel
<1>5. ReadersSee'
  BY <1>3 DEF SkipInv, SkipTypeOK, ReadersSee, Present
<1>. QED
  BY <1>1, <1>4, <1>5

\* A reader changes nothing that the writer or the list relies on.
LEMMA WriterKeeps ==
    ASSUME SkipInv, UNCHANGED <<list, writer>>
    PROVE  ListType' /\ WriterType' /\ LevelsSorted' /\ WriterReady'
<1>. /\ link' = link /\ maxHeight' = maxHeight /\ linked' = linked
     /\ wpc' = wpc /\ wkey' = wkey /\ height' = height
     /\ wat' = wat /\ wlvl' = wlvl /\ prev' = prev
  BY DEF list, writer
<1>1. ListType' /\ WriterType'
  BY TypeParts DEF SkipInv, ListType, WriterType
<1>2. LevelsSorted'
  BY DEF SkipInv, LevelsSorted, OnLevel
<1>3. WriterReady'
  BY DEF SkipInv, WriterReady, Fits, OnLevel
<1>. QED
  BY <1>1, <1>2, <1>3

\* The same for a step of the writer that only searches.
LEMMA SortedKeeps ==
    ASSUME SkipInv, link' = link, linked' = linked
    PROVE  LevelsSorted' /\ \A l \in Levels : OnLevel(l)' = OnLevel(l)
BY DEF SkipInv, LevelsSorted, OnLevel
-----------------------------------------------------------------------------
(* The writer's steps *)

LEMMA InsertKeeps == ASSUME SkipInv, NEW k \in Keys, Insert(k) PROVE SkipInv'
<1>1. /\ link' = link /\ maxHeight' = maxHeight /\ linked' = linked
      /\ UNCHANGED readers
      /\ linked[k] = 0 /\ wpc' = "find" /\ wkey' = k /\ wat' = 0
      /\ wlvl' = maxHeight - 1 /\ height' = height /\ prev' = prev
  BY DEF Insert, list
<1>2. ListType' /\ WriterType'
  <2>1. ListType /\ WriterType
    BY TypeParts DEF SkipInv
  <2>2. k \in 0 .. N /\ 0 \in 0 .. N /\ maxHeight - 1 \in Levels
    BY <2>1, SkipAssumption DEF ListType, Keys, Levels
  <2>. QED
    BY <1>1, <2>1, <2>2 DEF ListType, WriterType
<1>3. LevelsSorted' /\ 0 \in OnLevel(wlvl)'
  BY <1>1, SortedKeeps DEF OnLevel
<1>4. WriterReady'
  <2>1. /\ maxHeight \in Nat /\ wat' < wkey' /\ wlvl' < maxHeight'
        /\ \A l \in Levels : ~(wlvl' < l /\ l < maxHeight')
    BY <1>1, SkipAssumption DEF SkipInv, SkipTypeOK, Keys, Levels
  <2>. QED
    BY <1>1, <1>3, <2>1 DEF SkipInv, WriterReady
<1>5. ReaderType' /\ ReadersOnLevel' /\ ReadersSee'
  BY <1>1, ReadersKeep DEF SkipInv, SkipTypeOK
<1>. QED
  BY <1>2, <1>3, <1>4, <1>5, TypeParts DEF SkipInv

LEMMA FindKeeps == ASSUME SkipInv, InsertFind PROVE SkipInv'
<1>1. /\ link' = link /\ maxHeight' = maxHeight /\ linked' = linked
      /\ UNCHANGED readers /\ wkey' = wkey /\ height' = height /\ wpc = "find"
  BY DEF InsertFind, list
<1>2. ReaderType' /\ ReadersOnLevel' /\ ReadersSee' /\ LevelsSorted' /\ ListType'
  <2>1. \A k \in Keys : linked'[k] >= linked[k]
    BY <1>1 DEF SkipInv, SkipTypeOK
  <2>2. ListType'
    BY <1>1, TypeParts DEF SkipInv, ListType
  <2>. QED
    BY <1>1, <2>1, <2>2, ReadersKeep, SortedKeeps DEF ListType
<1>3. \A l \in Levels : OnLevel(l)' = OnLevel(l)
  BY <1>1, SortedKeeps
<1>4. /\ wlvl \in Levels /\ wat \in 0 .. N /\ wat \in OnLevel(wlvl)
      /\ link[wlvl][wat] \in 0 .. Null /\ wkey \in Keys /\ wat < wkey
      /\ linked[wkey] = 0 /\ wlvl < maxHeight /\ maxHeight \in 1 .. MaxHeight
      /\ \A l \in Levels : wlvl < l /\ l < maxHeight => Fits(l)
  BY <1>1 DEF SkipInv, SkipTypeOK, WriterReady
<1>5. CASE link[wlvl][wat] < wkey
  <2>1. /\ wat' = link[wlvl][wat] /\ wpc' = wpc /\ wlvl' = wlvl /\ prev' = prev
    BY <1>5 DEF InsertFind
  <2>2. wat' \in OnLevel(wlvl) /\ wat' < wkey
    BY <1>4, <1>5, <2>1, SkipAssumption DEF SkipInv, LevelsSorted, Keys, Null
  <2>3. WriterType'
    BY <1>1, <1>4, <2>1, <2>2, TypeParts, OnLevelFacts DEF SkipInv, WriterType
  <2>4. \A l \in Levels : Fits(l)' <=> Fits(l)
    BY <1>1, <1>3, <2>1 DEF Fits
  <2>5. WriterReady'
    BY <1>1, <1>3, <1>4, <2>1, <2>2, <2>4 DEF SkipInv, WriterReady
  <2>. QED
    BY <1>2, <2>3, <2>5, TypeParts DEF SkipInv
<1>6. CASE ~(link[wlvl][wat] < wkey)
  <2>1. /\ prev' = [prev EXCEPT ![wlvl] = wat] /\ wat' = wat
        /\ IF wlvl = 0 THEN wpc' = "raise" /\ wlvl' = wlvl
                       ELSE wlvl' = wlvl - 1 /\ wpc' = wpc
    BY <1>6 DEF InsertFind
  <2>2. WriterType'
    BY <1>1, <1>4, <2>1, TypeParts, SkipAssumption DEF SkipInv, WriterType, Levels
  <2>3. wkey < link[wlvl][wat]
    <3>1. link[wlvl][wat] # wkey
      <4>1. wkey \notin OnLevel(wlvl) /\ wkey # Null
        BY <1>4, SkipAssumption DEF OnLevel, Keys, Null, Levels
      <4>. QED
        BY <1>4, <4>1 DEF SkipInv, LevelsSorted
    <3>. QED
      BY <1>4, <1>6, <3>1, SkipAssumption DEF Keys, Null
  <2>4. ASSUME NEW l \in Levels, wlvl <= l, l < maxHeight
        PROVE  Fits(l)'
    <3>1. prev \in [Levels -> 0 .. N]
      BY DEF SkipInv, SkipTypeOK
    <3>2. CASE l = wlvl
      BY <1>1, <1>3, <1>4, <2>1, <2>3, <3>1, <3>2 DEF Fits
    <3>3. CASE l # wlvl
      <4>1. Fits(l)
        BY <1>4, <2>4, <3>3, SkipAssumption DEF Levels
      <4>. QED
        BY <1>1, <1>3, <2>1, <3>1, <3>3, <4>1 DEF Fits
    <3>. QED
      BY <3>2, <3>3
  <2>5. wlvl # 0 => wlvl - 1 \in Levels /\ wat \in OnLevel(wlvl - 1)
    <3>1. wlvl # 0 => wlvl - 1 \in Levels /\ wlvl - 1 <= wlvl
      BY <1>4, SkipAssumption DEF Levels
    <3>. QED
      BY <1>4, <3>1, OnLevelFacts DEF SkipInv
  <2>6. WriterReady'
    <3>1. CASE wlvl = 0
      <4>1. \A l \in Levels : l < maxHeight => Fits(l)'
        BY <2>4, <3>1, SkipAssumption DEF Levels
      <4>. QED
        BY <1>1, <1>4, <2>1, <3>1, <4>1 DEF SkipInv, WriterReady
    <3>2. CASE wlvl # 0
      <4>1. \A l \in Levels : wlvl - 1 < l /\ l < maxHeight => Fits(l)'
        BY <1>4, <2>4, SkipAssumption DEF Levels
      <4>2. wlvl' < maxHeight'
        BY <1>1, <1>4, <2>1, <3>2, SkipAssumption DEF Levels
      <4>3. wat' \in OnLevel(wlvl)'
        BY <1>1, <2>1, <2>5, <3>2 DEF OnLevel
      <4>. QED
        BY <1>1, <1>4, <2>1, <3>2, <4>1, <4>2, <4>3 DEF SkipInv, WriterReady
    <3>. QED
      BY <3>1, <3>2
  <2>. QED
    BY <1>2, <2>2, <2>6, TypeParts DEF SkipInv
<1>. QED
  BY <1>5, <1>6

LEMMA HeightKeeps == ASSUME SkipInv, NEW h \in 1 .. MaxHeight, InsertHeight(h) PROVE SkipInv'
<1>1. /\ link' = link /\ linked' = linked /\ UNCHANGED readers
      /\ wkey' = wkey /\ wat' = wat /\ wpc = "raise" /\ wpc' = "own" /\ wlvl' = 0
      /\ height' = h /\ maxHeight' = (IF h > maxHeight THEN h ELSE maxHeight)
      /\ prev' = [l \in Levels |-> IF l >= maxHeight /\ l < h THEN 0 ELSE prev[l]]
  BY DEF InsertHeight
<1>2. /\ wkey \in Keys /\ linked[wkey] = 0 /\ maxHeight \in 1 .. MaxHeight
      /\ \A l \in Levels : l < maxHeight => Fits(l)
      /\ \A k \in Keys : linked[k] <= maxHeight
      /\ linked \in [Keys -> 0 .. MaxHeight]
      /\ prev \in [Levels -> 0 .. N]
  BY <1>1 DEF SkipInv, SkipTypeOK, WriterReady
<1>3. ListType' /\ WriterType'
  <2>1. ListType /\ WriterType
    BY TypeParts DEF SkipInv
  <2>2. maxHeight' \in 1 .. MaxHeight /\ 0 \in Levels /\ h \in 0 .. MaxHeight /\ 0 \in 0 .. N
    BY <1>1, <1>2, SkipAssumption DEF Levels
  <2>. QED
    BY <1>1, <2>1, <2>2 DEF ListType, WriterType
<1>4. ReaderType' /\ ReadersOnLevel' /\ ReadersSee'
  <2>1. \A k \in Keys : linked'[k] >= linked[k]
    BY <1>1, <1>2
  <2>. QED
    BY <1>1, <1>2, <2>1, ReadersKeep
<1>5. LevelsSorted' /\ \A l \in Levels : OnLevel(l)' = OnLevel(l)
  BY <1>1, SortedKeeps
<1>6. ASSUME NEW l \in Levels, l < h
      PROVE  Fits(l)'
  <2>1. CASE l < maxHeight
    <3>1. prev'[l] = prev[l]
      BY <1>1, <1>2, <2>1, SkipAssumption DEF Levels
    <3>. QED
      BY <1>1, <1>2, <1>5, <2>1, <3>1 DEF Fits
  <2>2. CASE l >= maxHeight
    <3>1. prev'[l] = 0
      BY <1>1, <1>6, <2>2
    <3>2. OnLevel(l) = {0}
      BY <1>2, <2>2, SkipAssumption DEF OnLevel, Levels
    <3>3. link[l][0] = Null
      <4>1. link[l][0] > 0 /\ (link[l][0] \in OnLevel(l) \/ link[l][0] = Null)
        BY <3>2 DEF SkipInv, LevelsSorted
      <4>. QED
        BY <3>2, <4>1
    <3>. QED
      BY <1>1, <1>2, <1>5, <3>1, <3>2, <3>3, SkipAssumption DEF Fits, Keys, Null
  <2>. QED
    BY <1>2, <2>1, <2>2, SkipAssumption DEF Levels
<1>7. WriterReady'
  <2>1. /\ 0 < h /\ h <= maxHeight'
        /\ \A k \in Keys : linked'[k] <= maxHeight'
    BY <1>1, <1>2, SkipAssumption
  <2>. QED
    BY <1>1, <1>2, <1>6, <2>1 DEF WriterReady
<1>. QED
  BY <1>3, <1>4, <1>5, <1>7, TypeParts DEF SkipInv

LEMMA OwnLinkKeeps == ASSUME SkipInv, InsertOwnLink PROVE SkipInv'
<1>1. /\ link' = [link EXCEPT ![wlvl][wkey] = link[wlvl][prev[wlvl]]]
      /\ maxHeight' = maxHeight /\ linked' = linked /\ UNCHANGED readers
      /\ wpc = "own" /\ wpc' = "publish" /\ wkey' = wkey /\ height' = height
      /\ wat' = wat /\ wlvl' = wlvl /\ prev' = prev
  BY DEF InsertOwnLink
<1>2. /\ wkey \in Keys /\ wlvl \in Levels /\ linked[wkey] = wlvl
      /\ wlvl < height /\ height <= maxHeight
      /\ \A l \in Levels : wlvl <= l /\ l < height => Fits(l)
      /\ \A k \in Keys : linked[k] <= maxHeight
      /\ linked \in [Keys -> 0 .. MaxHeight]
      /\ link \in [Levels -> [0 .. N -> 0 .. Null]]
      /\ prev \in [Levels -> 0 .. N]
  BY <1>1 DEF SkipInv, SkipTypeOK, WriterReady
<1>3. ListType' /\ WriterType'
  <2>1. ListType /\ WriterType
    BY TypeParts DEF SkipInv
  <2>2. link' \in [Levels -> [0 .. N -> 0 .. Null]]
    BY <1>1, <1>2, SkipAssumption DEF Keys
  <2>. QED
    BY <1>1, <2>1, <2>2 DEF ListType, WriterType
<1>4. ReaderType' /\ ReadersOnLevel' /\ ReadersSee'
  <2>1. \A k \in Keys : linked'[k] >= linked[k]
    BY <1>1, <1>2
  <2>. QED
    BY <1>1, <1>2, <2>1, ReadersKeep
<1>5. \A l \in Levels : OnLevel(l)' = OnLevel(l)
  BY <1>1 DEF OnLevel
<1>6. \A l \in Levels : \A x \in OnLevel(l) : x \in 0 .. N /\ link'[l][x] = link[l][x]
  <2>1. ASSUME NEW l \in Levels, NEW x \in OnLevel(l)
        PROVE  x \in 0 .. N /\ link'[l][x] = link[l][x]
    <3>1. x \in 0 .. N
      BY OnLevelFacts DEF SkipInv
    <3>2. l = wlvl => x # wkey
      <4>1. wkey \in OnLevel(wlvl) <=> linked[wkey] > wlvl
        BY <1>2, OnLevelFacts DEF SkipInv
      <4>2. ~(linked[wkey] > wlvl)
        BY <1>2, SkipAssumption DEF Levels
      <4>. QED
        BY <4>1, <4>2
    <3>. QED
      BY <1>1, <1>2, <3>1, <3>2
  <2>. QED
    BY <2>1
<1>7. LevelsSorted'
  BY <1>5, <1>6 DEF SkipInv, LevelsSorted
<1>8. \A l \in Levels : Fits(l) => Fits(l)'
  BY <1>1, <1>5, <1>6 DEF Fits
<1>9. WriterReady'
  <2>1. Fits(wlvl) /\ wkey \in 0 .. N
    BY <1>2, SkipAssumption DEF Levels, Keys
  <2>2. link'[wlvl][wkey] = link[wlvl][prev[wlvl]]
    BY <1>1, <1>2, <2>1
  <2>3. link'[wlvl][prev[wlvl]] = link[wlvl][prev[wlvl]]
    BY <1>2, <1>6, <2>1 DEF Fits
  <2>. QED
    BY <1>1, <1>2, <1>8, <2>2, <2>3 DEF WriterReady
<1>. QED
  BY <1>3, <1>4, <1>7, <1>9, TypeParts DEF SkipInv

LEMMA PublishKeeps == ASSUME SkipInv, InsertPublish PROVE SkipInv'
<1>. DEFINE p == prev[wlvl]
<1>1. /\ link' = [link EXCEPT ![wlvl][p] = wkey]
      /\ linked' = [linked EXCEPT ![wkey] = wlvl + 1]
      /\ wpc = "publish" /\ wpc' = (IF wlvl + 1 = height THEN "idle" ELSE "own")
      /\ wlvl' = (IF wlvl + 1 = height THEN 0 ELSE wlvl + 1)
      /\ maxHeight' = maxHeight /\ UNCHANGED readers
      /\ wkey' = wkey /\ height' = height /\ wat' = wat /\ prev' = prev
  BY DEF InsertPublish
<1>2. /\ wkey \in Keys /\ wlvl \in Levels /\ linked[wkey] = wlvl
      /\ wlvl < height /\ height <= maxHeight /\ height \in 0 .. MaxHeight
      /\ maxHeight \in 1 .. MaxHeight
      /\ linked \in [Keys -> 0 .. MaxHeight]
      /\ link \in [Levels -> [0 .. N -> 0 .. Null]]
      /\ prev \in [Levels -> 0 .. N]
  BY <1>1 DEF SkipInv, SkipTypeOK, WriterReady
<1>20. /\ link[wlvl][wkey] = link[wlvl][p]
       /\ \A k \in Keys : linked[k] <= maxHeight
       /\ \A l \in Levels : wlvl <= l /\ l < height => Fits(l)
  BY <1>1 DEF SkipInv, WriterReady
<1>21. /\ MaxHeight \in Int /\ N \in Int /\ 1 <= MaxHeight
       /\ wlvl \in Int /\ 0 <= wlvl /\ wlvl < height
       /\ height \in Int /\ height <= maxHeight
       /\ maxHeight \in Int /\ maxHeight <= MaxHeight
       /\ wkey \in Int /\ 1 <= wkey /\ wkey <= N
  <2>1. MaxHeight \in Int /\ N \in Int /\ 1 <= MaxHeight
    BY SkipAssumption
  <2>2. wlvl \in Int /\ 0 <= wlvl
    BY <1>2, <2>1 DEF Levels
  <2>3. wkey \in Int /\ 1 <= wkey /\ wkey <= N
    BY <1>2, <2>1 DEF Keys
  <2>4. height \in Int /\ maxHeight \in Int /\ maxHeight <= MaxHeight
    BY <1>2, <2>1
  <2>. QED
    BY <1>2, <2>1, <2>2, <2>3, <2>4
<1>3. /\ wlvl + 1 \in 0 .. MaxHeight
      /\ wlvl + 1 # height => wlvl + 1 \in Levels /\ wlvl + 1 < height
      /\ wkey \in 0 .. N /\ wkey \in 0 .. Null /\ 0 \in Levels
      /\ wlvl + 1 <= maxHeight
  <2>1. wlvl + 1 \in 0 .. MaxHeight /\ wlvl + 1 <= maxHeight
    BY <1>21
  <2>2. wkey \in 0 .. N /\ wkey \in 0 .. Null
    BY <1>21 DEF Null
  <2>3. 0 \in Levels
    BY <1>21 DEF Levels
  <2>4. ASSUME wlvl + 1 # height PROVE wlvl + 1 \in Levels /\ wlvl + 1 < height
    BY <1>21, <2>4 DEF Levels
  <2>. QED
    BY <2>1, <2>2, <2>3, <2>4
<1>4. ListType' /\ WriterType'
  <2>1. ListType /\ WriterType
    BY TypeParts DEF SkipInv
  <2>2. link' \in [Levels -> [0 .. N -> 0 .. Null]]
    BY <1>1, <1>2, <1>3
  <2>3. linked' \in [Keys -> 0 .. MaxHeight]
    BY <1>1, <1>2, <1>3
  <2>. QED
    BY <1>1, <1>3, <2>1, <2>2, <2>3 DEF ListType, WriterType
<1>5. ReaderType' /\ ReadersOnLevel' /\ ReadersSee'
  <2>1. \A k \in Keys : linked'[k] >= linked[k]
    <3>1. \A k \in Keys : linked[k] \in Int /\ wlvl + 1 >= wlvl
      BY <1>2, SkipAssumption DEF Levels
    <3>. QED
      BY <1>1, <1>2, <3>1
  <2>2. linked' \in [Keys -> 0 .. MaxHeight]
    BY <1>4 DEF ListType
  <2>. QED
    BY <1>1, <2>1, <2>2, ReadersKeep
<1>6. Fits(wlvl) /\ p \in 0 .. N /\ p \in OnLevel(wlvl) /\ p < wkey /\ wkey < link[wlvl][p]
  <2>1. Fits(wlvl)
    BY <1>2, <1>20, SkipAssumption DEF Levels
  <2>. QED
    BY <1>2, <2>1 DEF Fits
<1>7. \A l \in Levels : l # wlvl => OnLevel(l)' = OnLevel(l) /\ link'[l] = link[l]
  <2>1. ASSUME NEW l \in Levels, l # wlvl
        PROVE  \A k \in Keys : linked'[k] > l <=> linked[k] > l
    <3>1. wlvl + 1 > l <=> wlvl > l
      <4>1. l \in Int
        BY <1>21, <2>1 DEF Levels
      <4>. QED
        BY <1>21, <2>1, <4>1
    <3>. QED
      BY <1>1, <1>2, <3>1
  <2>2. ASSUME NEW l \in Levels, l # wlvl
        PROVE  OnLevel(l)' = OnLevel(l)
    BY <2>1, <2>2 DEF OnLevel
  <2>. QED
    BY <1>1, <1>2, <2>2
<1>8. OnLevel(wlvl) \subseteq 0 .. N /\ wkey \notin OnLevel(wlvl)
  BY <1>2, OnLevelFacts, SkipAssumption DEF SkipInv, Levels
<1>9. \A x \in 0 .. N : x \in {0} \cup {k \in Keys : linked'[k] > wlvl}
                         <=> x \in OnLevel(wlvl) \/ x = wkey
  <2>1. wlvl + 1 > wlvl
    BY <1>2, SkipAssumption DEF Levels
  <2>. QED
    BY <1>1, <1>2, <2>1 DEF OnLevel
<1>10. /\ link'[wlvl][p] = wkey
       /\ \A x \in 0 .. N : x # p => link'[wlvl][x] = link[wlvl][x]
  BY <1>1, <1>2, <1>6
<1>. DEFINE On == OnLevel(wlvl) \cup {wkey}
<1>11. {0} \cup {k \in Keys : linked'[k] > wlvl} = On
  <2>1. {0} \cup {k \in Keys : linked'[k] > wlvl} \subseteq 0 .. N
    BY SkipAssumption DEF Keys
  <2>. QED
    BY <1>3, <1>8, <1>9, <2>1
<1>12. \A x \in On : /\ link'[wlvl][x] > x /\ (link'[wlvl][x] \in On \/ link'[wlvl][x] = Null)
                     /\ \A y \in On : y > x => link'[wlvl][x] <= y
  <2>1. \A x \in OnLevel(wlvl) :
           /\ link[wlvl][x] > x /\ (link[wlvl][x] \in OnLevel(wlvl) \/ link[wlvl][x] = Null)
           /\ \A y \in OnLevel(wlvl) : y > x => link[wlvl][x] <= y
    BY <1>2 DEF SkipInv, LevelsSorted
  <2>2. \A x \in 0 .. N : link[wlvl][x] \in 0 .. Null
    BY <1>2
  <2>3. \A y \in OnLevel(wlvl) : y \in 0 .. N
    BY <1>8
  <2>4. \A y \in OnLevel(wlvl) : y > p => wkey < y
    BY <1>3, <1>6, <2>1, <2>2, <2>3, SkipAssumption DEF Null
  <2>5. ASSUME NEW x \in On
        PROVE  /\ link'[wlvl][x] > x /\ (link'[wlvl][x] \in On \/ link'[wlvl][x] = Null)
               /\ \A y \in On : y > x => link'[wlvl][x] <= y
    <3>1. CASE x = p
      BY <1>3, <1>6, <1>10, <2>3, <2>4, <3>1, SkipAssumption
    <3>2. CASE x = wkey
      <4>1. link'[wlvl][x] = link[wlvl][p]
        BY <1>3, <1>6, <1>10, <1>20, <3>2, SkipAssumption
      <4>. QED
        BY <1>3, <1>6, <2>1, <2>2, <2>3, <3>2, <4>1, SkipAssumption DEF Null
    <3>3. CASE x \in OnLevel(wlvl) /\ x # p
      <4>1. link'[wlvl][x] = link[wlvl][x] /\ x \in 0 .. N
        BY <1>10, <2>3, <3>3
      <4>2. x < wkey => link[wlvl][x] <= wkey
        BY <1>3, <1>6, <2>1, <2>2, <2>3, <2>4, <3>3, <4>1, SkipAssumption DEF Null
      <4>. QED
        BY <1>3, <2>1, <3>3, <4>1, <4>2, SkipAssumption
    <3>. QED
      BY <2>5, <3>1, <3>2, <3>3
  <2>. QED
    BY <2>5
<1>13. LevelsSorted'
  <2>1. ASSUME NEW l \in Levels
        PROVE  \A x \in OnLevel(l)' :
                  /\ link'[l][x] > x /\ (link'[l][x] \in OnLevel(l)' \/ link'[l][x] = Null)
                  /\ \A y \in OnLevel(l)' : y > x => link'[l][x] <= y
    <3>1. CASE l = wlvl
      <4>1. OnLevel(l)' = On
        BY <1>11, <3>1 DEF OnLevel
      <4>. QED
        BY <1>12, <3>1, <4>1
    <3>2. CASE l # wlvl
      BY <1>7, <3>2 DEF SkipInv, LevelsSorted
    <3>. QED
      BY <3>1, <3>2
  <2>. QED
    BY <2>1 DEF LevelsSorted
<1>14. WriterReady'
  <2>1. \A k \in Keys : linked'[k] <= maxHeight'
    BY <1>1, <1>2, <1>3, <1>20
  <2>2. \A l \in Levels : wlvl + 1 <= l /\ l < height => Fits(l)'
    <3>1. ASSUME NEW l \in Levels, wlvl + 1 <= l, l < height
          PROVE  Fits(l)'
      <4>1. wlvl <= l /\ l # wlvl
        BY <1>2, <3>1, SkipAssumption DEF Levels
      <4>2. Fits(l)
        BY <1>20, <3>1, <4>1
      <4>. QED
        BY <1>1, <1>7, <4>1, <4>2 DEF Fits
    <3>. QED
      BY <3>1
  <2>3. linked'[wkey] = wlvl + 1
    BY <1>1, <1>2
  <2>4. CASE wlvl + 1 = height
    BY <1>1, <1>2, <2>1, <2>4 DEF WriterReady
  <2>5. CASE wlvl + 1 # height
    BY <1>1, <1>2, <1>3, <2>1, <2>2, <2>3, <2>5 DEF WriterReady
  <2>. QED
    BY <2>4, <2>5
<1>. QED
  BY <1>4, <1>5, <1>13, <1>14, TypeParts DEF SkipInv
-----------------------------------------------------------------------------
(* The readers' steps *)

\* A search that begins on a node of its level before its target.
LEMMA BeginKeeps ==
    ASSUME SkipInv, NEW r \in Readers, NEW o \in {"ge", "lt"}, NEW t \in 0 .. Null,
           NEW l \in Levels, NEW x \in OnLevel(l), x < t, Begin(r, o, t, x, l)
    PROVE  SkipInv'
<1>1. /\ UNCHANGED <<list, writer>> /\ linked' = linked /\ node' = node
      /\ op' = [op EXCEPT ![r] = o] /\ target' = [target EXCEPT ![r] = t]
      /\ at' = [at EXCEPT ![r] = x] /\ lvl' = [lvl EXCEPT ![r] = l]
      /\ seen' = [seen EXCEPT ![r] = Present]
  BY DEF Begin, list
<1>2. ListType' /\ WriterType' /\ LevelsSorted' /\ WriterReady'
  BY <1>1, WriterKeeps
<1>3. ReaderType /\ x \in 0 .. N /\ Present \subseteq Keys
  BY TypeParts, OnLevelFacts DEF SkipInv, Present
<1>4. ReaderType'
  BY <1>1, <1>3 DEF ReaderType
<1>5. \A m \in Levels : OnLevel(m)' = OnLevel(m)
  BY <1>1 DEF OnLevel
<1>6. ReadersOnLevel'
  <2>1. ASSUME NEW q \in Readers, op'[q] # "idle"
        PROVE  at'[q] \in OnLevel(lvl'[q]) /\ at'[q] < target'[q]
    <3>1. CASE q = r
      BY <1>1, <1>3, <3>1 DEF ReaderType
    <3>2. CASE q # r
      BY <1>1, <1>3, <2>1, <3>2 DEF ReaderType, SkipInv, ReadersOnLevel
    <3>. QED
      BY <3>1, <3>2
  <2>. QED
    BY <1>4, <1>5, <2>1 DEF ReadersOnLevel, ReaderType, OnLevel
<1>7. ReadersSee'
  <2>1. Present' = Present
    BY <1>1 DEF Present
  <2>. QED
    BY <1>1, <1>3, <2>1 DEF SkipInv, ReadersSee, ReaderType
<1>. QED
  BY <1>2, <1>4, <1>6, <1>7, TypeParts DEF SkipInv

\* The calls that begin a search.
LEMMA CallsKeep ==
    ASSUME SkipInv, NEW r \in Readers,
           \/ NextNode(r) \/ SeekToFirst(r)
           \/ \E l \in Levels : Prev(r, l) \/ SeekToLast(r, l) \/ \E t \in Keys : Seek(r, t, l)
    PROVE  SkipInv'
<1>1. \A l \in Levels : 0 \in OnLevel(l)
  BY DEF OnLevel
<1>2. 0 \in Levels /\ \A k \in Keys : k \in 0 .. Null /\ 0 < k /\ k + 1 \in 0 .. Null /\ k < k + 1
  BY SkipAssumption DEF Levels, Keys, Null
<1>3. Null \in 0 .. Null /\ 0 < Null /\ 1 \in 0 .. Null /\ 0 < 1
  BY SkipAssumption DEF Null
<1>4. CASE NextNode(r)
  <2>1. node[r] \in Keys /\ Begin(r, "ge", node[r] + 1, node[r], 0)
    BY <1>4 DEF NextNode
  <2>2. node[r] \in OnLevel(0)
    BY <2>1 DEF SkipInv, ReadersSee, OnLevel
  <2>. QED
    BY <1>2, <2>1, <2>2, BeginKeeps
<1>5. CASE SeekToFirst(r)
  BY <1>1, <1>2, <1>3, <1>5, BeginKeeps DEF SeekToFirst
<1>6. ASSUME NEW l \in Levels, Prev(r, l) PROVE SkipInv'
  BY <1>1, <1>2, <1>6, BeginKeeps DEF Prev
<1>7. ASSUME NEW l \in Levels, SeekToLast(r, l) PROVE SkipInv'
  BY <1>1, <1>3, <1>7, BeginKeeps DEF SeekToLast
<1>8. ASSUME NEW l \in Levels, NEW t \in Keys, Seek(r, t, l) PROVE SkipInv'
  BY <1>1, <1>2, <1>8, BeginKeeps DEF Seek
<1>. QED
  BY <1>4, <1>5, <1>6, <1>7, <1>8

\* What a search returns is on the lowest level, and nothing of that level lies
\* between it and the target.
LEMMA FoundHere ==
    ASSUME SkipInv, NEW r \in Readers, op[r] # "idle", lvl[r] = 0,
           ~(link[0][at[r]] < target[r])
    PROVE  /\ link[0][at[r]] \in 1 .. Null /\ link[0][at[r]] >= target[r]
           /\ link[0][at[r]] \in Keys => linked[link[0][at[r]]] > 0
           /\ \A k \in Present : k >= target[r] => link[0][at[r]] <= k
           /\ at[r] \in 0 .. N /\ at[r] < target[r]
           /\ at[r] # 0 => at[r] \in Keys /\ linked[at[r]] > 0
           /\ \A k \in Present : k < target[r] => k <= at[r]
<1>. DEFINE n == link[0][at[r]]
<1>0. 0 \in Levels /\ N \in Nat
  BY SkipAssumption DEF Levels
<1>1. /\ at[r] \in OnLevel(0) /\ at[r] < target[r]
      /\ at[r] \in 0 .. N /\ target[r] \in 0 .. Null /\ n \in 0 .. Null
  BY <1>0 DEF SkipInv, SkipTypeOK, ReadersOnLevel
<1>2. /\ n > at[r] /\ (n \in OnLevel(0) \/ n = Null)
      /\ \A y \in OnLevel(0) : y > at[r] => n <= y
  BY <1>0, <1>1 DEF SkipInv, LevelsSorted
<1>3. \A k \in Present : k \in OnLevel(0) /\ k \in 1 .. N
  BY DEF Present, OnLevel, Keys
<1>4. n \in 1 .. Null /\ n >= target[r]
  BY <1>0, <1>1, <1>2 DEF Null
<1>5. n \in Keys => linked[n] > 0
  BY <1>0, <1>2 DEF OnLevel, Keys, Null
<1>6. at[r] # 0 => at[r] \in Keys /\ linked[at[r]] > 0
  BY <1>1 DEF OnLevel
<1>7. \A k \in Present : k >= target[r] => n <= k
  BY <1>0, <1>1, <1>2, <1>3 DEF Null
<1>8. \A k \in Present : k < target[r] => k <= at[r]
  BY <1>0, <1>1, <1>2, <1>3, <1>4 DEF Null
<1>. QED
  BY <1>1, <1>4, <1>5, <1>6, <1>7, <1>8

\* The node a finished search of each kind leaves the iterator on.
Found(r) == IF op[r] = "ge" THEN link[0][at[r]] ELSE IF at[r] = 0 THEN Null ELSE at[r]

\* One turn of a search: forward, down a level, or done.
LEMMA StepCases ==
    ASSUME SkipInv, NEW r \in Readers, Step(r)
    PROVE  /\ op[r] # "idle" /\ UNCHANGED <<list, writer>> /\ linked' = linked
           /\ target' = target /\ seen' = seen
           /\ \/ /\ link[lvl[r]][at[r]] < target[r]
                 /\ at' = [at EXCEPT ![r] = link[lvl[r]][at[r]]]
                 /\ lvl' = lvl /\ op' = op /\ node' = node
              \/ /\ lvl[r] > 0 /\ lvl' = [lvl EXCEPT ![r] = lvl[r] - 1]
                 /\ at' = at /\ op' = op /\ node' = node
              \/ /\ lvl[r] = 0 /\ ~(link[0][at[r]] < target[r])
                 /\ op' = [op EXCEPT ![r] = "idle"] /\ at' = at /\ lvl' = lvl
                 /\ node' = [node EXCEPT ![r] = Found(r)]
<1>1. lvl[r] \in Nat
  BY SkipAssumption DEF SkipInv, SkipTypeOK, Levels
<1>2. lvl[r] > 0 \/ lvl[r] = 0
  BY <1>1
<1>3. UNCHANGED <<list, writer>> /\ linked' = linked /\ target' = target /\ seen' = seen
  BY DEF Step, list
<1>4. CASE link[lvl[r]][at[r]] < target[r]
  BY <1>3, <1>4 DEF Step
<1>5. CASE ~(link[lvl[r]][at[r]] < target[r]) /\ lvl[r] > 0
  BY <1>3, <1>5 DEF Step
<1>6. CASE ~(link[lvl[r]][at[r]] < target[r]) /\ lvl[r] = 0
  <2>1. ~(lvl[r] > 0)
    BY <1>6
  <2>. QED
    BY <1>3, <1>6, <2>1 DEF Step, Found
<1>. QED
  BY <1>2, <1>4, <1>5, <1>6

LEMMA StepKeeps == ASSUME SkipInv, NEW r \in Readers, Step(r) PROVE SkipInv'
<1>1. /\ op[r] # "idle" /\ UNCHANGED <<list, writer>> /\ linked' = linked
      /\ target' = target /\ seen' = seen
  BY StepCases
<1>2. ListType' /\ WriterType' /\ LevelsSorted' /\ WriterReady'
  BY <1>1, WriterKeeps
<1>3. ReaderType /\ Present' = Present /\ \A m \in Levels : OnLevel(m)' = OnLevel(m)
  BY <1>1, TypeParts DEF SkipInv, Present, OnLevel
<1>4. /\ lvl[r] \in Levels /\ at[r] \in OnLevel(lvl[r]) /\ at[r] < target[r]
      /\ target[r] \in 0 .. Null /\ at[r] \in 0 .. N
  BY <1>1, <1>3 DEF SkipInv, ReadersOnLevel, ReaderType
<1>5. CASE /\ link[lvl[r]][at[r]] < target[r]
           /\ at' = [at EXCEPT ![r] = link[lvl[r]][at[r]]]
           /\ lvl' = lvl /\ op' = op /\ node' = node
  <2>. DEFINE n == link[lvl[r]][at[r]]
  <2>1. n \in OnLevel(lvl[r]) /\ n \in 0 .. N
    <3>1. n \in OnLevel(lvl[r]) \/ n = Null
      BY <1>4 DEF SkipInv, LevelsSorted
    <3>2. n # Null
      BY <1>4, <1>5, SkipAssumption DEF Null
    <3>. QED
      BY <1>4, <3>1, <3>2, OnLevelFacts DEF SkipInv
  <2>2. ReaderType'
    BY <1>1, <1>3, <1>5, <2>1 DEF ReaderType
  <2>3. ASSUME NEW q \in Readers, op'[q] # "idle"
        PROVE  at'[q] \in OnLevel(lvl'[q]) /\ at'[q] < target'[q]
    <3>1. CASE q = r
      BY <1>1, <1>3, <1>5, <2>1, <3>1 DEF ReaderType
    <3>2. CASE q # r
      BY <1>1, <1>3, <1>5, <2>3, <3>2 DEF ReaderType, SkipInv, ReadersOnLevel
    <3>. QED
      BY <3>1, <3>2
  <2>4. ReadersOnLevel'
    BY <1>1, <2>3 DEF ReadersOnLevel, OnLevel
  <2>5. ReadersSee'
    BY <1>1, <1>3, <1>5 DEF SkipInv, ReadersSee
  <2>. QED
    BY <1>2, <2>2, <2>4, <2>5, TypeParts DEF SkipInv
<1>6. CASE /\ lvl[r] > 0 /\ lvl' = [lvl EXCEPT ![r] = lvl[r] - 1]
           /\ at' = at /\ op' = op /\ node' = node
  <2>1. lvl[r] - 1 \in Levels /\ lvl[r] - 1 <= lvl[r]
    BY <1>4, <1>6, SkipAssumption DEF Levels
  <2>2. at[r] \in OnLevel(lvl[r] - 1)
    BY <1>4, <2>1, OnLevelFacts DEF SkipInv
  <2>3. ReaderType'
    BY <1>1, <1>3, <1>6, <2>1 DEF ReaderType
  <2>4. ASSUME NEW q \in Readers, op'[q] # "idle"
        PROVE  at'[q] \in OnLevel(lvl'[q]) /\ at'[q] < target'[q]
    <3>1. CASE q = r
      BY <1>1, <1>3, <1>4, <1>6, <2>2, <3>1 DEF ReaderType
    <3>2. CASE q # r
      BY <1>1, <1>3, <1>6, <2>4, <3>2 DEF ReaderType, SkipInv, ReadersOnLevel
    <3>. QED
      BY <3>1, <3>2
  <2>5. ReadersOnLevel'
    BY <1>1, <2>4 DEF ReadersOnLevel, OnLevel
  <2>6. ReadersSee'
    BY <1>1, <1>3, <1>6 DEF SkipInv, ReadersSee
  <2>. QED
    BY <1>2, <2>3, <2>5, <2>6, TypeParts DEF SkipInv
<1>7. CASE /\ lvl[r] = 0 /\ ~(link[0][at[r]] < target[r])
           /\ op' = [op EXCEPT ![r] = "idle"] /\ at' = at /\ lvl' = lvl
           /\ node' = [node EXCEPT ![r] = Found(r)]
  <2>1. /\ link[0][at[r]] \in 1 .. Null
        /\ link[0][at[r]] \in Keys => linked[link[0][at[r]]] > 0
        /\ at[r] # 0 => at[r] \in Keys /\ linked[at[r]] > 0
    BY <1>1, <1>7, FoundHere
  <2>2. Null \in 1 .. Null /\ Null \notin Keys /\ Keys \subseteq 1 .. Null
    BY SkipAssumption DEF Keys, Null
  <2>3. Found(r) \in 1 .. Null /\ (Found(r) \in Keys => linked[Found(r)] > 0)
    BY <2>1, <2>2 DEF Found
  <2>4. ReaderType'
    BY <1>1, <1>3, <1>7, <2>3 DEF ReaderType
  <2>5. ReadersOnLevel'
    BY <1>1, <1>3, <1>7 DEF SkipInv, ReadersOnLevel, ReaderType, OnLevel
  <2>6. ReadersSee'
    BY <1>1, <1>3, <1>7, <2>3 DEF SkipInv, ReadersSee, ReaderType
  <2>. QED
    BY <1>2, <2>4, <2>5, <2>6, TypeParts DEF SkipInv
<1>. QED
  BY <1>5, <1>6, <1>7, StepCases
-----------------------------------------------------------------------------
(* The theorems *)

LEMMA NextKeeps == ASSUME SkipInv, [Next]_vars PROVE SkipInv'
<1>1. CASE UNCHANGED vars
  <2>1. UNCHANGED readers /\ UNCHANGED <<list, writer>> /\ linked' = linked
    BY <1>1 DEF vars, list
  <2>2. /\ \A k \in Keys : linked'[k] >= linked[k]
        /\ linked' \in [Keys -> 0 .. MaxHeight]
    BY <2>1 DEF SkipInv, SkipTypeOK
  <2>. QED
    BY <2>1, <2>2, WriterKeeps, ReadersKeep, TypeParts DEF SkipInv
<1>2. CASE \E k \in Keys : Insert(k)
  BY <1>2, InsertKeeps
<1>3. CASE WriterStep
  BY <1>3, FindKeeps, OwnLinkKeeps, PublishKeeps, HeightKeeps DEF WriterStep
<1>4. CASE \E r \in Readers : Step(r)
  BY <1>4, StepKeeps
<1>5. CASE \E r \in Readers :
              \/ NextNode(r) \/ SeekToFirst(r)
              \/ \E l \in Levels : Prev(r, l) \/ SeekToLast(r, l) \/ \E t \in Keys : Seek(r, t, l)
  BY <1>5, CallsKeep
<1>. QED
  BY <1>1, <1>2, <1>3, <1>4, <1>5 DEF Next

\* The strengthened invariant of the list, its writer and its readers.
THEOREM SkipInvariant == Spec => []SkipInv
<1>1. Init => SkipInv
  BY InitSkip
<1>2. SkipInv /\ [Next]_vars => SkipInv'
  BY NextKeeps
<1>. QED
  BY <1>1, <1>2, PTL DEF Spec

\* While Insert links a node level by level, every level stays sorted and
\* complete and no reader follows a link that has not been set, whatever the
\* number of keys, levels and readers.
THEOREM ListAlwaysIntact == Spec => []ListIntact
<1>1. SkipInv => ListIntact
  BY DEF SkipInv, ListIntact
<1>. QED
  BY <1>1, SkipInvariant, PTL

\* What a search returns, given that the list is intact.
LEMMA EndsRight ==
    ASSUME SkipInv, [Next]_vars, NEW r \in Readers, op[r] # "idle", op'[r] = "idle"
    PROVE  /\ node'[r] = Null \/ node'[r] \in Present
           /\ op[r] = "ge" => /\ node'[r] >= target[r]
                              /\ \A k \in seen[r] : k >= target[r] => node'[r] <= k
           /\ op[r] = "lt" => /\ node'[r] = Null \/ node'[r] < target[r]
                              /\ \A k \in seen[r] : k < target[r] => node'[r] # Null /\ node'[r] >= k
<1>1. op \in [Readers -> {"idle", "ge", "lt"}] /\ node \in [Readers -> 1 .. Null]
  BY DEF SkipInv, SkipTypeOK
<1>2. Step(r)
  <2>1. op' # op
    OBVIOUS
  <2>2. ~ UNCHANGED vars /\ ~ WriterStep /\ ~ \E k \in Keys : Insert(k)
    BY <2>1 DEF vars, readers, WriterStep, InsertFind, InsertOwnLink, InsertPublish,
                InsertHeight, Insert
  <2>3. ASSUME NEW q \in Readers, NEW o \in {"ge", "lt"}, NEW t, NEW x, NEW l, Begin(q, o, t, x, l)
        PROVE  FALSE
    BY <1>1, <2>3 DEF Begin
  <2>4. ASSUME NEW q \in Readers,
               \/ NextNode(q) \/ SeekToFirst(q)
               \/ \E l \in Levels : Prev(q, l) \/ SeekToLast(q, l) \/ \E t \in Keys : Seek(q, t, l)
        PROVE  FALSE
    BY <2>3, <2>4 DEF NextNode, SeekToFirst, Prev, SeekToLast, Seek
  <2>5. PICK q \in Readers : Step(q)
    BY <2>2, <2>4 DEF Next
  <2>6. q = r
    BY <1>1, <2>5, StepCases
  <2>. QED
    BY <2>5, <2>6
<1>3. lvl[r] = 0 /\ ~(link[0][at[r]] < target[r]) /\ node' = [node EXCEPT ![r] = Found(r)]
  BY <1>2, StepCases
<1>4. node'[r] = Found(r)
  BY <1>1, <1>3
<1>5. /\ link[0][at[r]] \in 1 .. Null /\ link[0][at[r]] >= target[r]
      /\ link[0][at[r]] \in Keys => linked[link[0][at[r]]] > 0
      /\ \A k \in Present : k >= target[r] => link[0][at[r]] <= k
      /\ at[r] \in 0 .. N /\ at[r] < target[r]
      /\ at[r] # 0 => at[r] \in Keys /\ linked[at[r]] > 0
      /\ \A k \in Present : k < target[r] => k <= at[r]
  BY <1>3, FoundHere
<1>6. seen[r] \subseteq Present
  BY DEF SkipInv, ReadersSee
<1>7. CASE op[r] = "ge"
  <2>1. Found(r) = link[0][at[r]]
    BY <1>7 DEF Found
  <2>2. link[0][at[r]] = Null \/ link[0][at[r]] \in Present
    BY <1>5, SkipAssumption DEF Present, Keys, Null
  <2>. QED
    BY <1>4, <1>5, <1>6, <1>7, <2>1, <2>2
<1>8. CASE op[r] = "lt" /\ at[r] = 0
  <2>1. Found(r) = Null
    BY <1>8 DEF Found
  <2>2. \A k \in Present : ~(k < target[r])
    BY <1>5, <1>8, SkipAssumption DEF Present, Keys
  <2>. QED
    BY <1>4, <1>6, <1>8, <2>1, <2>2
<1>9. CASE op[r] = "lt" /\ at[r] # 0
  <2>1. Found(r) = at[r] /\ at[r] \in Present
    BY <1>5, <1>9 DEF Found, Present
  <2>2. at[r] # Null /\ \A k \in Present : k < target[r] => at[r] >= k
    BY <1>5, SkipAssumption DEF Null, Present, Keys
  <2>. QED
    BY <1>4, <1>5, <1>6, <1>9, <2>1, <2>2
<1>. QED
  BY <1>1, <1>7, <1>8, <1>9

\* A search that runs beside insertions returns the right node with respect to
\* the keys that were in the list when it began.
THEOREM SearchesMissNothing == Spec => SearchMissesNothing
<1>1. SkipInv /\ [Next]_vars =>
        [\A r \in Readers : op[r] # "idle" /\ op'[r] = "idle" =>
            /\ node'[r] = Null \/ node'[r] \in Present
            /\ op[r] = "ge" => /\ node'[r] >= target[r]
                               /\ \A k \in seen[r] : k >= target[r] => node'[r] <= k
            /\ op[r] = "lt" => /\ node'[r] = Null \/ node'[r] < target[r]
                               /\ \A k \in seen[r] : k < target[r] => node'[r] # Null /\ node'[r] >= k]_vars
  BY EndsRight
<1>. QED
  BY <1>1, SkipInvariant, PTL DEF Spec, SearchMissesNothing
=============================================================================
