-------------------------- MODULE WritePathProofs --------------------------
(***************************************************************************)
(* Proofs about WritePath, for every set of threads, all batch sizes and   *)
(* every value of the bounds: what a Write acknowledged is kept            *)
(* (AcknowledgedKept), and Write and Get are atomic (Linearizable).        *)
(***************************************************************************)
EXTENDS WritePath, WellFoundedInduction, FiniteSetTheorems, TLAPS

-----------------------------------------------------------------------------
(* The inductive invariant.                                                *)

Steps == {"log", "sync", "insert", "finish"}

WriterStates ==
    [pc : {"start", "queued", "room", "sleep", "reply", "returned"} \cup Steps, delay : BOOLEAN,
     seqs : SUBSET Nat, left : SUBSET Nat, group : Seq(Writers),
     status : {"ok", "error", "sync error"}, done : BOOLEAN]

DatabaseStates ==
    [mem : [1 .. MaxLogs -> SUBSET Nat], logged : [1 .. MaxLogs -> SUBSET Nat],
     synced : [1 .. MaxLogs -> SUBSET Nat], logNumber : 1 .. MaxLogs, imm : 0 .. MaxLogs,
     hasImm : BOOLEAN, tables : SUBSET Nat, level0 : Nat, keptLog : 1 .. MaxLogs,
     lastSequence : Nat, error : BOOLEAN, shutting : BOOLEAN, manual : Manuals \cup {None},
     scheduled : BOOLEAN]

ReaderStates ==
    [pc : {"idle", "read"}, snap : Nat, mem : 1 .. MaxLogs, imm : 0 .. MaxLogs,
     tables : SUBSET Nat, got : SUBSET Nat]

BackgroundStates ==
    [pc : {"idle", "queued", "build", "apply", "compact"}, nested : BOOLEAN,
     manual : Manuals \cup {None}]

TypeOK ==
    /\ d \in DatabaseStates
    /\ queue \in Seq(Writers)
    /\ w \in [Writers -> WriterStates]
    /\ rd \in [Readers -> ReaderStates]
    /\ bg \in BackgroundStates
    /\ bgWait \subseteq Writers \cup Manuals \cup {"closer"}

\* imm_ is the memtable before the current one, the logs from its log on are
\* kept, and a flush runs only while there is an imm_.
LogsOK ==
    /\ IF d.imm = 0 THEN d.keptLog = d.logNumber
       ELSE d.imm = d.logNumber - 1 /\ d.keptLog = d.imm /\ d.level0 < L0Stop
    /\ d.hasImm <=> d.imm # 0
    /\ d.level0 <= L0Stop
    /\ d.scheduled <=> bg.pc # "idle"
    /\ bg.pc \in {"build", "apply"} => d.imm # 0

\* The writers that are queued, once each; only the first one acts, and its
\* group is at the front of the queue.
Waiting(x) == w[x].pc \in {"queued", "room", "sleep"} \cup Steps /\ ~w[x].done

AtFront(x) ==
    /\ w[x].group # <<>> /\ Len(w[x].group) <= Len(queue)
    /\ \A i \in DOMAIN w[x].group :
        /\ w[x].group[i] = queue[i]
        /\ w[x].group[i] \in Synchronous => x \in Synchronous

WriterOK(x) ==
    /\ w[x].pc = "start" => ~w[x].done
    /\ w[x].pc \in {"reply", "returned"} => w[x].done
    /\ w[x].done => w[x].status # "sync error"
    /\ w[x].pc \in {"room", "sleep"} \cup Steps => ~w[x].done /\ queue # <<>> /\ queue[1] = x
    /\ ~w[x].done /\ w[x].pc # "finish" => w[x].status = "ok"
    /\ w[x].pc \in Steps => AtFront(x)

QueueOK ==
    /\ \A i, j \in DOMAIN queue : queue[i] = queue[j] => i = j
    /\ \A x \in Writers : Waiting(x) <=> \E i \in DOMAIN queue : queue[i] = x
    /\ cvWait \subseteq {x \in Writers : Waiting(x)}
    /\ \A x \in Writers : WriterOK(x)

\* Batches are numbered when their group starts and not before, from
\* lastSequence on; all numbers up to lastSequence are of batches that have
\* left the queue, and batches do not overlap.
NumbersOf(g, i) == Seqs(d.lastSequence + SizeTo(g, i) - Updates[g[i]], Updates[g[i]])

InGroup(x) == \E y \in Writers : w[y].pc \in Steps /\ \E i \in DOMAIN w[y].group : w[y].group[i] = x

GroupNumbers(x) ==
    IF w[x].seqs = {} THEN w[x].group = <<x>> /\ ~(x \in Batches /\ w[x].status = "ok")
    ELSE \A i \in DOMAIN w[x].group : w[w[x].group[i]].seqs = NumbersOf(w[x].group, i)

NumberOK(x) ==
    /\ w[x].seqs # {} => x \in Batches /\ w[x].pc # "start"
    /\ Waiting(x) /\ w[x].seqs # {} => InGroup(x) /\ \A s \in w[x].seqs : d.lastSequence < s
    /\ ~Waiting(x) => \A s \in w[x].seqs : s <= d.lastSequence
    /\ w[x].pc \in {"log", "sync", "insert"} => x \in Batches
    /\ w[x].pc \in Steps => GroupNumbers(x)
    /\ w[x].done /\ w[x].status = "ok" /\ x \in Batches => w[x].seqs # {}

Before(x, y) == \A s \in w[x].seqs, t \in w[y].seqs : s < t

NumbersOK ==
    /\ \A x \in Writers : NumberOK(x)
    /\ \A x, y \in Writers : x # y => Before(x, y) \/ Before(y, x)

\* A number of x that is in a table, or in a memtable in use and its log.
Kept(s, x) ==
    \/ s \in d.tables
    \/ \E n \in {d.imm, d.logNumber} \ {0} :
        s \in d.mem[n] /\ s \in d.logged[n] /\ (x \in Synchronous => s \in d.synced[n])

\* The group of x is in the log, and in its synced part if x is synchronous.
GroupLogged(x) ==
    /\ GroupSeqs(x) \subseteq d.logged[d.logNumber]
    /\ x \in Synchronous => GroupSeqs(x) \subseteq d.synced[d.logNumber]

\* Memtables other than the current one and imm_ are empty or in tables.
OldTables ==
    \A n \in 1 .. MaxLogs :
        /\ n > d.logNumber => d.mem[n] = {}
        /\ n < d.logNumber /\ n # d.imm => d.mem[n] \subseteq d.tables

\* What is held beyond lastSequence is of the group that is being inserted.
Inserting(x) == w[x].pc \in {"insert", "finish"} /\ w[x].status = "ok"
HeldNumbered ==
    /\ \A s \in Held(d) : s <= d.lastSequence \/ \E x \in Writers : Inserting(x) /\ s \in GroupSeqs(x)
    /\ Held(d) \subseteq UNION {w[x].seqs : x \in Writers}

\* The log comes before the memtable; a batch that has left the queue is held
\* as a whole and logged if its status is OK, and otherwise not held at all.
WrittenOK(x) ==
    /\ w[x].pc \in {"sync", "insert"} =>
        /\ w[x].left \subseteq GroupSeqs(x) /\ w[x].left \cap Held(d) = {}
        /\ GroupSeqs(x) \subseteq d.logged[d.logNumber]
    /\ w[x].pc = "sync" => w[x].left = GroupSeqs(x)
    /\ Inserting(x) => GroupLogged(x)
    /\ w[x].pc = "insert" => GroupSeqs(x) \ w[x].left \subseteq d.mem[d.logNumber]
    /\ w[x].pc = "finish" /\ w[x].status = "ok" => GroupSeqs(x) \subseteq d.mem[d.logNumber]
    /\ w[x].done =>
        IF w[x].status = "ok" THEN \A s \in w[x].seqs : Kept(s, x)
        ELSE w[x].seqs \cap Held(d) = {}

DataOK == OldTables /\ HeldNumbered /\ \A x \in Writers : WrittenOK(x)

\* The memtables and tables of a running Get hold what the store holds up to
\* its snapshot, a snapshot divides no batch, and what was found is numbered.
Seen(r) ==
    d.mem[rd[r].mem] \cup (IF rd[r].imm = 0 THEN {} ELSE d.mem[rd[r].imm]) \cup rd[r].tables

ReaderOK(r) ==
    /\ rd[r].snap <= d.lastSequence
    /\ \A s \in rd[r].got : s <= d.lastSequence
    /\ rd[r].pc = "read" => \A s \in 0 .. rd[r].snap : s \in Seen(r) <=> s \in Held(d)
    /\ \A x \in Writers : \/ \A s \in w[x].seqs : s <= rd[r].snap
                          \/ \A s \in w[x].seqs : s > rd[r].snap

ReadOK == \A r \in Readers : ReaderOK(r)

IInv == TypeOK /\ LogsOK /\ QueueOK /\ NumbersOK /\ DataOK /\ ReadOK

USE WriteAssumption

-----------------------------------------------------------------------------
(* Natural numbers.                                                        *)

\* Every set of natural numbers that is not empty has a least element.
LEMMA LeastExists ==
  ASSUME NEW S \in SUBSET Nat, S # {}
  PROVE  \E n \in S : \A m \in S : n <= m
<1> DEFINE R == {p \in Nat \X Nat : p[1] < p[2]}
<1>1. IsWellFoundedOn(R, Nat)
  BY NatLessThanWellFounded DEF OpToRel
<1> HIDE DEF R
<1>2. PICK n \in S : \A m \in S : ~(<<m, n>> \in R)
  BY <1>1, WFMin
<1>3. ASSUME NEW m \in S PROVE n <= m
  <2>1. ~(<<m, n>> \in R)
    BY <1>2
  <2> QED
    BY <2>1 DEF R
<1> QED
  BY <1>3

\* A bounded one has a greatest element, and Max returns it.
LEMMA MaxExists ==
  ASSUME NEW S \in SUBSET Nat, S # {}, NEW b \in Nat, \A n \in S : n <= b
  PROVE  Max(S) \in S /\ \A n \in S : Max(S) >= n
<1> DEFINE D == {n \in Nat : b - n \in S}
<1>1. PICK n \in S : TRUE
  OBVIOUS
<1>2. b - n \in D
  BY <1>1
<1>3. PICK m \in D : \A k \in D : m <= k
  BY <1>2, LeastExists
<1>4. ASSUME NEW k \in S PROVE b - m >= k
  <2>1. k \in Nat /\ m \in Nat /\ b - k \in D
    OBVIOUS
  <2>2. m <= b - k
    BY <2>1, <1>3
  <2> HIDE DEF D
  <2> QED
    BY <2>1, <2>2
<1> QED
  BY <1>3, <1>4 DEF Max

-----------------------------------------------------------------------------
(* The sizes of groups.                                                    *)

\* SizeTo adds the updates of one writer after the other.
LEMMA SizeToStep ==
  ASSUME NEW q \in Seq(Writers)
  PROVE  /\ SizeTo(q, 0) = 0
         /\ \A i \in DOMAIN q : /\ SizeTo(q, i) \in Nat /\ SizeTo(q, i - 1) \in Nat
                               /\ SizeTo(q, i) = SizeTo(q, i - 1) + Updates[q[i]]
<1> DEFINE U(i) == UNION {{j} \X (1 .. Updates[q[j]]) : j \in 1 .. i}
           Bad == {i \in 0 .. Len(q) : ~IsFiniteSet(U(i))}
<1>1. U(0) = {}
  OBVIOUS
<1>2. ASSUME NEW i \in DOMAIN q
      PROVE  /\ U(i) = U(i - 1) \cup ({i} \X (1 .. Updates[q[i]]))
             /\ U(i - 1) \cap ({i} \X (1 .. Updates[q[i]])) = {}
             /\ IsFiniteSet({i} \X (1 .. Updates[q[i]]))
             /\ Cardinality({i} \X (1 .. Updates[q[i]])) = Updates[q[i]]
  <2>1. 1 .. i = 1 .. (i - 1) \cup {i} /\ i \notin 1 .. (i - 1)
    OBVIOUS
  <2>2. Updates[q[i]] \in Nat
    OBVIOUS
  <2>3. IsFiniteSet(1 .. Updates[q[i]]) /\ Cardinality(1 .. Updates[q[i]]) = Updates[q[i]]
    <3> DEFINE n == Updates[q[i]]
    <3>1. n \in Int /\ n \in Nat
      BY <2>2
    <3> HIDE DEF n
    <3>2. IsFiniteSet(1 .. n) /\ Cardinality(1 .. n) = IF 1 > n THEN 0 ELSE n - 1 + 1
      <4>1. 1 \in Int
        OBVIOUS
      <4> QED
        BY ONLY <3>1, <4>1, FS_Interval, Zenon
    <3>3. Cardinality(1 .. n) = n
      BY <3>1, <3>2
    <3> QED
      BY <3>2, <3>3 DEF n
  <2>4. IsFiniteSet({i}) /\ Cardinality({i}) = 1
    BY FS_Singleton
  <2>5. /\ IsFiniteSet({i} \X (1 .. Updates[q[i]]))
        /\ Cardinality({i} \X (1 .. Updates[q[i]])) = Cardinality({i}) * Cardinality(1 .. Updates[q[i]])
    BY <2>3, <2>4, FS_Product
  <2>6. Cardinality({i} \X (1 .. Updates[q[i]])) = Updates[q[i]]
    BY <2>2, <2>3, <2>4, <2>5
  <2>7. U(i) = U(i - 1) \cup ({i} \X (1 .. Updates[q[i]]))
    BY <2>1
  <2>8. U(i - 1) \cap ({i} \X (1 .. Updates[q[i]])) = {}
    BY <2>1
  <2> QED
    BY <2>5, <2>6, <2>7, <2>8
<1> HIDE DEF U
<1>3. Bad = {}
  <2> SUFFICES ASSUME Bad # {} PROVE FALSE
    OBVIOUS
  <2>1. PICK i \in Bad : \A j \in Bad : i <= j
    <3>1. Bad \in SUBSET Nat
      OBVIOUS
    <3> QED
      BY <3>1, LeastExists
  <2>2. i # 0
    BY <1>1, FS_EmptySet
  <2>3. i \in DOMAIN q /\ i - 1 \in 0 .. Len(q) /\ i - 1 \notin Bad
    BY <2>1, <2>2
  <2>4. IsFiniteSet(U(i - 1))
    BY <2>3
  <2>5. IsFiniteSet(U(i))
    <3>1. IsFiniteSet(U(i - 1) \cup ({i} \X (1 .. Updates[q[i]])))
      BY <2>3, <2>4, <1>2, FS_Union
    <3> QED
      BY <2>3, <3>1, <1>2
  <2> QED
    BY <2>5
<1>4. \A i \in 0 .. Len(q) : IsFiniteSet(U(i)) /\ Cardinality(U(i)) \in Nat
  BY <1>3, FS_CardinalityType
<1>5. \A i \in Nat : SizeTo(q, i) = Cardinality(U(i))
  BY DEF SizeTo, U
<1>6. ASSUME NEW i \in DOMAIN q
      PROVE  /\ SizeTo(q, i) \in Nat /\ SizeTo(q, i - 1) \in Nat
             /\ SizeTo(q, i) = SizeTo(q, i - 1) + Updates[q[i]]
  <2>1. i \in 0 .. Len(q) /\ i - 1 \in 0 .. Len(q) /\ i \in Nat /\ i - 1 \in Nat
    OBVIOUS
  <2>2. IsFiniteSet(U(i)) /\ IsFiniteSet(U(i - 1)) /\ Cardinality(U(i)) \in Nat /\ Cardinality(U(i - 1)) \in Nat
    BY <2>1, <1>4
  <2>3. Cardinality({}) = 0
    BY FS_EmptySet
  <2>4. Cardinality(U(i)) = Cardinality(U(i - 1)) + Updates[q[i]]
    <3>1. /\ Cardinality(U(i - 1) \cup ({i} \X (1 .. Updates[q[i]]))) =
                Cardinality(U(i - 1)) + Cardinality({i} \X (1 .. Updates[q[i]]))
                - Cardinality(U(i - 1) \cap ({i} \X (1 .. Updates[q[i]])))
      BY <2>2, <1>2, FS_Union
    <3>2. Cardinality(U(i)) = Cardinality(U(i - 1)) + Updates[q[i]] - 0
      BY <3>1, <2>3, <1>2
    <3>3. Updates[q[i]] \in Nat
      OBVIOUS
    <3> QED
      BY <3>2, <3>3, <2>2
  <2> QED
    BY <2>1, <2>2, <2>4, <1>5
<1>7. SizeTo(q, 0) = 0
  <2>1. 0 \in Nat
    OBVIOUS
  <2>2. SizeTo(q, 0) = Cardinality({})
    BY <2>1, <1>1, <1>5
  <2> QED
    BY <2>2, FS_EmptySet
<1> QED
  BY <1>6, <1>7

\* More writers have at least as many updates.
LEMMA SizeToMonotone ==
  ASSUME NEW q \in Seq(Writers), NEW i \in DOMAIN q, NEW j \in 0 .. Len(q), i - 1 <= j
  PROVE  SizeTo(q, i - 1) <= SizeTo(q, j)
<1> DEFINE Bad == {k \in 0 .. Len(q) : i - 1 <= k /\ ~(SizeTo(q, i - 1) <= SizeTo(q, k))}
<1>1. SizeTo(q, i - 1) \in Nat
  BY SizeToStep
<1>2. Bad = {}
  <2> SUFFICES ASSUME Bad # {} PROVE FALSE
    OBVIOUS
  <2>1. Bad \in SUBSET Nat
    OBVIOUS
  <2>2. PICK k \in Bad : \A m \in Bad : k <= m
    BY <2>1, LeastExists
  <2>3. k # i - 1
    BY <1>1
  <2>4. k \in DOMAIN q /\ k - 1 \in 0 .. Len(q) /\ k - 1 \notin Bad /\ i - 1 <= k - 1
    BY <2>2, <2>3, SMTT(30)
  <2>5. SizeTo(q, i - 1) <= SizeTo(q, k - 1)
    BY <2>4
  <2>6. /\ SizeTo(q, k) \in Nat /\ SizeTo(q, k - 1) \in Nat /\ Updates[q[k]] \in Nat
        /\ SizeTo(q, k) = SizeTo(q, k - 1) + Updates[q[k]]
    BY <2>4, SizeToStep
  <2>7. SizeTo(q, i - 1) <= SizeTo(q, k)
    BY <1>1, <2>5, <2>6, SMTT(30)
  <2> QED
    BY <2>2, <2>7
<1> QED
  BY <1>2

\* The group of the first writer: itself and others of the queue, none of
\* them synchronous unless it is.
LEMMA GroupBuilt ==
  ASSUME NEW q \in Seq(Writers), q # <<>>
  PROVE  /\ BuildBatchGroup(q) \in 1 .. Len(q)
         /\ \A i \in 1 .. BuildBatchGroup(q) : q[i] \in Synchronous => q[1] \in Synchronous
<1> DEFINE S == {k \in DOMAIN q : \A i \in 2 .. k :
                    /\ q[i] \in Synchronous => q[1] \in Synchronous
                    /\ q[i] \in Batches => SizeTo(q, i) <= GroupLimit}
<1>1. S \in SUBSET Nat /\ Len(q) \in Nat /\ \A k \in S : k <= Len(q)
  OBVIOUS
<1>2. 1 \in S
  OBVIOUS
<1>3. Max(S) \in S
  BY <1>1, <1>2, MaxExists
<1>4. BuildBatchGroup(q) \in S
  BY <1>3 DEF BuildBatchGroup
<1> QED
  BY <1>4

-----------------------------------------------------------------------------
(* What a started group is.                                                *)

\* The group of x: the first writers of the queue, one after the other.
LEMMA GroupStarts ==
  ASSUME TypeOK, QueueOK, NEW x \in Batches, w[x].pc = "room"
  PROVE  \E g \in Seq(Writers) :
           /\ g = SubSeq(queue, 1, BuildBatchGroup(queue))
           /\ Len(g) \in 1 .. Len(queue) /\ DOMAIN g = 1 .. Len(g)
           /\ \A i \in DOMAIN g :
                /\ g[i] = queue[i] /\ (g[i] \in Synchronous => x \in Synchronous)
                /\ \A j \in DOMAIN g : g[i] = g[j] => i = j
           /\ g[1] = x
           /\ StartGroup(x) = [AssignSequence(x, g) EXCEPT ![x].pc = "log", ![x].group = g]
<1> DEFINE n == BuildBatchGroup(queue)
           g == SubSeq(queue, 1, n)
<1>1. x \in Writers /\ x \notin Flushers
  BY DEF Batches, Flushers
<1>2. queue \in Seq(Writers) /\ queue # <<>> /\ queue[1] = x
  BY <1>1 DEF TypeOK, QueueOK, WriterOK, Steps
<1>3. n \in 1 .. Len(queue) /\ \A i \in 1 .. n : queue[i] \in Synchronous => x \in Synchronous
  BY <1>2, GroupBuilt
<1>4. StartGroup(x) = [AssignSequence(x, g) EXCEPT ![x].pc = "log", ![x].group = g]
  BY <1>1 DEF StartGroup
<1> HIDE DEF n
<1>5. g \in Seq(Writers) /\ Len(g) = n /\ \A i \in 1 .. n : g[i] = queue[i]
  BY <1>2, <1>3
<1>6. \A i, j \in DOMAIN queue : queue[i] = queue[j] => i = j
  BY DEF QueueOK
<1>7. /\ Len(g) \in 1 .. Len(queue) /\ DOMAIN g = 1 .. Len(g) /\ g[1] = x
      /\ \A i \in DOMAIN g :
            /\ g[i] = queue[i] /\ (g[i] \in Synchronous => x \in Synchronous)
            /\ \A j \in DOMAIN g : g[i] = g[j] => i = j
  <2> HIDE DEF g
  <2>1. DOMAIN g = 1 .. n /\ n \in Nat /\ 1 \in 1 .. n
    BY <1>2, <1>3, <1>5
  <2>2. \A i \in 1 .. n : i \in DOMAIN queue /\ g[i] = queue[i]
    BY <1>2, <1>3, <1>5
  <2>3. \A i \in DOMAIN g : g[i] = queue[i] /\ (g[i] \in Synchronous => x \in Synchronous)
    BY <2>1, <2>2, <1>3
  <2>4. \A i, j \in DOMAIN g : g[i] = g[j] => i = j
    BY <2>1, <2>2, <1>6
  <2> QED
    BY <2>1, <2>2, <2>3, <2>4, <1>2, <1>3, <1>5
<1> QED
  BY <1>4, <1>5, <1>7 DEF n

\* The numbers of a group's batches are new, there is one for each update, and
\* they follow the numbers of the batches before.
LEMMA NumbersOrdered ==
  ASSUME d.lastSequence \in Nat, NEW g \in Seq(Writers), NEW i \in DOMAIN g
  PROVE  /\ NumbersOf(g, i) \in SUBSET Nat
         /\ \A s \in NumbersOf(g, i) :
                /\ d.lastSequence + SizeTo(g, i - 1) < s /\ s <= d.lastSequence + SizeTo(g, i)
                /\ d.lastSequence < s /\ s <= d.lastSequence + SizeTo(g, Len(g))
         /\ NumbersOf(g, i) = {} <=> Updates[g[i]] = 0
         /\ \A j \in DOMAIN g : i < j =>
                \A s \in NumbersOf(g, i), t \in NumbersOf(g, j) : s < t
<1>1. \A j \in DOMAIN g :
        /\ SizeTo(g, j) \in Nat /\ SizeTo(g, j - 1) \in Nat /\ Updates[g[j]] \in Nat
        /\ SizeTo(g, j) = SizeTo(g, j - 1) + Updates[g[j]]
  BY SizeToStep
<1>2. \A j \in DOMAIN g :
        NumbersOf(g, j) = (d.lastSequence + SizeTo(g, j - 1) + 1) .. (d.lastSequence + SizeTo(g, j))
  <2> TAKE j \in DOMAIN g
  <2>1. /\ SizeTo(g, j) \in Nat /\ SizeTo(g, j - 1) \in Nat /\ Updates[g[j]] \in Nat
        /\ SizeTo(g, j) = SizeTo(g, j - 1) + Updates[g[j]]
    BY <1>1
  <2>2. d.lastSequence + SizeTo(g, j) - Updates[g[j]] = d.lastSequence + SizeTo(g, j - 1)
    BY <2>1
  <2>3. d.lastSequence + SizeTo(g, j) - Updates[g[j]] + Updates[g[j]] = d.lastSequence + SizeTo(g, j)
    BY <2>1
  <2> QED
    BY <2>2, <2>3 DEF NumbersOf, Seqs
<1>3. SizeTo(g, i) <= SizeTo(g, Len(g))
  <2>1. CASE i = Len(g)
    BY <2>1, <1>1
  <2>2. CASE i < Len(g)
    <3>1. i + 1 \in DOMAIN g /\ Len(g) \in 0 .. Len(g) /\ (i + 1) - 1 <= Len(g) /\ (i + 1) - 1 = i
      BY <2>2
    <3> QED
      BY <3>1, SizeToMonotone
  <2> QED
    BY <2>1, <2>2
<1>4. /\ SizeTo(g, Len(g)) \in Nat /\ SizeTo(g, i) \in Nat /\ SizeTo(g, i - 1) \in Nat
      /\ NumbersOf(g, i) = (d.lastSequence + SizeTo(g, i - 1) + 1) .. (d.lastSequence + SizeTo(g, i))
  <2>1. Len(g) \in DOMAIN g
    OBVIOUS
  <2> QED
    BY <1>1, <1>2, <2>1
<1>5. \A s \in NumbersOf(g, i) :
          /\ s \in Nat
          /\ d.lastSequence + SizeTo(g, i - 1) < s /\ s <= d.lastSequence + SizeTo(g, i)
          /\ d.lastSequence < s /\ s <= d.lastSequence + SizeTo(g, Len(g))
  BY <1>3, <1>4, SMTT(30)
<1>6. NumbersOf(g, i) = {} <=> Updates[g[i]] = 0
  <2>1. CASE Updates[g[i]] = 0
    BY <2>1, <1>1, <1>2
  <2>2. CASE Updates[g[i]] > 0
    <3>1. d.lastSequence + SizeTo(g, i) \in NumbersOf(g, i)
      BY <2>2, <1>1, <1>2
    <3> QED
      BY <3>1, <2>2, <1>1
  <2> QED
    BY <2>1, <2>2, <1>1
<1>7. ASSUME NEW j \in DOMAIN g, i < j, NEW s \in NumbersOf(g, i), NEW t \in NumbersOf(g, j)
      PROVE  s < t
  <2>1. SizeTo(g, i) <= SizeTo(g, j - 1)
    <3>1. i + 1 \in DOMAIN g /\ j - 1 \in 0 .. Len(g) /\ (i + 1) - 1 <= j - 1 /\ (i + 1) - 1 = i
      BY <1>7
    <3> QED
      BY <3>1, SizeToMonotone
  <2>2. /\ SizeTo(g, j) \in Nat /\ SizeTo(g, j - 1) \in Nat
        /\ NumbersOf(g, j) = (d.lastSequence + SizeTo(g, j - 1) + 1) .. (d.lastSequence + SizeTo(g, j))
    BY <1>1, <1>2
  <2>3. t \in Nat /\ d.lastSequence + SizeTo(g, j - 1) < t
    BY <2>2, SMTT(60)
  <2>4. s \in Nat /\ s <= d.lastSequence + SizeTo(g, i) /\ SizeTo(g, i) \in Nat
    BY <1>4, <1>5
  <2>5. s <= d.lastSequence + SizeTo(g, j - 1)
    BY <2>1, <2>2, <2>4, SMTT(30)
  <2> QED
    BY <2>2, <2>3, <2>4, <2>5, SMTT(30)
<1> QED
  BY <1>5, <1>6, <1>7

\* The writers of the group are numbered, and nothing else changes.
LEMMA GroupNumbered ==
  ASSUME TypeOK, NEW x \in Writers, NEW g \in Seq(Writers),
         \A i, j \in DOMAIN g : g[i] = g[j] => i = j
  PROVE  /\ AssignSequence(x, g) \in [Writers -> WriterStates]
         /\ \A i \in DOMAIN g : AssignSequence(x, g)[g[i]] = [w[g[i]] EXCEPT !.seqs = NumbersOf(g, i)]
         /\ \A y \in Writers : (\A i \in DOMAIN g : g[i] # y) => AssignSequence(x, g)[y] = w[y]
<1>1. d.lastSequence \in Nat /\ w \in [Writers -> WriterStates]
  BY DEF TypeOK, DatabaseStates
<1>2. \A i \in DOMAIN g : (CHOOSE j \in DOMAIN g : g[j] = g[i]) = i
  OBVIOUS
<1>3. ASSUME NEW i \in DOMAIN g
      PROVE  AssignSequence(x, g)[g[i]] = [w[g[i]] EXCEPT !.seqs = NumbersOf(g, i)]
  <2> DEFINE k == CHOOSE j \in DOMAIN g : g[j] = g[i]
  <2>1. g[i] \in Writers /\ \E j \in DOMAIN g : g[j] = g[i]
    OBVIOUS
  <2>2. AssignSequence(x, g)[g[i]] =
          [w[g[i]] EXCEPT !.seqs = Seqs(d.lastSequence + SizeTo(g, k) - Updates[g[i]], Updates[g[i]])]
    BY <2>1 DEF AssignSequence
  <2>3. k = i
    BY <1>2
  <2> QED
    BY <2>2, <2>3 DEF NumbersOf
<1>4. ASSUME NEW y \in Writers, \A i \in DOMAIN g : g[i] # y
      PROVE  AssignSequence(x, g)[y] = w[y]
  BY <1>4 DEF AssignSequence
<1>5. AssignSequence(x, g) = [y \in Writers |-> AssignSequence(x, g)[y]]
  BY DEF AssignSequence
<1>6. ASSUME NEW y \in Writers PROVE AssignSequence(x, g)[y] \in WriterStates
  <2>1. CASE \E i \in DOMAIN g : g[i] = y
    <3>1. PICK i \in DOMAIN g : g[i] = y
      BY <2>1
    <3>2. NumbersOf(g, i) \in SUBSET Nat
      BY <1>1, NumbersOrdered
    <3> QED
      BY <3>1, <3>2, <1>1, <1>3, ZenonT(60) DEF WriterStates
  <2>2. CASE \A i \in DOMAIN g : g[i] # y
    BY <2>2, <1>1, <1>4
  <2> QED
    BY <2>1, <2>2
<1> QED
  BY <1>3, <1>4, <1>5, <1>6

-----------------------------------------------------------------------------
(* Types and logs.                                                         *)

LEMMA InitIInv == Init => IInv
<1> SUFFICES ASSUME Init PROVE IInv
  OBVIOUS
<1> USE DEF Init, NewWriter
<1>1. TypeOK
  BY DEF TypeOK, DatabaseStates, WriterStates, ReaderStates, BackgroundStates
<1>2. LogsOK
  <2>1. d.imm = 0 /\ d.keptLog = 1 /\ d.logNumber = 1 /\ d.level0 = 0 /\ ~d.hasImm /\ ~d.scheduled
    OBVIOUS
  <2>2. bg.pc = "idle"
    OBVIOUS
  <2> QED
    BY <2>1, <2>2 DEF LogsOK
<1>3. QueueOK
  <2>1. \A x \in Writers : w[x].pc = "start" /\ w[x].done = FALSE /\ w[x].status = "ok"
    OBVIOUS
  <2>2. \A x \in Writers : ~Waiting(x)
    BY <2>1 DEF Waiting, Steps
  <2>3. DOMAIN queue = {} /\ cvWait = {}
    OBVIOUS
  <2> QED
    BY <2>1, <2>2, <2>3 DEF QueueOK, WriterOK, Steps
<1>4. NumbersOK
  BY DEF NumbersOK, NumberOK, Waiting, Steps, Before
<1>5. Held(d) = {}
  BY DEF Held
<1>6. DataOK
  BY <1>5 DEF DataOK, OldTables, HeldNumbered, WrittenOK, Inserting
<1>7. ReadOK
  BY DEF ReadOK, ReaderOK
<1> QED
  BY <1>1, <1>2, <1>3, <1>4, <1>6, <1>7 DEF IInv

\* The fields of a writer.
LEMMA WriterFields ==
  ASSUME w \in [Writers -> WriterStates], NEW x \in Writers
  PROVE  /\ w[x] \in WriterStates
         /\ w[x].seqs \in SUBSET Nat /\ w[x].left \in SUBSET Nat /\ w[x].group \in Seq(Writers)
         /\ w[x].status \in {"ok", "error", "sync error"} /\ w[x].done \in BOOLEAN
         /\ \A i \in DOMAIN w[x].group : w[x].group[i] \in Writers
         /\ Range(w[x].group) \subseteq Writers
<1>1. w[x] \in WriterStates
  OBVIOUS
<1>2. w[x].group \in Seq(Writers)
  BY <1>1 DEF WriterStates
<1>3. \A i \in DOMAIN w[x].group : w[x].group[i] \in Writers
  BY <1>2
<1>4. Range(w[x].group) \subseteq Writers
  BY <1>3 DEF Range
<1>5. /\ w[x].seqs \in SUBSET Nat /\ w[x].left \in SUBSET Nat
      /\ w[x].status \in {"ok", "error", "sync error"} /\ w[x].done \in BOOLEAN
  BY <1>1 DEF WriterStates
<1> QED
  BY <1>1, <1>2, <1>3, <1>4, <1>5

\* The fields of DBImpl.
LEMMA DatabaseFields ==
  ASSUME d \in DatabaseStates
  PROVE  /\ d.mem \in [1 .. MaxLogs -> SUBSET Nat] /\ d.logged \in [1 .. MaxLogs -> SUBSET Nat]
         /\ d.synced \in [1 .. MaxLogs -> SUBSET Nat] /\ d.tables \in SUBSET Nat
         /\ d.logNumber \in 1 .. MaxLogs /\ d.imm \in 0 .. MaxLogs /\ d.keptLog \in 1 .. MaxLogs
         /\ d.lastSequence \in Nat /\ d.level0 \in Nat
BY DEF DatabaseStates

LEMMA GroupSeqsType ==
  ASSUME w \in [Writers -> WriterStates], NEW x \in Writers
  PROVE  GroupSeqs(x) \in SUBSET Nat
<1>1. Range(w[x].group) \subseteq Writers
  BY WriterFields
<1>2. \A y \in Writers : w[y].seqs \in SUBSET Nat
  BY WriterFields
<1> QED
  BY <1>1, <1>2 DEF GroupSeqs

\* What the writers' steps do to their types.
LEMMA WriteType ==
  ASSUME IInv, NEW x \in Writers,
         Enqueue(x) \/ AwaitTurn(x) \/ Delayed(x) \/ LogGroup(x) \/ SyncLog(x) \/ Insert(x) \/ Reply(x)
  PROVE  TypeOK'
<1>1. /\ d \in DatabaseStates /\ queue \in Seq(Writers) /\ w \in [Writers -> WriterStates]
      /\ bgWait \subseteq Writers \cup Manuals \cup {"closer"}
  BY DEF IInv, TypeOK
<1>2. w[x] \in WriterStates /\ w[x].left \in SUBSET Nat
  BY <1>1, WriterFields
<1>3. GroupSeqs(x) \in SUBSET Nat
  BY <1>1, GroupSeqsType
<1>4. \A v \in WriterStates : [w EXCEPT ![x] = v] \in [Writers -> WriterStates]
  BY <1>1
<1>5. CASE Enqueue(x)
  <2>1. [w[x] EXCEPT !.pc = "queued"] \in WriterStates
    BY <1>2 DEF WriterStates
  <2>2. queue' \in Seq(Writers)
    BY <1>1, <1>5 DEF Enqueue
  <2> QED
    BY <2>1, <2>2, <1>4, <1>5 DEF Enqueue, IInv, TypeOK
<1>6. CASE AwaitTurn(x)
  <2>1. /\ [w[x] EXCEPT !.pc = "reply"] \in WriterStates
        /\ \A b \in BOOLEAN : [w[x] EXCEPT !.pc = "room", !.delay = b] \in WriterStates
    BY <1>2 DEF WriterStates
  <2>2. \/ w' = [w EXCEPT ![x].pc = "reply"]
        \/ \E b \in BOOLEAN : w' = [w EXCEPT ![x].pc = "room", ![x].delay = b]
        \/ w' = w
    <3>1. (x \in Batches) \in BOOLEAN
      OBVIOUS
    <3>2. \/ w' = [w EXCEPT ![x].pc = "reply"]
          \/ w' = [w EXCEPT ![x].pc = "room", ![x].delay = x \in Batches]
          \/ w' = w
      BY <1>6 DEF AwaitTurn
    <3> QED
      BY <3>1, <3>2, Zenon
  <2>3. w' \in [Writers -> WriterStates]
    BY <2>1, <2>2, <1>1, <1>4
  <2> QED
    BY <2>3, <1>6 DEF AwaitTurn, IInv, TypeOK
<1>7. CASE Delayed(x)
  <2>1. [w[x] EXCEPT !.pc = "room", !.delay = FALSE] \in WriterStates
    BY <1>2 DEF WriterStates
  <2> QED
    BY <2>1, <1>4, <1>7 DEF Delayed, IInv, TypeOK
<1>8. CASE LogGroup(x)
  <2>1. /\ \A p \in {"sync", "insert"} :
            [w[x] EXCEPT !.pc = p, !.left = GroupSeqs(x)] \in WriterStates
        /\ [w[x] EXCEPT !.pc = "finish", !.status = "error"] \in WriterStates
    BY <1>2, <1>3 DEF WriterStates, Steps
  <2>2. [d EXCEPT !.logged[d.logNumber] = @ \cup GroupSeqs(x)] \in DatabaseStates
    BY <1>1, <1>3 DEF DatabaseStates
  <2>3. w' \in [Writers -> WriterStates]
    <3>1. \/ \E p \in {"sync", "insert"} : w' = [w EXCEPT ![x].pc = p, ![x].left = GroupSeqs(x)]
          \/ w' = [w EXCEPT ![x].pc = "finish", ![x].status = "error"]
      BY <1>8 DEF LogGroup
    <3> QED
      BY <3>1, <2>1, <1>4
  <2>4. d' \in DatabaseStates
    BY <2>2, <1>1, <1>8 DEF LogGroup
  <2> QED
    BY <2>3, <2>4, <1>8 DEF LogGroup, IInv, TypeOK
<1>9. CASE SyncLog(x)
  <2>1. /\ [w[x] EXCEPT !.pc = "insert"] \in WriterStates
        /\ [w[x] EXCEPT !.pc = "finish", !.status = "sync error"] \in WriterStates
    BY <1>2 DEF WriterStates, Steps
  <2>2. [d EXCEPT !.synced[d.logNumber] = d.logged[d.logNumber]] \in DatabaseStates
    BY <1>1 DEF DatabaseStates
  <2> QED
    BY <2>1, <2>2, <1>4, <1>9 DEF SyncLog, IInv, TypeOK
<1>10. CASE Insert(x)
  <2>1. PICK s \in w[x].left :
          /\ d' = [d EXCEPT !.mem[d.logNumber] = @ \cup {s}]
          /\ w' = [w EXCEPT ![x].left = @ \ {s}, ![x].pc = IF w[x].left = {s} THEN "finish" ELSE "insert"]
    BY <1>10 DEF Insert
  <2>2. \A p \in {"finish", "insert"} :
          [w[x] EXCEPT !.left = @ \ {s}, !.pc = p] \in WriterStates
    BY <1>2 DEF WriterStates, Steps
  <2>3. [d EXCEPT !.mem[d.logNumber] = @ \cup {s}] \in DatabaseStates
    BY <1>1, <1>2 DEF DatabaseStates
  <2> QED
    BY <2>1, <2>2, <2>3, <1>4, <1>10 DEF Insert, IInv, TypeOK
<1>11. CASE Reply(x)
  <2>1. \A c \in {w[x].status, "error"} :
          [w[x] EXCEPT !.pc = "returned", !.status = c] \in WriterStates
    BY <1>2 DEF WriterStates
  <2>2. w' \in [Writers -> WriterStates]
    <3>1. \/ \E c \in {w[x].status, "error"} : w' = [w EXCEPT ![x].pc = "returned", ![x].status = c]
          \/ w' = w
      BY <1>11 DEF Reply
    <3> QED
      BY <3>1, <2>1, <1>1, <1>4
  <2>3. bgWait' \subseteq Writers \cup Manuals \cup {"closer"}
    BY <1>1, <1>11 DEF Reply
  <2> QED
    BY <2>2, <2>3, <1>11 DEF Reply, IInv, TypeOK
<1> QED
  BY <1>5, <1>6, <1>7, <1>8, <1>9, <1>10, <1>11

\* MaybeScheduleCompaction may set scheduled and changes nothing else.
LEMMA Scheduling ==
  ASSUME NEW s \in DatabaseStates
  PROVE  \E b \in BOOLEAN :
           MaybeScheduleCompaction(s) = [s EXCEPT !.scheduled = b] /\ (s.scheduled => b)
<1> DEFINE b == \/ s.scheduled
                \/ /\ ~s.shutting /\ ~s.error
                   /\ (s.imm # 0 \/ s.manual # None \/ s.level0 >= L0Compaction)
<1>1. b \in BOOLEAN /\ (s.scheduled => b)
  OBVIOUS
<1>2. MaybeScheduleCompaction(s) = [s EXCEPT !.scheduled = b]
  BY DEF MaybeScheduleCompaction
<1> HIDE DEF b
<1> QED
  BY <1>1, <1>2, Zenon

\* So it leaves the data alone.
SameData(s, t) ==
    /\ t.mem = s.mem /\ t.logged = s.logged /\ t.synced = s.synced /\ t.logNumber = s.logNumber
    /\ t.imm = s.imm /\ t.hasImm = s.hasImm /\ t.tables = s.tables /\ t.level0 = s.level0
    /\ t.keptLog = s.keptLog /\ t.lastSequence = s.lastSequence

LEMMA Scheduled ==
  ASSUME NEW s \in DatabaseStates
  PROVE  /\ MaybeScheduleCompaction(s) \in DatabaseStates
         /\ SameData(s, MaybeScheduleCompaction(s))
         /\ s.scheduled => MaybeScheduleCompaction(s).scheduled
<1>1. PICK b \in BOOLEAN :
        MaybeScheduleCompaction(s) = [s EXCEPT !.scheduled = b] /\ (s.scheduled => b)
  BY Scheduling
<1>2. [s EXCEPT !.scheduled = b] \in DatabaseStates
  BY DEF DatabaseStates
<1>3. SameData(s, [s EXCEPT !.scheduled = b])
  BY DEF DatabaseStates, SameData
<1>4. [s EXCEPT !.scheduled = b].scheduled = b
  BY DEF DatabaseStates
<1> QED
  BY <1>1, <1>2, <1>3, <1>4, Zenon

\* The tail of BackgroundCall.
LEMMA BackgroundDoneEffect ==
  ASSUME NEW s \in DatabaseStates, BackgroundDone(s)
  PROVE  /\ d' \in DatabaseStates /\ SameData(s, d') /\ bg' \in BackgroundStates /\ bgWait' = {}
         /\ d'.scheduled <=> bg'.pc # "idle"
         /\ bg'.pc \in {"idle", "queued"}
<1> DEFINE t == [s EXCEPT !.scheduled = FALSE]
<1>1. t \in DatabaseStates /\ SameData(s, t)
  BY DEF DatabaseStates, SameData
<1>2. d' = MaybeScheduleCompaction(t)
  BY DEF BackgroundDone
<1> HIDE DEF t
<1>3. d' \in DatabaseStates /\ SameData(t, d')
  BY <1>1, <1>2, Scheduled
<1>4. SameData(s, d')
  BY <1>1, <1>3 DEF SameData
<1>5. bg' = [pc |-> IF d'.scheduled THEN "queued" ELSE "idle", nested |-> FALSE, manual |-> None]
      /\ bgWait' = {}
  BY DEF BackgroundDone
<1>6. bg' \in BackgroundStates /\ bg'.pc \in {"idle", "queued"}
  BY <1>5 DEF BackgroundStates
<1>7. d'.scheduled <=> bg'.pc # "idle"
  BY <1>5
<1> QED
  BY <1>3, <1>4, <1>5, <1>6, <1>7

\* What the steps of the background thread, of CompactRange and of the
\* destructor do to the data: nothing, or imm_ goes to the tables.
Elsewhere ==
    \/ \E m \in Manuals : CompactRange(m)
    \/ BackgroundCall \/ BuildTable \/ ApplyFlush \/ PrioritizeImm \/ FinishCompaction
    \/ Close \/ AwaitBackground \/ Closed

SameOrFlushed(t) ==
    /\ t.mem = d.mem /\ t.logged = d.logged /\ t.synced = d.synced
    /\ t.logNumber = d.logNumber /\ t.lastSequence = d.lastSequence
    /\ \/ t.imm = d.imm /\ t.tables = d.tables
       \/ d.imm # 0 /\ t.imm = 0 /\ t.tables = d.tables \cup d.mem[d.imm]

\* A state that only differs in other fields.
LEMMA SameIsSame ==
  ASSUME NEW s, SameData(d, s)
  PROVE  SameOrFlushed(s)
BY DEF SameData, SameOrFlushed

\* What the background thread has done when it ends a call.
Worked(s) ==
    \/ SameData(d, s)
    \/ \E left \in 0 .. d.level0 : SameData([d EXCEPT !.level0 = left], s)
    \/ d.imm # 0 /\ SameData(CommitFlush(d), s)

LEMMA DoneKeeps ==
  ASSUME IInv, NEW s \in DatabaseStates, BackgroundDone(s), Worked(s)
  PROVE  /\ d' \in DatabaseStates /\ bg' \in BackgroundStates /\ bgWait' = {}
         /\ SameOrFlushed(d') /\ LogsOK'
<1>1. /\ d' \in DatabaseStates /\ SameData(s, d') /\ bg' \in BackgroundStates /\ bgWait' = {}
      /\ d'.scheduled <=> bg'.pc # "idle"
      /\ bg'.pc \in {"idle", "queued"}
  BY BackgroundDoneEffect
<1>2. d \in DatabaseStates /\ LogsOK
  BY DEF IInv, TypeOK
<1>3. CASE SameData(d, s)
  <2>1. SameData(d, d')
    BY <1>1, <1>3 DEF SameData
  <2>2. LogsOK'
    BY <2>1, <1>1, <1>2 DEF SameData, LogsOK
  <2> QED
    BY <2>1, <2>2, <1>1, SameIsSame
<1>4. ASSUME NEW left \in 0 .. d.level0, SameData([d EXCEPT !.level0 = left], s)
      PROVE  SameOrFlushed(d') /\ LogsOK'
  <2>1. SameData([d EXCEPT !.level0 = left], d')
    BY <1>1, <1>4 DEF SameData
  <2>2. SameOrFlushed(d')
    BY <2>1, <1>2 DEF SameData, SameOrFlushed, DatabaseStates
  <2>3. LogsOK'
    <3>1. d'.level0 = left /\ left \in Nat /\ left <= d.level0 /\ d.level0 \in Nat
      BY <2>1, <1>2 DEF SameData, DatabaseStates
    <3>2. d'.level0 <= d.level0
      BY <3>1
    <3>3. /\ d'.mem = d.mem /\ d'.logged = d.logged /\ d'.synced = d.synced /\ d'.logNumber = d.logNumber
          /\ d'.imm = d.imm /\ d'.tables = d.tables /\ d'.keptLog = d.keptLog
          /\ d'.lastSequence = d.lastSequence /\ d'.hasImm = d.hasImm
      BY <2>1, <1>2 DEF SameData, DatabaseStates
    <3> QED
      BY <3>1, <3>2, <3>3, <1>1, <1>2 DEF LogsOK
  <2> QED
    BY <2>2, <2>3
<1>5. CASE SameData(CommitFlush(d), s) /\ d.imm # 0
  <2>1. SameData(CommitFlush(d), d')
    BY <1>1, <1>5 DEF SameData
  <2>2. /\ d'.mem = d.mem /\ d'.logged = d.logged /\ d'.synced = d.synced
        /\ d'.logNumber = d.logNumber /\ d'.lastSequence = d.lastSequence
        /\ d'.imm = 0 /\ d'.tables = d.tables \cup d.mem[d.imm]
        /\ d'.keptLog = d.logNumber /\ d'.level0 = d.level0 + 1 /\ d'.hasImm = FALSE
    BY <2>1, <1>2 DEF SameData, CommitFlush, DatabaseStates
  <2>3. SameOrFlushed(d')
    BY <2>2, <1>5 DEF SameOrFlushed
  <2>4. LogsOK'
    <3>1. d.level0 \in Nat /\ d.level0 < L0Stop
      BY <1>2, <1>5 DEF LogsOK, DatabaseStates
    <3> QED
      BY <2>2, <3>1, <1>1 DEF LogsOK
  <2> QED
    BY <2>3, <2>4, <1>1
<1> QED
  BY <1>1, <1>3, <1>4, <1>5 DEF Worked

LEMMA FlushKeeps ==
  ASSUME IInv, NEW s \in DatabaseStates, AfterFlush(s), bg.pc # "idle",
         \/ SameData(d, s) /\ s.scheduled = d.scheduled
         \/ d.imm # 0 /\ s = CommitFlush(d)
  PROVE  /\ d' \in DatabaseStates /\ bg' \in BackgroundStates /\ bgWait' = {}
         /\ SameOrFlushed(d') /\ LogsOK'
<1>1. d \in DatabaseStates /\ bg \in BackgroundStates /\ LogsOK
  BY DEF IInv, TypeOK
<1>2. Worked(s)
  BY <1>1 DEF Worked, SameData, DatabaseStates
<1>3. CASE bg.nested
  <2>1. d' = s /\ bg' = [bg EXCEPT !.pc = "compact", !.nested = FALSE] /\ bgWait' = {}
    BY <1>3 DEF AfterFlush
  <2>2. bg' \in BackgroundStates /\ bg'.pc = "compact"
    BY <2>1, <1>1 DEF BackgroundStates
  <2>3. CASE SameData(d, s) /\ s.scheduled = d.scheduled
    <3>1. LogsOK'
      BY <2>1, <2>2, <2>3, <1>1 DEF LogsOK, SameData
    <3> QED
      BY <3>1, <2>1, <2>2, <2>3, SameIsSame
  <2>4. CASE d.imm # 0 /\ s = CommitFlush(d)
    <3>1. /\ d'.mem = d.mem /\ d'.logged = d.logged /\ d'.synced = d.synced
          /\ d'.logNumber = d.logNumber /\ d'.lastSequence = d.lastSequence
          /\ d'.imm = 0 /\ d'.tables = d.tables \cup d.mem[d.imm]
          /\ d'.keptLog = d.logNumber /\ d'.level0 = d.level0 + 1 /\ d'.hasImm = FALSE
          /\ d'.scheduled = d.scheduled
      BY <2>1, <2>4, <1>1 DEF CommitFlush, DatabaseStates
    <3>2. d.level0 \in Nat /\ d.level0 < L0Stop
      BY <1>1, <2>4 DEF LogsOK, DatabaseStates
    <3>3. LogsOK'
      BY <3>1, <3>2, <2>2, <1>1 DEF LogsOK
    <3>4. SameOrFlushed(d')
      BY <3>1, <2>4 DEF SameOrFlushed
    <3> QED
      BY <3>3, <3>4, <2>1, <2>2
  <2> QED
    BY <2>3, <2>4
<1>4. CASE ~bg.nested
  BY <1>2, <1>4, DoneKeeps DEF AfterFlush
<1> QED
  BY <1>3, <1>4

LEMMA ElsewhereEffect ==
  ASSUME IInv, Elsewhere
  PROVE  /\ TypeOK' /\ LogsOK' /\ SameOrFlushed(d')
         /\ UNCHANGED <<queue, w, rd, cvWait>>
<1>1. /\ d \in DatabaseStates /\ bg \in BackgroundStates /\ LogsOK
      /\ bgWait \subseteq Writers \cup Manuals \cup {"closer"}
  BY DEF IInv, TypeOK
<1>2. UNCHANGED <<queue, w, rd, cvWait>>
  BY DEF Elsewhere, CompactRange, BackgroundCall, BuildTable, ApplyFlush, PrioritizeImm,
         FinishCompaction, Close, AwaitBackground, Closed, vars
<1>3. SUFFICES /\ d' \in DatabaseStates /\ bg' \in BackgroundStates
               /\ bgWait' \subseteq Writers \cup Manuals \cup {"closer"}
               /\ SameOrFlushed(d') /\ LogsOK'
  BY <1>2 DEF IInv, TypeOK
<1>4. SameData(d, d) /\ SameOrFlushed(d)
  BY DEF SameData, SameOrFlushed
<1>5. ASSUME NEW m \in Manuals, CompactRange(m)
      PROVE  /\ d' \in DatabaseStates /\ bg' \in BackgroundStates
             /\ bgWait' \subseteq Writers \cup Manuals \cup {"closer"}
             /\ SameOrFlushed(d') /\ LogsOK'
  <2>1. \A v \in Manuals \cup {None} :
          /\ [d EXCEPT !.manual = v] \in DatabaseStates
          /\ SameData(d, [d EXCEPT !.manual = v]) /\ [d EXCEPT !.manual = v].scheduled = d.scheduled
    BY <1>1 DEF DatabaseStates, SameData
  <2>2. CASE d' \in {d, [d EXCEPT !.manual = None]} /\ UNCHANGED bg /\ bgWait' \subseteq bgWait \cup {m}
    <3>1. d' \in DatabaseStates /\ SameData(d, d') /\ d'.scheduled = d.scheduled
      <4>1. CASE d' = d
        BY <4>1, <1>1, <1>4
      <4>2. CASE d' = [d EXCEPT !.manual = None]
        BY <4>2, <2>1
      <4> QED
        BY <4>1, <4>2, <2>2
    <3>2. LogsOK'
      BY <3>1, <2>2, <1>1 DEF LogsOK, SameData
    <3> QED
      BY <3>1, <3>2, <2>2, <1>1, SameIsSame
  <2>3. CASE /\ d' = MaybeScheduleCompaction([d EXCEPT !.manual = m])
             /\ bg' = Queued(bg, d') /\ bgWait' = bgWait \cup {m}
    <3> DEFINE s == [d EXCEPT !.manual = m]
    <3>1. s \in DatabaseStates /\ SameData(d, s) /\ s.scheduled = d.scheduled
      BY <2>1
    <3>2. d' = MaybeScheduleCompaction(s)
      BY <2>3
    <3> HIDE DEF s
    <3>3. d' \in DatabaseStates /\ SameData(s, d') /\ (s.scheduled => d'.scheduled)
      BY <3>1, <3>2, Scheduled
    <3>4. SameData(d, d')
      BY <3>1, <3>3 DEF SameData
    <3>5. /\ bg' \in BackgroundStates
          /\ d'.scheduled <=> bg'.pc # "idle"
          /\ bg'.pc = bg.pc \/ bg'.pc = "queued"
      BY <3>1, <3>3, <2>3, <1>1 DEF Queued, BackgroundStates, LogsOK
    <3>6. LogsOK'
      BY <3>4, <3>5, <1>1 DEF LogsOK, SameData
    <3> QED
      BY <3>3, <3>4, <3>5, <3>6, <2>3, <1>1, SameIsSame
  <2> QED
    BY <2>2, <2>3, <1>5 DEF CompactRange
<1>6. CASE BackgroundCall
  <2>1. [d EXCEPT !.manual = None] \in DatabaseStates /\ SameData(d, [d EXCEPT !.manual = None])
    BY <1>1 DEF DatabaseStates, SameData
  <2>2. CASE BackgroundDone(d) \/ BackgroundDone([d EXCEPT !.manual = None])
    <3>1. Worked(d) /\ Worked([d EXCEPT !.manual = None])
      BY <2>1, <1>4 DEF Worked
    <3> QED
      BY <2>1, <2>2, <3>1, <1>1, DoneKeeps
  <2>3. CASE /\ UNCHANGED <<d, bgWait>>
             /\ \/ d.imm # 0 /\ bg' = [bg EXCEPT !.pc = "build"]
                \/ bg' = [bg EXCEPT !.pc = "compact", !.manual = d.manual]
    <3>1. bg' \in BackgroundStates /\ bg'.pc # "idle" /\ bg'.pc # "apply" /\ (bg'.pc = "build" => d.imm # 0)
      BY <2>3, <1>1, ZenonT(60) DEF BackgroundStates, DatabaseStates
    <3>2. bg.pc # "idle"
      BY <1>6 DEF BackgroundCall
    <3>3. LogsOK'
      BY <3>1, <3>2, <2>3, <1>1 DEF LogsOK
    <3> QED
      BY <3>1, <3>3, <2>3, <1>1, <1>4
  <2> QED
    BY <2>2, <2>3, <1>6 DEF BackgroundCall
<1>7. /\ RecordBackgroundError(d) \in DatabaseStates /\ SameData(d, RecordBackgroundError(d))
      /\ RecordBackgroundError(d).scheduled = d.scheduled
  BY <1>1 DEF RecordBackgroundError, DatabaseStates, SameData
<1>8. CASE BuildTable
  <2>1. CASE bg' = [bg EXCEPT !.pc = "apply"] /\ UNCHANGED <<d, bgWait>>
    <3>1. bg' \in BackgroundStates /\ bg'.pc = "apply"
      BY <2>1, <1>1 DEF BackgroundStates
    <3>2. LogsOK'
      BY <3>1, <2>1, <1>1, <1>8 DEF LogsOK, BuildTable
    <3> QED
      BY <3>1, <3>2, <2>1, <1>1, <1>4
  <2>2. CASE AfterFlush(RecordBackgroundError(d))
    <3> DEFINE e == RecordBackgroundError(d)
    <3>1. e \in DatabaseStates /\ SameData(d, e) /\ e.scheduled = d.scheduled
      BY <1>7
    <3>2. AfterFlush(e) /\ bg.pc # "idle"
      BY <2>2, <1>8 DEF BuildTable
    <3> HIDE DEF e
    <3>3. /\ d' \in DatabaseStates /\ bg' \in BackgroundStates /\ bgWait' = {}
          /\ SameOrFlushed(d') /\ LogsOK'
      BY <3>1, <3>2, FlushKeeps
    <3> QED
      BY <3>3
  <2> QED
    BY <2>1, <2>2, <1>8 DEF BuildTable
<1>9. CASE ApplyFlush
  <2>1. d.imm # 0
    BY <1>1, <1>9 DEF ApplyFlush, LogsOK
  <2>2. CommitFlush(d) \in DatabaseStates
    <3>1. d.imm \in 1 .. MaxLogs /\ d.mem[d.imm] \in SUBSET Nat
      BY <2>1, <1>1 DEF DatabaseStates
    <3>2. /\ d.tables \cup d.mem[d.imm] \in SUBSET Nat /\ d.level0 + 1 \in Nat
          /\ d.logNumber \in 1 .. MaxLogs /\ 0 \in 0 .. MaxLogs
      BY <3>1, <1>1, DatabaseFields
    <3>3. CommitFlush(d) = [d EXCEPT !.tables = d.tables \cup d.mem[d.imm], !.level0 = d.level0 + 1,
                                     !.keptLog = d.logNumber, !.imm = 0, !.hasImm = FALSE]
      BY <1>1 DEF CommitFlush, DatabaseStates
    <3> QED
      BY <3>2, <3>3, <1>1, ZenonT(60) DEF DatabaseStates
  <2>3. CASE AfterFlush(CommitFlush(d))
    BY <2>1, <2>2, <2>3, <1>9, FlushKeeps DEF ApplyFlush
  <2>4. CASE AfterFlush(RecordBackgroundError(d))
    <3> DEFINE e == RecordBackgroundError(d)
    <3>1. e \in DatabaseStates /\ SameData(d, e) /\ e.scheduled = d.scheduled
      BY <1>7
    <3>2. AfterFlush(e) /\ bg.pc # "idle"
      BY <2>4, <1>9 DEF ApplyFlush
    <3> HIDE DEF e
    <3>3. /\ d' \in DatabaseStates /\ bg' \in BackgroundStates /\ bgWait' = {}
          /\ SameOrFlushed(d') /\ LogsOK'
      BY <3>1, <3>2, FlushKeeps
    <3> QED
      BY <3>3
  <2> QED
    BY <2>3, <2>4, <1>9 DEF ApplyFlush
<1>10. CASE PrioritizeImm
  <2>1. bg' \in BackgroundStates /\ bg'.pc = "build"
    BY <1>1, <1>10 DEF PrioritizeImm, BackgroundStates
  <2>2. LogsOK'
    BY <2>1, <1>1, <1>10 DEF LogsOK, PrioritizeImm
  <2> QED
    BY <2>1, <2>2, <1>1, <1>4, <1>10 DEF PrioritizeImm
<1>11. CASE FinishCompaction
  <2> DEFINE Z == {[d EXCEPT !.level0 = left] : left \in 0 .. d.level0}
             e == RecordBackgroundError(d)
  <2>1. ASSUME NEW s \in Z \cup {e} PROVE
          /\ s \in DatabaseStates /\ [s EXCEPT !.manual = None] \in DatabaseStates
          /\ Worked(s) /\ Worked([s EXCEPT !.manual = None])
    <3>1. CASE s \in Z
      <4>1. PICK left \in 0 .. d.level0 : s = [d EXCEPT !.level0 = left]
        BY <3>1
      <4>2. left \in Nat
        BY <1>1 DEF DatabaseStates
      <4>3. s \in DatabaseStates /\ [s EXCEPT !.manual = None] \in DatabaseStates
        BY <4>1, <4>2, <1>1 DEF DatabaseStates
      <4>4. /\ SameData([d EXCEPT !.level0 = left], s)
            /\ SameData([d EXCEPT !.level0 = left], [s EXCEPT !.manual = None])
        BY <4>1, <4>3, <1>1 DEF DatabaseStates, SameData
      <4> HIDE DEF Z
      <4> QED
        BY <4>3, <4>4 DEF Worked
    <3>2. CASE s = e
      <4>1. e = [d EXCEPT !.error = TRUE]
        BY DEF RecordBackgroundError
      <4>2. e \in DatabaseStates /\ [e EXCEPT !.manual = None] \in DatabaseStates
        BY <4>1, <1>1 DEF DatabaseStates
      <4>3. SameData(d, e) /\ SameData(d, [e EXCEPT !.manual = None])
        BY <4>1, <1>1 DEF DatabaseStates, SameData
      <4> QED
        BY <3>2, <4>2, <4>3 DEF Worked
    <3> QED
      BY <3>1, <3>2
  <2>2. PICK s \in Z \cup {e} :
          BackgroundDone(s) \/ BackgroundDone([s EXCEPT !.manual = None]) \/ UNCHANGED <<d, bg, bgWait>>
    BY <1>11 DEF FinishCompaction, EndManual
  <2> HIDE DEF Z, e
  <2>3. CASE BackgroundDone(s) \/ BackgroundDone([s EXCEPT !.manual = None])
    BY <2>1, <2>3, DoneKeeps
  <2>4. CASE UNCHANGED <<d, bg, bgWait>>
    BY <2>4, <1>1, <1>4 DEF LogsOK
  <2> QED
    BY <2>2, <2>3, <2>4
<1>12. CASE Close
  <2>1. d' = [d EXCEPT !.shutting = TRUE] /\ UNCHANGED <<bg, bgWait>>
    BY <1>12 DEF Close
  <2>2. d' \in DatabaseStates /\ SameData(d, d') /\ d'.scheduled = d.scheduled
    BY <2>1, <1>1 DEF DatabaseStates, SameData
  <2>3. LogsOK'
    BY <2>1, <2>2, <1>1 DEF LogsOK, SameData
  <2> QED
    BY <2>1, <2>2, <2>3, <1>1, SameIsSame
<1>13. CASE AwaitBackground \/ Closed
  BY <1>13, <1>1, <1>4 DEF AwaitBackground, Closed, vars, LogsOK
<1> QED
  BY <1>5, <1>6, <1>8, <1>9, <1>10, <1>11, <1>12, <1>13 DEF Elsewhere

\* What MakeRoomForWrite does to the data: nothing, or the memtable becomes
\* imm_.
SameOrSwitched(t) ==
    /\ t.mem = d.mem /\ t.logged = d.logged /\ t.synced = d.synced
    /\ t.tables = d.tables /\ t.lastSequence = d.lastSequence
    /\ \/ t.logNumber = d.logNumber /\ t.imm = d.imm
       \/ d.imm = 0 /\ t.imm = d.logNumber /\ t.logNumber = d.logNumber + 1

\* And to the writers.
Started(x) ==
    \/ w' = w
    \/ w' = [w EXCEPT ![x].pc = "sleep"]
    \/ w' = Alone(x, "error")
    \/ x \in Flushers /\ w' = Alone(x, "ok")
    \/ x \in Batches /\ w' = StartGroup(x)

LEMMA StartGroupType ==
  ASSUME IInv, NEW x \in Batches, w[x].pc = "room"
  PROVE  StartGroup(x) \in [Writers -> WriterStates]
<1>1. TypeOK /\ QueueOK /\ x \in Writers
  BY DEF IInv, Batches
<1>2. PICK g \in Seq(Writers) :
        /\ \A i, j \in DOMAIN g : g[i] = g[j] => i = j
        /\ StartGroup(x) = [AssignSequence(x, g) EXCEPT ![x].pc = "log", ![x].group = g]
  BY <1>1, GroupStarts
<1>3. AssignSequence(x, g) \in [Writers -> WriterStates]
  BY <1>1, <1>2, GroupNumbered
<1> DEFINE A == AssignSequence(x, g)
<1> HIDE DEF A
<1>4. [A[x] EXCEPT !.pc = "log", !.group = g] \in WriterStates
  BY <1>1, <1>3, ZenonT(60) DEF A, WriterStates, Steps
<1>5. StartGroup(x) = [A EXCEPT ![x] = [A[x] EXCEPT !.pc = "log", !.group = g]]
  BY <1>1, <1>2, <1>3 DEF A
<1> QED
  BY <1>3, <1>4, <1>5 DEF A

LEMMA RoomEffect ==
  ASSUME IInv, NEW x \in Writers, MakeRoomForWrite(x)
  PROVE  /\ TypeOK' /\ LogsOK' /\ SameOrSwitched(d') /\ Started(x)
         /\ UNCHANGED <<queue, rd, cvWait>>
<1>1. /\ d \in DatabaseStates /\ bg \in BackgroundStates /\ w \in [Writers -> WriterStates] /\ LogsOK
      /\ bgWait \subseteq Writers \cup Manuals \cup {"closer"} /\ w[x].pc = "room"
  BY DEF IInv, TypeOK, MakeRoomForWrite
<1>2. UNCHANGED <<queue, rd, cvWait>> /\ bgWait' \subseteq bgWait \cup {x}
  BY DEF MakeRoomForWrite
<1>3. Started(x)
  <2>1. x \in Flushers => StartGroup(x) = Alone(x, "ok")
    BY DEF StartGroup
  <2>2. x \in Flushers \/ x \in Batches
    BY DEF Flushers
  <2> QED
    BY <2>1, <2>2 DEF MakeRoomForWrite, Started
<1>4. w' \in [Writers -> WriterStates]
  <2>1. \A c \in {"ok", "error"} : [w[x] EXCEPT !.pc = "finish", !.group = <<x>>, !.status = c] \in WriterStates
    <3>1. <<x>> \in Seq(Writers) /\ w[x] \in WriterStates
      BY <1>1
    <3> QED
      BY <3>1 DEF WriterStates, Steps
  <2>2. \A c \in {"ok", "error"} : Alone(x, c) \in [Writers -> WriterStates]
    BY <2>1, <1>1 DEF Alone
  <2>3. [w EXCEPT ![x].pc = "sleep"] \in [Writers -> WriterStates]
    <3>1. [w[x] EXCEPT !.pc = "sleep"] \in WriterStates
      BY <1>1, ZenonT(60) DEF WriterStates
    <3> QED
      BY <3>1, <1>1
  <2> QED
    BY <2>2, <2>3, <1>1, <1>3, StartGroupType DEF Started
<1>5. /\ d' \in DatabaseStates /\ bg' \in BackgroundStates /\ SameOrSwitched(d') /\ LogsOK'
  <2>1. CASE UNCHANGED <<d, bg>>
    BY <2>1, <1>1 DEF SameOrSwitched, LogsOK
  <2>2. CASE /\ d.imm = 0 /\ d.level0 < L0Stop /\ d.logNumber < MaxLogs
             /\ d' = SwitchMemTable(d) /\ bg' = Queued(bg, d')
    <3> DEFINE s == [d EXCEPT !.logNumber = @ + 1, !.imm = d.logNumber, !.hasImm = TRUE]
    <3>1. d.logNumber + 1 \in 1 .. MaxLogs /\ d.logNumber \in 0 .. MaxLogs /\ d.logNumber # 0
      BY <2>2, <1>1, DatabaseFields
    <3>2. s \in DatabaseStates
      BY <3>1, <1>1 DEF DatabaseStates
    <3>3. /\ s.mem = d.mem /\ s.logged = d.logged /\ s.synced = d.synced
          /\ s.tables = d.tables /\ s.lastSequence = d.lastSequence
          /\ s.imm = d.logNumber /\ s.logNumber = d.logNumber + 1 /\ s.hasImm
          /\ s.level0 = d.level0 /\ s.keptLog = d.keptLog /\ s.scheduled = d.scheduled
      BY <1>1 DEF DatabaseStates
    <3>4. d' = MaybeScheduleCompaction(s)
      BY <2>2 DEF SwitchMemTable
    <3> HIDE DEF s
    <3>5. d' \in DatabaseStates /\ SameData(s, d') /\ (s.scheduled => d'.scheduled)
      BY <3>2, <3>4, Scheduled
    <3>6. /\ bg' \in BackgroundStates
          /\ d'.scheduled <=> bg'.pc # "idle"
      BY <3>3, <3>5, <2>2, <1>1 DEF Queued, BackgroundStates, LogsOK
    <3>7. SameOrSwitched(d')
      BY <3>3, <3>5, <2>2 DEF SameOrSwitched, SameData
    <3>8. /\ d'.imm = d.logNumber /\ d'.logNumber = d.logNumber + 1 /\ d'.hasImm
          /\ d'.level0 = d.level0 /\ d'.keptLog = d.keptLog
      BY <3>3, <3>5 DEF SameData
    <3>9. LogsOK'
      BY <3>1, <3>6, <3>8, <2>2, <1>1 DEF LogsOK, DatabaseStates
    <3> QED
      BY <3>5, <3>6, <3>7, <3>9
  <2> QED
    BY <2>1, <2>2 DEF MakeRoomForWrite
<1> QED
  BY <1>1, <1>2, <1>3, <1>4, <1>5 DEF IInv, TypeOK

\* The writer that writes a group is the first one, and the group follows.
LEMMA GroupLeads ==
  ASSUME TypeOK, QueueOK, NEW x \in Writers, w[x].pc \in Steps
  PROVE  /\ queue # <<>> /\ queue[1] = x /\ ~w[x].done
         /\ w[x].group \in Seq(Writers) /\ DOMAIN w[x].group = 1 .. Len(w[x].group)
         /\ Len(w[x].group) \in 1 .. Len(queue) /\ w[x].group[1] = x
         /\ \A i \in DOMAIN w[x].group :
                w[x].group[i] = queue[i] /\ (w[x].group[i] \in Synchronous => x \in Synchronous)
         /\ \A i, j \in DOMAIN w[x].group : w[x].group[i] = w[x].group[j] => i = j
<1>1. /\ queue # <<>> /\ queue[1] = x /\ ~w[x].done
      /\ w[x].group # <<>> /\ Len(w[x].group) <= Len(queue)
      /\ \A i \in DOMAIN w[x].group :
            w[x].group[i] = queue[i] /\ (w[x].group[i] \in Synchronous => x \in Synchronous)
  BY DEF QueueOK, WriterOK, AtFront, Steps
<1>2. w[x].group \in Seq(Writers) /\ queue \in Seq(Writers)
  BY WriterFields DEF TypeOK
<1>3. Len(w[x].group) \in 1 .. Len(queue) /\ DOMAIN w[x].group = 1 .. Len(w[x].group)
  BY <1>1, <1>2
<1>4. w[x].group[1] = x
  BY <1>1, <1>3
<1>5. \A i, j \in DOMAIN w[x].group : w[x].group[i] = w[x].group[j] => i = j
  <2>1. \A i, j \in DOMAIN queue : queue[i] = queue[j] => i = j
    BY DEF QueueOK
  <2>2. \A i \in DOMAIN w[x].group : i \in DOMAIN queue
    BY <1>2, <1>3
  <2> QED
    BY <1>1, <2>1, <2>2
<1> QED
  BY <1>1, <1>2, <1>3, <1>4, <1>5

\* The end of a group.
LEMMA FinishEffect ==
  ASSUME IInv, NEW x \in Writers, FinishGroup(x)
  PROVE  /\ TypeOK' /\ LogsOK' /\ UNCHANGED rd
         /\ d'.mem = d.mem /\ d'.logged = d.logged /\ d'.synced = d.synced /\ d'.tables = d.tables
         /\ d'.logNumber = d.logNumber /\ d'.imm = d.imm
         /\ d'.lastSequence = LastSequenceOf(x) /\ d'.lastSequence >= d.lastSequence
         /\ Len(w[x].group) \in 1 .. Len(queue)
         /\ Len(queue') = Len(queue) - Len(w[x].group)
         /\ \A i \in DOMAIN queue' : queue'[i] = queue[Len(w[x].group) + i]
         /\ Range(w[x].group) = {queue[i] : i \in 1 .. Len(w[x].group)}
<1> DEFINE n == Len(w[x].group)
           s == [d EXCEPT !.lastSequence = LastSequenceOf(x)]
<1>1. /\ d \in DatabaseStates /\ bg \in BackgroundStates /\ w \in [Writers -> WriterStates] /\ LogsOK
      /\ bgWait \subseteq Writers \cup Manuals \cup {"closer"} /\ w[x].pc = "finish"
      /\ queue \in Seq(Writers)
  BY DEF IInv, TypeOK, FinishGroup
<1>2. w[x].group \in Seq(Writers) /\ \A i \in DOMAIN w[x].group : w[x].group[i] = queue[i]
  <2>1. w[x].group \in Seq(Writers)
    BY <1>1, WriterFields
  <2>2. \A i \in DOMAIN w[x].group : w[x].group[i] = queue[i]
    BY <1>1, GroupLeads DEF IInv, Steps
  <2> QED
    BY <2>1, <2>2
<1>3. n \in 1 .. Len(queue)
  BY <1>1, GroupLeads DEF IInv, Steps
<1>4. Range(w[x].group) = {queue[i] : i \in 1 .. n}
  BY <1>2 DEF Range
<1>5. queue' \in Seq(Writers) /\ Len(queue') = Len(queue) - n /\ \A i \in DOMAIN queue' : queue'[i] = queue[n + i]
  <2>1. queue' = SubSeq(queue, n + 1, Len(queue))
    BY DEF FinishGroup
  <2> HIDE DEF n
  <2>2. Len(queue) \in Nat /\ n + 1 \in 1 .. Len(queue) + 1
    BY <1>1, <1>3
  <2> QED
    BY <2>1, <2>2, <1>1, <1>3, SMTT(60)
<1>6. LastSequenceOf(x) \in Nat /\ LastSequenceOf(x) >= d.lastSequence
  <2>1. SizeTo(w[x].group, n) \in Nat
    <3>1. n \in DOMAIN w[x].group
      BY <1>2, <1>3
    <3> QED
      BY <3>1, <1>2, SizeToStep
  <2>2. d.lastSequence \in Nat
    BY <1>1, DatabaseFields
  <2> QED
    BY <2>1, <2>2 DEF LastSequenceOf
<1>7. s \in DatabaseStates /\ RecordBackgroundError(s) \in DatabaseStates
  BY <1>1, <1>6 DEF DatabaseStates, RecordBackgroundError
<1>8. \A t \in {s, RecordBackgroundError(s)} :
        /\ t.mem = d.mem /\ t.logged = d.logged /\ t.synced = d.synced /\ t.tables = d.tables
        /\ t.logNumber = d.logNumber /\ t.imm = d.imm /\ t.lastSequence = LastSequenceOf(x)
        /\ t.level0 = d.level0 /\ t.keptLog = d.keptLog /\ t.scheduled = d.scheduled /\ t.hasImm = d.hasImm
  BY <1>1, ZenonT(60) DEF DatabaseStates, RecordBackgroundError
<1>9. d' \in {s, RecordBackgroundError(s)} /\ bgWait' \subseteq bgWait /\ UNCHANGED <<rd, bg>>
  BY DEF FinishGroup
<1> HIDE DEF s
<1>10. LogsOK'
  BY <1>1, <1>8, <1>9 DEF LogsOK
<1>11. w' \in [Writers -> WriterStates]
  <2>1. \A y \in Writers, c \in {"ok", "error"} : \A p \in {w[y].pc, "reply"} :
          [w[y] EXCEPT !.status = c, !.done = TRUE, !.pc = p] \in WriterStates
    <3> TAKE y \in Writers, c \in {"ok", "error"}
    <3>1. w[y] \in WriterStates
      BY <1>1
    <3> QED
      BY <3>1 DEF WriterStates
  <2>2. PICK c \in {"ok", "error"} :
          w' = [y \in Writers |->
                   IF y \notin Range(w[x].group) THEN w[y]
                   ELSE [w[y] EXCEPT !.status = c, !.done = TRUE, !.pc = IF y = x THEN "reply" ELSE @]]
    BY DEF FinishGroup
  <2>3. \A y \in Writers : w'[y] \in WriterStates
    BY <2>1, <2>2, <1>1
  <2> QED
    BY <2>2, <2>3
<1> QED
  BY <1>1, <1>3, <1>4, <1>5, <1>6, <1>7, <1>8, <1>9, <1>10, <1>11 DEF IInv, TypeOK

-----------------------------------------------------------------------------
(* What each step of a writer changes, field by field.                     *)

\* Only the state of x changes, and not its numbers nor its group.
Only(x) ==
    /\ \A y \in Writers \ {x} : w'[y] = w[y]
    /\ w'[x].seqs = w[x].seqs /\ w'[x].group = w[x].group

SameStore(t) ==
    /\ t.mem = d.mem /\ t.logged = d.logged /\ t.synced = d.synced /\ t.tables = d.tables
    /\ t.imm = d.imm /\ t.logNumber = d.logNumber /\ t.lastSequence = d.lastSequence

LEMMA EnqueueDoes ==
  ASSUME TypeOK, NEW x \in Writers, Enqueue(x)
  PROVE  /\ Only(x) /\ w[x].pc = "start" /\ w'[x].pc = "queued" /\ (w'[x].done <=> w[x].done)
         /\ w'[x].status = w[x].status /\ w'[x].left = w[x].left
<1>1. w \in [Writers -> WriterStates] /\ w[x] \in WriterStates
  BY DEF TypeOK
<1>2. w[x].pc = "start" /\ w'[x] = [w[x] EXCEPT !.pc = "queued"] /\ \A y \in Writers \ {x} : w'[y] = w[y]
  BY <1>1 DEF Enqueue
<1> QED
  BY <1>1, <1>2 DEF Only, WriterStates

LEMMA AwaitTurnDoes ==
  ASSUME TypeOK, NEW x \in Writers, AwaitTurn(x)
  PROVE  /\ Only(x) /\ w[x].pc = "queued" /\ (w'[x].done <=> w[x].done)
         /\ w'[x].status = w[x].status /\ w'[x].left = w[x].left
         /\ \/ w[x].done /\ w'[x].pc = "reply" /\ cvWait' = cvWait
            \/ ~w[x].done /\ queue[1] = x /\ w'[x].pc = "room" /\ cvWait' = cvWait
            \/ ~w[x].done /\ w'[x].pc = "queued" /\ cvWait' = cvWait \cup {x}
<1>1. w \in [Writers -> WriterStates] /\ w[x] \in WriterStates
  BY DEF TypeOK
<1>2. CASE w[x].done /\ w' = [w EXCEPT ![x].pc = "reply"] /\ cvWait' = cvWait
  <2>1. w'[x] = [w[x] EXCEPT !.pc = "reply"] /\ \A y \in Writers \ {x} : w'[y] = w[y]
    BY <1>1, <1>2
  <2> QED
    BY <2>1, <1>1, <1>2 DEF Only, WriterStates, AwaitTurn
<1>3. CASE /\ ~w[x].done /\ queue[1] = x /\ cvWait' = cvWait
           /\ w' = [w EXCEPT ![x].pc = "room", ![x].delay = x \in Batches]
  <2>1. w'[x] = [w[x] EXCEPT !.pc = "room", !.delay = x \in Batches] /\ \A y \in Writers \ {x} : w'[y] = w[y]
    BY <1>1, <1>3
  <2> QED
    BY <2>1, <1>1, <1>3 DEF Only, WriterStates, AwaitTurn
<1>4. CASE ~w[x].done /\ cvWait' = cvWait \cup {x} /\ w' = w
  BY <1>1, <1>4 DEF Only, AwaitTurn
<1> QED
  BY <1>2, <1>3, <1>4 DEF AwaitTurn

LEMMA DelayedDoes ==
  ASSUME TypeOK, NEW x \in Writers, Delayed(x)
  PROVE  /\ Only(x) /\ w[x].pc = "sleep" /\ w'[x].pc = "room" /\ (w'[x].done <=> w[x].done)
         /\ w'[x].status = w[x].status /\ w'[x].left = w[x].left
<1>1. w \in [Writers -> WriterStates] /\ w[x] \in WriterStates
  BY DEF TypeOK
<1>2. /\ w[x].pc = "sleep" /\ w'[x] = [w[x] EXCEPT !.pc = "room", !.delay = FALSE]
      /\ \A y \in Writers \ {x} : w'[y] = w[y]
  BY <1>1 DEF Delayed
<1> QED
  BY <1>1, <1>2 DEF Only, WriterStates

LEMMA LogGroupDoes ==
  ASSUME TypeOK, NEW x \in Writers, LogGroup(x)
  PROVE  /\ Only(x) /\ w[x].pc = "log" /\ (w'[x].done <=> w[x].done)
         /\ \/ /\ w'[x].pc = (IF x \in Synchronous THEN "sync" ELSE "insert")
               /\ w'[x].status = w[x].status /\ w'[x].left = GroupSeqs(x)
               /\ d'.logged = [d.logged EXCEPT ![d.logNumber] = @ \cup GroupSeqs(x)]
               /\ d'.mem = d.mem /\ d'.synced = d.synced /\ d'.tables = d.tables
               /\ d'.imm = d.imm /\ d'.logNumber = d.logNumber /\ d'.lastSequence = d.lastSequence
               /\ d'.keptLog = d.keptLog /\ d'.hasImm = d.hasImm /\ d'.level0 = d.level0
               /\ (d'.scheduled <=> d.scheduled)
            \/ w'[x].pc = "finish" /\ w'[x].status = "error" /\ d' = d
<1>1. w \in [Writers -> WriterStates] /\ w[x] \in WriterStates /\ d \in DatabaseStates
  BY DEF TypeOK
<1>2. CASE /\ d' = [d EXCEPT !.logged[d.logNumber] = @ \cup GroupSeqs(x)]
           /\ w' = [w EXCEPT ![x].pc = IF x \in Synchronous THEN "sync" ELSE "insert", ![x].left = GroupSeqs(x)]
  <2>1. /\ w'[x] = [w[x] EXCEPT !.pc = IF x \in Synchronous THEN "sync" ELSE "insert", !.left = GroupSeqs(x)]
        /\ \A y \in Writers \ {x} : w'[y] = w[y]
    BY <1>1, <1>2
  <2>2. /\ d'.logged = [d.logged EXCEPT ![d.logNumber] = @ \cup GroupSeqs(x)]
        /\ d'.mem = d.mem /\ d'.synced = d.synced /\ d'.tables = d.tables
        /\ d'.imm = d.imm /\ d'.logNumber = d.logNumber /\ d'.lastSequence = d.lastSequence
        /\ d'.keptLog = d.keptLog /\ d'.hasImm = d.hasImm /\ d'.level0 = d.level0
        /\ (d'.scheduled <=> d.scheduled)
    BY <1>1, <1>2 DEF DatabaseStates
  <2>3. /\ Only(x) /\ (w'[x].done <=> w[x].done)
        /\ w'[x].pc = (IF x \in Synchronous THEN "sync" ELSE "insert")
        /\ w'[x].status = w[x].status /\ w'[x].left = GroupSeqs(x)
    BY <2>1, <1>1 DEF Only, WriterStates
  <2> QED
    BY <2>2, <2>3 DEF LogGroup
<1>3. CASE w' = [w EXCEPT ![x].pc = "finish", ![x].status = "error"] /\ d' = d
  <2>1. /\ w'[x] = [w[x] EXCEPT !.pc = "finish", !.status = "error"]
        /\ \A y \in Writers \ {x} : w'[y] = w[y]
    BY <1>1, <1>3
  <2> QED
    BY <2>1, <1>1, <1>3 DEF Only, WriterStates, LogGroup
<1> QED
  BY <1>2, <1>3 DEF LogGroup

LEMMA SyncLogDoes ==
  ASSUME TypeOK, NEW x \in Writers, SyncLog(x)
  PROVE  /\ Only(x) /\ w[x].pc = "sync" /\ (w'[x].done <=> w[x].done) /\ w'[x].left = w[x].left
         /\ \/ /\ w'[x].pc = "insert" /\ w'[x].status = w[x].status
               /\ d'.synced = [d.synced EXCEPT ![d.logNumber] = d.logged[d.logNumber]]
               /\ d'.mem = d.mem /\ d'.logged = d.logged /\ d'.tables = d.tables
               /\ d'.imm = d.imm /\ d'.logNumber = d.logNumber /\ d'.lastSequence = d.lastSequence
               /\ d'.keptLog = d.keptLog /\ d'.hasImm = d.hasImm /\ d'.level0 = d.level0
               /\ (d'.scheduled <=> d.scheduled)
            \/ w'[x].pc = "finish" /\ w'[x].status = "sync error" /\ d' = d
<1>1. w \in [Writers -> WriterStates] /\ w[x] \in WriterStates /\ d \in DatabaseStates
  BY DEF TypeOK
<1>2. CASE /\ d' = [d EXCEPT !.synced[d.logNumber] = d.logged[d.logNumber]]
           /\ w' = [w EXCEPT ![x].pc = "insert"]
  <2>1. w'[x] = [w[x] EXCEPT !.pc = "insert"] /\ \A y \in Writers \ {x} : w'[y] = w[y]
    BY <1>1, <1>2
  <2>2. /\ d'.synced = [d.synced EXCEPT ![d.logNumber] = d.logged[d.logNumber]]
        /\ d'.mem = d.mem /\ d'.logged = d.logged /\ d'.tables = d.tables
        /\ d'.imm = d.imm /\ d'.logNumber = d.logNumber /\ d'.lastSequence = d.lastSequence
        /\ d'.keptLog = d.keptLog /\ d'.hasImm = d.hasImm /\ d'.level0 = d.level0
        /\ (d'.scheduled <=> d.scheduled)
    BY <1>1, <1>2 DEF DatabaseStates
  <2>3. /\ Only(x) /\ (w'[x].done <=> w[x].done) /\ w'[x].left = w[x].left
        /\ w'[x].pc = "insert" /\ w'[x].status = w[x].status
    BY <2>1, <1>1 DEF Only, WriterStates
  <2> QED
    BY <2>2, <2>3 DEF SyncLog
<1>3. CASE w' = [w EXCEPT ![x].pc = "finish", ![x].status = "sync error"] /\ d' = d
  <2>1. /\ w'[x] = [w[x] EXCEPT !.pc = "finish", !.status = "sync error"]
        /\ \A y \in Writers \ {x} : w'[y] = w[y]
    BY <1>1, <1>3
  <2> QED
    BY <2>1, <1>1, <1>3 DEF Only, WriterStates, SyncLog
<1> QED
  BY <1>2, <1>3 DEF SyncLog

LEMMA InsertDoes ==
  ASSUME TypeOK, NEW x \in Writers, Insert(x)
  PROVE  \E s \in w[x].left :
            /\ Only(x) /\ w[x].pc = "insert" /\ (w'[x].done <=> w[x].done)
            /\ w'[x].status = w[x].status /\ w'[x].left = w[x].left \ {s}
            /\ w'[x].pc = (IF w[x].left = {s} THEN "finish" ELSE "insert")
            /\ d'.mem = [d.mem EXCEPT ![d.logNumber] = @ \cup {s}]
            /\ d'.logged = d.logged /\ d'.synced = d.synced /\ d'.tables = d.tables
            /\ d'.imm = d.imm /\ d'.logNumber = d.logNumber /\ d'.lastSequence = d.lastSequence
            /\ d'.keptLog = d.keptLog /\ d'.hasImm = d.hasImm /\ d'.level0 = d.level0
            /\ (d'.scheduled <=> d.scheduled)
<1>1. w \in [Writers -> WriterStates] /\ w[x] \in WriterStates /\ d \in DatabaseStates
  BY DEF TypeOK
<1>2. PICK s \in w[x].left :
        /\ d' = [d EXCEPT !.mem[d.logNumber] = @ \cup {s}]
        /\ w' = [w EXCEPT ![x].left = @ \ {s}, ![x].pc = IF w[x].left = {s} THEN "finish" ELSE "insert"]
  BY DEF Insert
<1>3. /\ w'[x] = [w[x] EXCEPT !.left = @ \ {s}, !.pc = IF w[x].left = {s} THEN "finish" ELSE "insert"]
      /\ \A y \in Writers \ {x} : w'[y] = w[y]
  BY <1>1, <1>2
<1>4. /\ d'.mem = [d.mem EXCEPT ![d.logNumber] = @ \cup {s}]
      /\ d'.logged = d.logged /\ d'.synced = d.synced /\ d'.tables = d.tables
      /\ d'.imm = d.imm /\ d'.logNumber = d.logNumber /\ d'.lastSequence = d.lastSequence
      /\ d'.keptLog = d.keptLog /\ d'.hasImm = d.hasImm /\ d'.level0 = d.level0
      /\ (d'.scheduled <=> d.scheduled)
  BY <1>1, <1>2 DEF DatabaseStates
<1>5. /\ Only(x) /\ (w'[x].done <=> w[x].done)
      /\ w'[x].status = w[x].status /\ w'[x].left = w[x].left \ {s}
      /\ w'[x].pc = (IF w[x].left = {s} THEN "finish" ELSE "insert")
  BY <1>1, <1>3 DEF Only, WriterStates
<1> QED
  BY <1>4, <1>5 DEF Insert

LEMMA ReplyDoes ==
  ASSUME TypeOK, NEW x \in Writers, Reply(x)
  PROVE  /\ Only(x) /\ w[x].pc = "reply" /\ (w'[x].done <=> w[x].done) /\ w'[x].left = w[x].left
         /\ w'[x].pc \in {"reply", "returned"}
         /\ w'[x].status = w[x].status \/ (x \in Flushers /\ w'[x].status = "error")
<1>1. w \in [Writers -> WriterStates] /\ w[x] \in WriterStates
  BY DEF TypeOK
<1>2. CASE w' = w
  BY <1>1, <1>2 DEF Only, Reply
<1>3. CASE \E c \in {"error", w[x].status} :
             /\ w' = [w EXCEPT ![x].pc = "returned", ![x].status = c]
             /\ c = w[x].status \/ (x \in Flushers /\ c = "error")
  <2>1. PICK c \in {"error", w[x].status} :
             /\ w' = [w EXCEPT ![x].pc = "returned", ![x].status = c]
             /\ c = w[x].status \/ (x \in Flushers /\ c = "error")
    BY <1>3
  <2>2. /\ w'[x] = [w[x] EXCEPT !.pc = "returned", !.status = c]
        /\ \A y \in Writers \ {x} : w'[y] = w[y]
    BY <2>1, <1>1
  <2>3. /\ Only(x) /\ (w'[x].done <=> w[x].done) /\ w'[x].left = w[x].left
        /\ w'[x].pc = "returned" /\ w'[x].status = c
    BY <2>2, <1>1 DEF Only, WriterStates
  <2> QED
    BY <2>1, <2>3 DEF Reply
<1> QED
  BY <1>2, <1>3 DEF Reply

LEMMA AloneDoes ==
  ASSUME TypeOK, NEW x \in Writers, NEW c \in {"ok", "error"}, w' = Alone(x, c)
  PROVE  /\ \A y \in Writers \ {x} : w'[y] = w[y]
         /\ w'[x].seqs = w[x].seqs /\ w'[x].left = w[x].left /\ (w'[x].done <=> w[x].done)
         /\ w'[x].pc = "finish" /\ w'[x].group = <<x>> /\ w'[x].status = c
<1>1. w \in [Writers -> WriterStates] /\ w[x] \in WriterStates
  BY DEF TypeOK
<1>2. w' = [w EXCEPT ![x].pc = "finish", ![x].group = <<x>>, ![x].status = c]
  BY DEF Alone
<1>3. w'[x] = [w[x] EXCEPT !.pc = "finish", !.group = <<x>>, !.status = c] /\ \A y \in Writers \ {x} : w'[y] = w[y]
  BY <1>1, <1>2
<1> QED
  BY <1>1, <1>3 DEF WriterStates

\* A group g has started: its members are numbered.
GroupStarted(x, g) ==
    /\ Len(g) \in 1 .. Len(queue) /\ DOMAIN g = 1 .. Len(g) /\ g[1] = x
    /\ \A i \in DOMAIN g : g[i] = queue[i] /\ (g[i] \in Synchronous => x \in Synchronous)
    /\ \A i, j \in DOMAIN g : g[i] = g[j] => i = j
    /\ \A i \in DOMAIN g : w'[g[i]].seqs = NumbersOf(g, i)
    /\ \A y \in Writers : (\A i \in DOMAIN g : g[i] # y) => w'[y].seqs = w[y].seqs
    /\ \A y \in Writers \ {x} : w'[y].pc = w[y].pc /\ w'[y].group = w[y].group
    /\ \A y \in Writers :
          w'[y].status = w[y].status /\ w'[y].left = w[y].left /\ (w'[y].done <=> w[y].done)
    /\ w'[x].pc = "log" /\ w'[x].group = g

LEMMA StartGroupDoes ==
  ASSUME IInv, NEW x \in Batches, w[x].pc = "room", w' = StartGroup(x)
  PROVE  \E g \in Seq(Writers) : GroupStarted(x, g)
<1>1. TypeOK /\ QueueOK /\ x \in Writers /\ w \in [Writers -> WriterStates]
  BY DEF IInv, Batches, TypeOK
<1>2. PICK g \in Seq(Writers) :
        /\ Len(g) \in 1 .. Len(queue) /\ DOMAIN g = 1 .. Len(g)
        /\ \A i \in DOMAIN g :
             /\ g[i] = queue[i] /\ (g[i] \in Synchronous => x \in Synchronous)
             /\ \A j \in DOMAIN g : g[i] = g[j] => i = j
        /\ g[1] = x
        /\ StartGroup(x) = [AssignSequence(x, g) EXCEPT ![x].pc = "log", ![x].group = g]
  BY <1>1, GroupStarts
<1> DEFINE A == AssignSequence(x, g)
<1>3. /\ A \in [Writers -> WriterStates]
      /\ \A i \in DOMAIN g : A[g[i]] = [w[g[i]] EXCEPT !.seqs = NumbersOf(g, i)]
      /\ \A y \in Writers : (\A i \in DOMAIN g : g[i] # y) => A[y] = w[y]
  BY <1>1, <1>2, GroupNumbered, ZenonT(60)
<1>4. w' = [A EXCEPT ![x].pc = "log", ![x].group = g]
  BY <1>2
<1> HIDE DEF A
<1>5. w'[x] = [A[x] EXCEPT !.pc = "log", !.group = g] /\ \A y \in Writers \ {x} : w'[y] = A[y]
  BY <1>1, <1>3, <1>4
<1>6. ASSUME NEW y \in Writers
      PROVE  /\ w'[y].seqs = A[y].seqs /\ w'[y].left = A[y].left /\ w'[y].status = A[y].status
             /\ w'[y].done <=> A[y].done
             /\ y # x => w'[y].pc = A[y].pc /\ w'[y].group = A[y].group
             /\ y = x => w'[y].pc = "log" /\ w'[y].group = g
  <2>1. A[y] \in WriterStates
    BY <1>3
  <2>2. CASE y = x
    <3>1. w'[y] = [A[y] EXCEPT !.pc = "log", !.group = g]
      BY <2>2, <1>5
    <3> QED
      BY <2>1, <2>2, <3>1 DEF WriterStates
  <2>3. CASE y # x
    BY <2>1, <2>3, <1>5
  <2> QED
    BY <2>2, <2>3
<1>7. ASSUME NEW i \in DOMAIN g
      PROVE  /\ A[g[i]].seqs = NumbersOf(g, i) /\ A[g[i]].left = w[g[i]].left
             /\ A[g[i]].status = w[g[i]].status /\ A[g[i]].pc = w[g[i]].pc
             /\ A[g[i]].group = w[g[i]].group /\ (A[g[i]].done <=> w[g[i]].done)
  <2>1. w[g[i]] \in WriterStates
    BY <1>1
  <2> QED
    BY <2>1, <1>3, ZenonT(60) DEF WriterStates
<1>8. ASSUME NEW y \in Writers
      PROVE  /\ A[y].left = w[y].left /\ A[y].status = w[y].status /\ A[y].pc = w[y].pc
             /\ A[y].group = w[y].group /\ (A[y].done <=> w[y].done)
             /\ (\A i \in DOMAIN g : g[i] # y) => A[y].seqs = w[y].seqs
  <2>1. CASE \E i \in DOMAIN g : g[i] = y
    BY <2>1, <1>7
  <2>2. CASE \A i \in DOMAIN g : g[i] # y
    BY <2>2, <1>3
  <2> QED
    BY <2>1, <2>2
<1>9. \A i \in DOMAIN g : g[i] \in Writers /\ w'[g[i]].seqs = NumbersOf(g, i)
  BY <1>6, <1>7
<1>10. /\ \A y \in Writers \ {x} : w'[y].pc = w[y].pc /\ w'[y].group = w[y].group
       /\ \A y \in Writers :
             w'[y].status = w[y].status /\ w'[y].left = w[y].left /\ (w'[y].done <=> w[y].done)
       /\ w'[x].pc = "log" /\ w'[x].group = g
       /\ \A y \in Writers : (\A i \in DOMAIN g : g[i] # y) => w'[y].seqs = w[y].seqs
  BY <1>1, <1>6, <1>8
<1> QED
  BY <1>2, <1>9, <1>10, ZenonT(60) DEF GroupStarted

LEMMA FinishGroupDoes ==
  ASSUME TypeOK, QueueOK, NEW x \in Writers, FinishGroup(x)
  PROVE  /\ w[x].pc = "finish"
         /\ \A y \in Writers :
               w'[y].seqs = w[y].seqs /\ w'[y].group = w[y].group /\ w'[y].left = w[y].left
         /\ \A y \in Writers \ Range(w[x].group) : w'[y] = w[y]
         /\ \A y \in Range(w[x].group) :
               /\ y \in Writers /\ w'[y].done
               /\ w'[y].status = (IF w[x].status = "ok" THEN "ok" ELSE "error")
               /\ w'[y].pc = (IF y = x THEN "reply" ELSE w[y].pc)
<1>1. w \in [Writers -> WriterStates] /\ Range(w[x].group) \subseteq Writers
  BY WriterFields DEF TypeOK
<1>2. w[x].pc = "finish" /\
      w' = [y \in Writers |->
               IF y \notin Range(w[x].group) THEN w[y]
               ELSE [w[y] EXCEPT !.status = IF w[x].status = "ok" THEN "ok" ELSE "error",
                                 !.done = TRUE, !.pc = IF y = x THEN "reply" ELSE @]]
  BY DEF FinishGroup
<1>3. ASSUME NEW y \in Range(w[x].group)
      PROVE  /\ w'[y].seqs = w[y].seqs /\ w'[y].group = w[y].group /\ w'[y].left = w[y].left
             /\ y \in Writers /\ w'[y].done
             /\ w'[y].status = (IF w[x].status = "ok" THEN "ok" ELSE "error")
             /\ w'[y].pc = (IF y = x THEN "reply" ELSE w[y].pc)
  <2>1. y \in Writers /\ w[y] \in WriterStates
    BY <1>1
  <2>2. w'[y] = [w[y] EXCEPT !.status = IF w[x].status = "ok" THEN "ok" ELSE "error",
                             !.done = TRUE, !.pc = IF y = x THEN "reply" ELSE @]
    BY <2>1, <1>2
  <2> QED
    BY <2>1, <2>2 DEF WriterStates
<1>4. \A y \in Writers \ Range(w[x].group) : w'[y] = w[y]
  BY <1>2
<1> QED
  BY <1>2, <1>3, <1>4

-----------------------------------------------------------------------------
(* The queue.                                                              *)

\* Only x moves on, and the queue stays.
LEMMA OneMoves ==
  ASSUME QueueOK, NEW x \in Writers, queue' = queue, Waiting(x)' <=> Waiting(x),
         \A y \in Writers \ {x} :
            /\ w'[y].pc = w[y].pc /\ w'[y].status = w[y].status /\ w'[y].group = w[y].group
            /\ w'[y].done <=> w[y].done,
         cvWait' \subseteq {y \in Writers : Waiting(y)'},
         WriterOK(x)'
  PROVE  QueueOK'
<1>1. \A y \in Writers : Waiting(y)' <=> Waiting(y)
  BY DEF Waiting
<1>2. ASSUME NEW y \in Writers \ {x} PROVE WriterOK(y)'
  <2>1. WriterOK(y)
    BY DEF QueueOK
  <2>2. AtFront(y) => AtFront(y)'
    BY DEF AtFront
  <2>3. /\ w'[y].pc = w[y].pc /\ w'[y].status = w[y].status
        /\ w'[y].done <=> w[y].done
    OBVIOUS
  <2> QED
    BY <2>1, <2>2, <2>3 DEF WriterOK
<1>3. \A y \in Writers : WriterOK(y)'
  BY <1>2
<1> QED
  BY <1>1, <1>3 DEF QueueOK

LEMMA QueueKept ==
  ASSUME IInv, [Next]_vars
  PROVE  QueueOK'
<1>1. /\ w \in [Writers -> WriterStates] /\ queue \in Seq(Writers) /\ TypeOK /\ QueueOK
  BY DEF IInv, TypeOK
<1>2. cvWait \subseteq {y \in Writers : Waiting(y)} /\ \A y \in Writers : WriterOK(y)
  BY <1>1 DEF QueueOK
<1>3. ASSUME NEW x \in Writers, Enqueue(x) PROVE QueueOK'
  <2>1. /\ queue' = Append(queue, x) /\ cvWait' = cvWait /\ w[x].pc = "start"
        /\ \A y \in Writers \ {x} : w'[y] = w[y]
    BY <1>1, <1>3, EnqueueDoes DEF Enqueue, Only
  <2>2. w'[x].pc = "queued" /\ ~w'[x].done /\ ~w[x].done /\ w'[x].status = "ok"
    BY <1>1, <1>2, <1>3, EnqueueDoes, ZenonT(60) DEF WriterOK
  <2>3. \A y \in Writers : Waiting(y)' <=> Waiting(y) \/ y = x
    BY <2>1, <2>2 DEF Waiting
  <2>4. ~Waiting(x) /\ \A i \in DOMAIN queue : queue[i] # x
    BY <2>1, <1>1 DEF QueueOK, Waiting, Steps
  <2>5. /\ Len(queue') = Len(queue) + 1 /\ queue'[Len(queue) + 1] = x
        /\ DOMAIN queue' = DOMAIN queue \cup {Len(queue) + 1}
        /\ \A i \in DOMAIN queue : queue'[i] = queue[i] /\ i # Len(queue) + 1
    BY <2>1, <1>1
  <2>6. \A i, j \in DOMAIN queue' : queue'[i] = queue'[j] => i = j
    BY <2>4, <2>5, <1>1 DEF QueueOK
  <2>7. \A y \in Writers : Waiting(y)' <=> \E i \in DOMAIN queue' : queue'[i] = y
    BY <2>3, <2>5, <1>1 DEF QueueOK
  <2>8. WriterOK(x)'
    BY <2>2 DEF WriterOK, Steps
  <2>9. ASSUME NEW y \in Writers \ {x} PROVE WriterOK(y)'
    <3>1. WriterOK(y) /\ w'[y] = w[y] /\ Len(queue) <= Len(queue') /\ Len(queue) \in Nat /\ Len(queue') \in Nat
      BY <2>1, <2>5, <1>1, <1>2
    <3>2. queue # <<>> => queue' # <<>> /\ queue'[1] = queue[1]
      BY <2>5, <1>1
    <3>3. w[y].group \in Seq(Writers)
      BY <1>1, WriterFields
    <3>4. AtFront(y) => AtFront(y)'
      <4> SUFFICES ASSUME AtFront(y) PROVE AtFront(y)'
        OBVIOUS
      <4>1. \A i \in DOMAIN w[y].group : i \in DOMAIN queue
        BY <3>3, <1>1 DEF AtFront
      <4> QED
        BY <4>1, <3>1, <3>3, <2>5 DEF AtFront
    <3> QED
      BY <3>1, <3>2, <3>4 DEF WriterOK
  <2>10. cvWait' \subseteq {y \in Writers : Waiting(y)'}
    BY <2>1, <2>3, <1>2
  <2> QED
    BY <2>6, <2>7, <2>8, <2>9, <2>10 DEF QueueOK
<1>4. ASSUME NEW x \in Writers, AwaitTurn(x) PROVE QueueOK'
  <2>1. /\ Only(x) /\ w[x].pc = "queued" /\ (w'[x].done <=> w[x].done) /\ w'[x].status = w[x].status
        /\ \/ w[x].done /\ w'[x].pc = "reply" /\ cvWait' = cvWait
           \/ ~w[x].done /\ queue[1] = x /\ w'[x].pc = "room" /\ cvWait' = cvWait
           \/ ~w[x].done /\ w'[x].pc = "queued" /\ cvWait' = cvWait \cup {x}
        /\ queue' = queue
    BY <1>1, <1>4, AwaitTurnDoes DEF AwaitTurn
  <2>2. Waiting(x)' <=> Waiting(x)
    BY <2>1 DEF Waiting, Steps
  <2>3. Waiting(x) => queue # <<>>
    BY <1>1 DEF QueueOK
  <2>4. WriterOK(x)'
    BY <2>1, <2>3, <1>2, ZenonT(60) DEF WriterOK, Waiting, Steps
  <2>5. cvWait' \subseteq {y \in Writers : Waiting(y)'}
    <3>1. \A y \in Writers : Waiting(y)' <=> Waiting(y)
      BY <2>1, <2>2 DEF Only, Waiting
    <3>2. ~w[x].done => Waiting(x)
      BY <2>1 DEF Waiting
    <3> QED
      BY <2>1, <3>1, <3>2, <1>2
  <2> QED
    BY <2>1, <2>2, <2>4, <2>5, <1>1, OneMoves DEF Only
<1>5. ASSUME NEW x \in Writers, Delayed(x) \/ LogGroup(x) \/ SyncLog(x) \/ Insert(x)
      PROVE  QueueOK'
  <2>1. /\ Only(x) /\ (w'[x].done <=> w[x].done) /\ queue' = queue /\ cvWait' = cvWait
        /\ w[x].pc \in {"sleep", "log", "sync", "insert"}
        /\ IF w[x].pc = "sleep" THEN w'[x].pc = "room" ELSE w'[x].pc \in {"sync", "insert", "finish"}
        /\ w'[x].pc # "finish" => w'[x].status = w[x].status
    <3>1. CASE Delayed(x)
      BY <3>1, <1>1, DelayedDoes DEF Delayed
    <3>2. CASE LogGroup(x)
      BY <3>2, <1>1, LogGroupDoes DEF LogGroup
    <3>3. CASE SyncLog(x)
      BY <3>3, <1>1, SyncLogDoes DEF SyncLog
    <3>4. CASE Insert(x)
      BY <3>4, <1>1, InsertDoes DEF Insert
    <3> QED
      BY <1>5, <3>1, <3>2, <3>3, <3>4
  <2>2. ~w[x].done /\ Waiting(x) /\ Waiting(x)'
    BY <2>1, <1>2 DEF WriterOK, Waiting, Steps
  <2>3. AtFront(x) => AtFront(x)'
    BY <2>1 DEF AtFront, Only
  <2>4. WriterOK(x)'
    BY <2>1, <2>2, <2>3, <1>2 DEF WriterOK, Steps
  <2>5. cvWait' \subseteq {y \in Writers : Waiting(y)'}
    BY <2>1, <2>2, <1>2 DEF Only, Waiting
  <2> QED
    BY <2>1, <2>2, <2>4, <2>5, <1>1, OneMoves DEF Only
<1>6. ASSUME NEW x \in Writers, Reply(x) PROVE QueueOK'
  <2>1. /\ Only(x) /\ (w'[x].done <=> w[x].done) /\ queue' = queue /\ cvWait' = cvWait
        /\ w[x].pc = "reply" /\ w'[x].pc \in {"reply", "returned"}
        /\ w'[x].status = w[x].status \/ w'[x].status = "error"
    BY <1>1, <1>6, ReplyDoes DEF Reply
  <2>2. w[x].done /\ ~Waiting(x) /\ ~Waiting(x)'
    BY <2>1, <1>2 DEF WriterOK, Waiting, Steps
  <2>3. WriterOK(x)'
    BY <2>1, <2>2, <1>2 DEF WriterOK, Steps
  <2>4. cvWait' \subseteq {y \in Writers : Waiting(y)'}
    BY <2>1, <2>2, <1>2 DEF Only, Waiting
  <2> QED
    BY <2>1, <2>2, <2>3, <2>4, <1>1, OneMoves DEF Only
<1>7. ASSUME NEW x \in Writers, MakeRoomForWrite(x) PROVE QueueOK'
  <2>1. Started(x) /\ queue' = queue /\ cvWait' = cvWait /\ w[x].pc = "room"
    BY <1>7, RoomEffect DEF MakeRoomForWrite
  <2>2. ~w[x].done /\ queue # <<>> /\ queue[1] = x /\ w[x].status = "ok"
    BY <2>1, <1>2 DEF WriterOK
  <2>3. ASSUME /\ \A y \in Writers \ {x} :
                     /\ w'[y].pc = w[y].pc /\ w'[y].status = w[y].status /\ w'[y].group = w[y].group
                     /\ w'[y].done <=> w[y].done,
               w'[x].pc \in {"room", "sleep", "log", "finish"}, w'[x].done <=> w[x].done,
               w'[x].pc # "finish" => w'[x].status = w[x].status,
               w'[x].pc \in Steps => AtFront(x)'
        PROVE  QueueOK'
    <3>1. Waiting(x) /\ Waiting(x)' /\ \A y \in Writers : Waiting(y)' <=> Waiting(y)
      BY <2>1, <2>2, <2>3 DEF Waiting, Steps
    <3>2. WriterOK(x)'
      BY <2>1, <2>2, <2>3 DEF WriterOK, Steps
    <3>3. cvWait' \subseteq {y \in Writers : Waiting(y)'}
      BY <2>1, <3>1, <1>2
    <3> QED
      BY <2>1, <2>3, <3>1, <3>2, <3>3, <1>1, OneMoves
  <2>4. CASE w' = w
    BY <2>1, <2>3, <2>4 DEF Steps
  <2>5. CASE w' = [w EXCEPT ![x].pc = "sleep"]
    <3>1. /\ \A y \in Writers \ {x} : w'[y] = w[y]
          /\ w'[x].pc = "sleep" /\ (w'[x].done <=> w[x].done) /\ w'[x].status = w[x].status
      <4>1. w[x] \in WriterStates /\ w'[x] = [w[x] EXCEPT !.pc = "sleep"]
        BY <2>5, <1>1
      <4> QED
        BY <4>1, <2>5, <1>1 DEF WriterStates
    <3> QED
      BY <3>1, <2>3 DEF Steps
  <2>6. ASSUME NEW c \in {"ok", "error"}, w' = Alone(x, c) PROVE QueueOK'
    <3>1. /\ \A y \in Writers \ {x} : w'[y] = w[y]
          /\ w'[x].pc = "finish" /\ (w'[x].done <=> w[x].done) /\ w'[x].group = <<x>>
      BY <2>6, <1>1, AloneDoes
    <3>2. AtFront(x)'
      <4>1. Len(queue) >= 1
        BY <2>2, <1>1
      <4> QED
        BY <4>1, <3>1, <2>1, <2>2 DEF AtFront
    <3> QED
      BY <3>1, <3>2, <2>3
  <2>7. CASE x \in Batches /\ w' = StartGroup(x)
    <3>1. PICK g \in Seq(Writers) : GroupStarted(x, g)
      BY <2>1, <2>7, StartGroupDoes
    <3>2. AtFront(x)'
      BY <3>1, <2>1, <1>1 DEF GroupStarted, AtFront
    <3> QED
      BY <3>1, <3>2, <2>2, <2>3 DEF GroupStarted
  <2> QED
    BY <2>1, <2>4, <2>5, <2>6, <2>7 DEF Started
<1>8. ASSUME NEW x \in Writers, FinishGroup(x) PROVE QueueOK'
  <2> DEFINE n == Len(w[x].group)
  <2>1. /\ w[x].pc = "finish"
        /\ \A y \in Writers \ Range(w[x].group) : w'[y] = w[y]
        /\ \A y \in Range(w[x].group) :
               /\ y \in Writers /\ w'[y].done
               /\ w'[y].status = (IF w[x].status = "ok" THEN "ok" ELSE "error")
               /\ w'[y].pc = (IF y = x THEN "reply" ELSE w[y].pc)
    BY <1>1, <1>8, FinishGroupDoes
  <2>2. /\ n \in 1 .. Len(queue) /\ Len(queue') = Len(queue) - n
        /\ \A i \in DOMAIN queue' : queue'[i] = queue[n + i]
        /\ Range(w[x].group) = {queue[i] : i \in 1 .. n}
        /\ queue' \in Seq(Writers)
    BY <1>8, FinishEffect DEF TypeOK
  <2>3. queue # <<>> /\ queue[1] = x /\ x \in Range(w[x].group)
    BY <2>1, <2>2, <1>1, GroupLeads DEF Steps
  <2>4. cvWait' = cvWait \ NotifyWriters(x, queue') /\ Range(w[x].group) \subseteq NotifyWriters(x, queue')
    BY <1>8 DEF FinishGroup, NotifyWriters
  <2> HIDE DEF n
  <2>5. \A i, j \in DOMAIN queue : queue[i] = queue[j] => i = j
    BY <1>1 DEF QueueOK
  <2>6. \A i, j \in DOMAIN queue' : queue'[i] = queue'[j] => i = j
    <3>1. \A i \in DOMAIN queue' : n + i \in DOMAIN queue
      BY <2>2, <1>1
    <3> QED
      BY <3>1, <2>2, <2>5
  <2>7. ASSUME NEW y \in Range(w[x].group)
        PROVE  y \in Writers /\ ~Waiting(y)' /\ WriterOK(y)' /\ \A i \in DOMAIN queue' : queue'[i] # y
    <3>1. PICK k \in 1 .. n : queue[k] = y
      BY <2>2
    <3>2. \A i \in DOMAIN queue' : queue'[i] # y
      <4> TAKE i \in DOMAIN queue'
      <4>1. n + i \in DOMAIN queue /\ k \in DOMAIN queue /\ n + i # k
        <5>1. DOMAIN queue' = 1 .. Len(queue') /\ Len(queue) \in Nat /\ DOMAIN queue = 1 .. Len(queue)
          BY <2>2, <1>1, SMTT(30)
        <5>2. i \in 1 .. (Len(queue) - n)
          BY <5>1, <2>2
        <5>3. n \in Nat /\ n <= Len(queue)
          BY <2>2
        <5>4. n + i \in 1 .. Len(queue) /\ k \in 1 .. Len(queue) /\ n + i # k
          BY <5>1, <5>2, <5>3, <3>1
        <5> QED
          BY <5>1, <5>4
      <4> QED
        BY <4>1, <3>1, <2>2, <2>5
    <3>3. w'[y].pc = "reply" \/ w'[y].pc = "queued"
      <4>1. CASE y = x
        BY <4>1, <2>1
      <4>2. CASE y # x
        <5>1. Waiting(y) /\ WriterOK(y)
          <6>1. k \in DOMAIN queue
            BY <2>2, <3>1, <1>1
          <6> QED
            BY <6>1, <3>1, <2>1, <1>1, <1>2 DEF QueueOK
        <5>2. w[y].pc = "queued"
          BY <4>2, <5>1, <2>3 DEF Waiting, WriterOK
        <5> QED
          BY <5>2, <2>1, <4>2
      <4> QED
        BY <4>1, <4>2
    <3>4. y \in Writers /\ w'[y].done /\ w'[y].status # "sync error"
      BY <2>1
    <3>5. ~Waiting(y)' /\ WriterOK(y)'
      BY <3>3, <3>4 DEF Waiting, WriterOK, Steps
    <3> QED
      BY <3>2, <3>4, <3>5
  <2>8. ASSUME NEW y \in Writers \ Range(w[x].group)
        PROVE  WriterOK(y)' /\ (Waiting(y)' <=> Waiting(y))
               /\ (Waiting(y)' <=> \E i \in DOMAIN queue' : queue'[i] = y)
    <3>1. w'[y] = w[y] /\ y # x /\ WriterOK(y)
      BY <2>1, <2>3, <1>2
    <3>2. WriterOK(y)'
      BY <3>1, <2>3 DEF WriterOK
    <3>3. Waiting(y)' <=> Waiting(y)
      BY <3>1 DEF Waiting
    <3>4. (\E i \in DOMAIN queue : queue[i] = y) <=> (\E i \in DOMAIN queue' : queue'[i] = y)
      <4>1. ASSUME NEW i \in DOMAIN queue, queue[i] = y PROVE \E j \in DOMAIN queue' : queue'[j] = y
        <5>1. i > n
          BY <4>1, <2>2, <1>1
        <5>2. i - n \in DOMAIN queue' /\ n + (i - n) = i
          BY <5>1, <2>2, <1>1, SMTT(30)
        <5> QED
          BY <5>2, <4>1, <2>2
      <4>2. ASSUME NEW j \in DOMAIN queue', queue'[j] = y PROVE \E i \in DOMAIN queue : queue[i] = y
        <5>1. n + j \in DOMAIN queue
          BY <2>2, <1>1, SMTT(30)
        <5> QED
          BY <5>1, <4>2, <2>2
      <4> QED
        BY <4>1, <4>2
    <3> QED
      BY <3>2, <3>3, <3>4, <1>1 DEF QueueOK
  <2>9. cvWait' \subseteq {y \in Writers : Waiting(y)'}
    BY <2>4, <2>7, <2>8, <1>2
  <2>10. \A y \in Writers : WriterOK(y)' /\ (Waiting(y)' <=> \E i \in DOMAIN queue' : queue'[i] = y)
    BY <2>7, <2>8
  <2> QED
    BY <2>6, <2>9, <2>10 DEF QueueOK
<1>9. ASSUME UNCHANGED <<w, queue, cvWait>> PROVE QueueOK'
  <2>1. ASSUME NEW y \in Writers PROVE WriterOK(y)' /\ (Waiting(y)' <=> Waiting(y))
    <3>1. w'[y] = w[y] /\ queue' = queue /\ WriterOK(y)
      BY <1>2, <1>9
    <3>2. AtFront(y) => AtFront(y)'
      BY <3>1 DEF AtFront
    <3> QED
      BY <3>1, <3>2 DEF WriterOK, Waiting
  <2> QED
    BY <2>1, <1>1, <1>9 DEF QueueOK
<1>10. CASE UNCHANGED vars
  BY <1>9, <1>10 DEF vars
<1>11. ASSUME NEW r \in Readers, Get(r) \/ Lookup(r) PROVE QueueOK'
  BY <1>9, <1>11 DEF Get, Lookup
<1>12. CASE Elsewhere
  BY <1>9, <1>12, ElsewhereEffect
<1> QED
  BY <1>3, <1>4, <1>5, <1>6, <1>7, <1>8, <1>10, <1>11, <1>12 DEF Next, Elsewhere

-----------------------------------------------------------------------------
(* The numbers.                                                            *)

\* No writer is numbered, and no group starts or ends.
LEMMA NumbersStay ==
  ASSUME TypeOK, NumbersOK, d'.lastSequence = d.lastSequence,
         \A y \in Writers :
            /\ w'[y].seqs = w[y].seqs /\ w'[y].group = w[y].group
            /\ w'[y].pc \in Steps <=> w[y].pc \in Steps
            /\ w[y].seqs # {} => (Waiting(y)' <=> Waiting(y))
            /\ w'[y].pc \in {"log", "sync", "insert"} => w[y].pc \in {"log", "sync", "insert"}
            /\ w'[y].pc = "start" => w[y].pc = "start"
            /\ w'[y].status = "ok" => w[y].status = "ok"
            /\ w'[y].done <=> w[y].done
  PROVE  NumbersOK'
<1>1. ASSUME NEW x \in Writers PROVE NumberOK(x)'
  <2>1. NumberOK(x)
    BY DEF NumbersOK
  <2>2. InGroup(x) => InGroup(x)'
    BY DEF InGroup
  <2>3. w[x].pc \in Steps => GroupNumbers(x)'
    <3> SUFFICES ASSUME w[x].pc \in Steps PROVE GroupNumbers(x)'
      OBVIOUS
    <3>1. GroupNumbers(x)
      BY <2>1 DEF NumberOK
    <3>2. \A g \in Seq(Writers), i \in Nat : NumbersOf(g, i)' = NumbersOf(g, i)
      BY DEF NumbersOf
    <3>3. w[x].group \in Seq(Writers) /\ \A i \in DOMAIN w[x].group : i \in Nat /\ w[x].group[i] \in Writers
      <4>1. w[x].group \in Seq(Writers)
        BY WriterFields DEF TypeOK
      <4> QED
        BY <4>1
    <3>4. CASE w[x].seqs = {}
      BY <3>1, <3>4 DEF GroupNumbers
    <3>5. CASE w[x].seqs # {}
      <4> DEFINE g == w[x].group
      <4>1. \A i \in DOMAIN g : w[g[i]].seqs = NumbersOf(g, i)
        BY <3>1, <3>5 DEF GroupNumbers
      <4>2. w'[x].group = g
        OBVIOUS
      <4>3. \A i \in DOMAIN g : w'[g[i]].seqs = NumbersOf(g, i)'
        BY <4>1, <3>2, <3>3
      <4> QED
        BY <4>2, <4>3, <3>5 DEF GroupNumbers
    <3> QED
      BY <3>4, <3>5
  <2>4. Waiting(x)' /\ w'[x].seqs # {} => InGroup(x)' /\ \A s \in w'[x].seqs : d'.lastSequence < s
    BY <2>1, <2>2 DEF NumberOK
  <2>5. ~Waiting(x)' => \A s \in w'[x].seqs : s <= d'.lastSequence
    BY <2>1 DEF NumberOK
  <2> QED
    BY <2>1, <2>3, <2>4, <2>5 DEF NumberOK
<1>2. \A x, y \in Writers : x # y => Before(x, y)' \/ Before(y, x)'
  BY DEF NumbersOK, Before
<1> QED
  BY <1>1, <1>2 DEF NumbersOK

\* While no group is written no waiting writer is numbered.
LEMMA NoneNumbered ==
  ASSUME QueueOK, NumbersOK, NEW x \in Writers, queue[1] = x, w[x].pc \notin Steps
  PROVE  \A y \in Writers : /\ Waiting(y) => w[y].seqs = {}
                            /\ w[y].pc \notin Steps
<1>1. \A y \in Writers : w[y].pc \notin Steps
  BY DEF QueueOK, WriterOK
<1>2. \A y \in Writers : NumberOK(y)
  BY DEF NumbersOK
<1> QED
  BY <1>1, <1>2 DEF NumberOK, InGroup

LEMMA NumbersKept ==
  ASSUME IInv, [Next]_vars
  PROVE  NumbersOK'
<1>1. /\ w \in [Writers -> WriterStates] /\ TypeOK /\ QueueOK /\ NumbersOK
      /\ d.lastSequence \in Nat
  BY DatabaseFields DEF IInv, TypeOK
<1>2. \A y \in Writers : WriterOK(y) /\ NumberOK(y)
  BY <1>1 DEF QueueOK, NumbersOK
<1>3. ASSUME NEW x \in Writers, Enqueue(x) PROVE NumbersOK'
  <2>1. /\ Only(x) /\ w[x].pc = "start" /\ w'[x].pc = "queued" /\ (w'[x].done <=> w[x].done)
        /\ w'[x].status = w[x].status /\ d' = d
    BY <1>1, <1>3, EnqueueDoes DEF Enqueue
  <2>2. w[x].seqs = {}
    BY <2>1, <1>2 DEF NumberOK
  <2> QED
    BY <2>1, <2>2, <1>1, NumbersStay DEF Only, Waiting, Steps
<1>4. ASSUME NEW x \in Writers, AwaitTurn(x) PROVE NumbersOK'
  <2>1. /\ Only(x) /\ w[x].pc = "queued" /\ (w'[x].done <=> w[x].done) /\ w'[x].status = w[x].status
        /\ \/ w[x].done /\ w'[x].pc = "reply"
           \/ ~w[x].done /\ w'[x].pc = "room"
           \/ ~w[x].done /\ w'[x].pc = "queued"
        /\ d' = d
    BY <1>1, <1>4, AwaitTurnDoes DEF AwaitTurn
  <2> QED
    BY <2>1, <1>1, NumbersStay DEF Only, Waiting, Steps
<1>5. ASSUME NEW x \in Writers, Delayed(x) PROVE NumbersOK'
  <2>1. /\ Only(x) /\ w[x].pc = "sleep" /\ w'[x].pc = "room" /\ (w'[x].done <=> w[x].done)
        /\ w'[x].status = w[x].status /\ d' = d
    BY <1>1, <1>5, DelayedDoes DEF Delayed
  <2> QED
    BY <2>1, <1>1, NumbersStay DEF Only, Waiting, Steps
<1>6. ASSUME NEW x \in Writers, LogGroup(x) \/ SyncLog(x) \/ Insert(x) PROVE NumbersOK'
  <2>1. /\ Only(x) /\ w[x].pc \in {"log", "sync", "insert"} /\ w'[x].pc \in {"sync", "insert", "finish"}
        /\ (w'[x].done <=> w[x].done) /\ (w'[x].status = "ok" => w[x].status = "ok")
        /\ d'.lastSequence = d.lastSequence
    <3>1. CASE LogGroup(x)
      BY <3>1, <1>1, LogGroupDoes
    <3>2. CASE SyncLog(x)
      BY <3>2, <1>1, SyncLogDoes
    <3>3. CASE Insert(x)
      BY <3>3, <1>1, InsertDoes
    <3> QED
      BY <1>6, <3>1, <3>2, <3>3
  <2> QED
    BY <2>1, <1>1, NumbersStay DEF Only, Waiting, Steps
<1>7. ASSUME NEW x \in Writers, Reply(x) PROVE NumbersOK'
  <2>1. /\ Only(x) /\ w[x].pc = "reply" /\ w'[x].pc \in {"reply", "returned"}
        /\ (w'[x].done <=> w[x].done) /\ (w'[x].status = "ok" => w[x].status = "ok") /\ d' = d
    BY <1>1, <1>7, ReplyDoes DEF Reply
  <2> QED
    BY <2>1, <1>1, NumbersStay DEF Only, Waiting, Steps
<1>8. ASSUME w' = w, d'.lastSequence = d.lastSequence PROVE NumbersOK'
  BY <1>1, <1>8, NumbersStay DEF Waiting
<1>9. ASSUME NEW x \in Writers, MakeRoomForWrite(x) PROVE NumbersOK'
  <2>1. Started(x) /\ d'.lastSequence = d.lastSequence /\ w[x].pc = "room" /\ queue' = queue
    BY <1>9, RoomEffect DEF MakeRoomForWrite, SameOrSwitched
  <2>2. queue # <<>> /\ queue[1] = x /\ ~w[x].done /\ Waiting(x)
    BY <2>1, <1>2 DEF WriterOK, Waiting
  <2>3. \A y \in Writers : (Waiting(y) => w[y].seqs = {}) /\ w[y].pc \notin Steps
    BY <2>1, <2>2, <1>1, NoneNumbered DEF Steps
  <2>4. CASE w' = w
    BY <2>1, <2>4, <1>8
  <2>5. CASE w' = [w EXCEPT ![x].pc = "sleep"]
    <3>1. w'[x] = [w[x] EXCEPT !.pc = "sleep"] /\ w[x] \in WriterStates /\ \A y \in Writers \ {x} : w'[y] = w[y]
      BY <2>5, <1>1
    <3>2. /\ w'[x].pc = "sleep" /\ (w'[x].done <=> w[x].done) /\ w'[x].status = w[x].status
          /\ w'[x].seqs = w[x].seqs /\ w'[x].group = w[x].group
      BY <3>1 DEF WriterStates
    <3> QED
      BY <3>1, <3>2, <2>1, <1>1, NumbersStay DEF Waiting, Steps
  <2>6. ASSUME NEW c \in {"ok", "error"}, w' = Alone(x, c), c = "ok" => x \notin Batches PROVE NumbersOK'
    <3>1. /\ \A y \in Writers \ {x} : w'[y] = w[y]
          /\ w'[x].seqs = w[x].seqs /\ (w'[x].done <=> w[x].done)
          /\ w'[x].pc = "finish" /\ w'[x].group = <<x>> /\ w'[x].status = c
      BY <2>6, <1>1, AloneDoes
    <3>2. ASSUME NEW y \in Writers PROVE NumberOK(y)'
      <4>1. CASE y = x
        BY <4>1, <3>1, <2>2, <2>3, <2>6 DEF NumberOK, GroupNumbers, Waiting, Steps
      <4>2. CASE y # x
        <5>1. w'[y] = w[y] /\ NumberOK(y)
          BY <4>2, <3>1, <1>2
        <5>2. (Waiting(y)' <=> Waiting(y)) /\ w[y].pc \notin Steps /\ (Waiting(y) => w[y].seqs = {})
          BY <5>1, <2>3 DEF Waiting
        <5> QED
          BY <5>1, <5>2, <2>1 DEF NumberOK, Steps
      <4> QED
        BY <4>1, <4>2
    <3>3. \A y, z \in Writers : y # z => Before(y, z)' \/ Before(z, y)'
      <4>1. \A y \in Writers : w'[y].seqs = w[y].seqs
        BY <3>1
      <4> QED
        BY <4>1, <1>1 DEF NumbersOK, Before
    <3> QED
      BY <3>2, <3>3 DEF NumbersOK
  <2>7. CASE x \in Batches /\ w' = StartGroup(x)
    <3>1. PICK g \in Seq(Writers) : GroupStarted(x, g)
      BY <2>1, <2>7, StartGroupDoes
    <3> USE DEF GroupStarted
    <3>2. \A i \in DOMAIN g :
            /\ NumbersOf(g, i) \in SUBSET Nat
            /\ \A s \in NumbersOf(g, i) : d.lastSequence < s
            /\ NumbersOf(g, i) = {} <=> Updates[g[i]] = 0
            /\ \A j \in DOMAIN g : i < j => \A s \in NumbersOf(g, i), t \in NumbersOf(g, j) : s < t
      BY <1>1, NumbersOrdered
    <3>3. \A y \in Writers : (\A i \in DOMAIN g : g[i] # y) => w'[y].seqs = w[y].seqs
      BY <3>1
    <3>4. \A i \in DOMAIN g : w'[g[i]].seqs = NumbersOf(g, i) /\ g[i] \in Writers /\ Waiting(g[i])
      <4> TAKE i \in DOMAIN g
      <4>1. i \in DOMAIN queue /\ queue[i] = g[i] /\ g[i] \in Writers
        BY <3>1, <1>1 DEF TypeOK
      <4> QED
        BY <4>1, <3>1, <1>1 DEF QueueOK
    <3>5. \A y \in Writers : Waiting(y)' <=> Waiting(y)
      BY <3>1, <2>1 DEF Waiting, Steps
    <3>6. w'[x].pc = "log" /\ w'[x].group = g /\ 1 \in DOMAIN g /\ g[1] = x /\ \A y \in Writers \ {x} : w'[y].pc = w[y].pc
      BY <3>1
    <3>7. \A y \in Writers : w'[y].status = w[y].status /\ (w'[y].done <=> w[y].done)
      BY <3>1
    <3>8. w'[x].seqs # {}
      BY <3>2, <3>4, <3>6, <2>7 DEF Batches
    <3> HIDE DEF GroupStarted
    <3>9. ASSUME NEW y \in Writers PROVE NumberOK(y)'
      <4>1. NumberOK(y)
        BY <1>2
      <4>2. CASE \E i \in DOMAIN g : g[i] = y
        <5>1. PICK i \in DOMAIN g : g[i] = y
          BY <4>2
        <5>2. /\ Waiting(y) /\ Waiting(y)' /\ ~w[y].done /\ w'[y].pc # "start"
              /\ \A s \in w'[y].seqs : d'.lastSequence < s
          BY <5>1, <3>2, <3>4, <3>5, <2>1 DEF Waiting, Steps
        <5>6. w'[y].seqs # {} => y \in Batches
          BY <5>1, <3>2, <3>4 DEF Batches
        <5>3. InGroup(y)'
          BY <5>1, <3>6 DEF InGroup, Steps
        <5>4. w'[y].pc \in Steps => y = x
          BY <3>6, <2>3
        <5>5. GroupNumbers(x)'
          <6>1. \A i_1 \in DOMAIN g : w'[g[i_1]].seqs = NumbersOf(g, i_1)'
            BY <3>4, <2>1 DEF NumbersOf
          <6> QED
            BY <6>1, <3>6, <3>8 DEF GroupNumbers
        <5> QED
          BY <5>2, <5>3, <5>4, <5>5, <5>6, <3>7, <2>7, <3>8 DEF NumberOK, Steps
      <4>3. CASE \A i \in DOMAIN g : g[i] # y
        <5>1. w'[y].seqs = w[y].seqs /\ y # x
          BY <4>3, <3>3, <3>6
        <5>2. w'[y].pc = w[y].pc /\ w[y].pc \notin Steps /\ (Waiting(y) => w[y].seqs = {})
          BY <5>1, <3>6, <2>3
        <5> QED
          BY <4>1, <5>1, <5>2, <3>5, <3>7, <2>1 DEF NumberOK, Steps
      <4> QED
        BY <4>2, <4>3
    <3>10. ASSUME NEW y \in Writers, NEW z \in Writers, y # z PROVE Before(y, z)' \/ Before(z, y)'
      <4>1. ASSUME NEW u \in Writers, \A i \in DOMAIN g : g[i] # u
            PROVE  \A s \in w'[u].seqs : s <= d.lastSequence
        <5>1. w'[u].seqs = w[u].seqs
          BY <4>1, <3>3
        <5>2. ~Waiting(u) => \A s \in w[u].seqs : s <= d.lastSequence
          BY <1>2 DEF NumberOK
        <5> QED
          BY <5>1, <5>2, <2>3
      <4>2. \A u \in Writers : w'[u].seqs \in SUBSET Nat
        <5>1. w' \in [Writers -> WriterStates]
          BY <1>9, RoomEffect DEF TypeOK
        <5>2. \A u \in Writers : w'[u] \in WriterStates
          BY <5>1
        <5> QED
          BY <5>2 DEF WriterStates
      <4>3. CASE (\A i \in DOMAIN g : g[i] # y) /\ (\A i \in DOMAIN g : g[i] # z)
        <5>1. w'[y].seqs = w[y].seqs /\ w'[z].seqs = w[z].seqs
          BY <4>3, <3>3
        <5>2. Before(y, z) \/ Before(z, y)
          BY <3>10, <1>1 DEF NumbersOK
        <5> QED
          BY <5>1, <5>2 DEF Before
      <4>4. ASSUME NEW u \in Writers, NEW v \in Writers, NEW i \in DOMAIN g, g[i] = v, \A j \in DOMAIN g : g[j] # u
            PROVE  Before(u, v)'
        <5>1. \A s \in w'[u].seqs : s <= d.lastSequence
          BY <4>1, <4>4
        <5>2. \A t \in w'[v].seqs : d.lastSequence < t
          BY <4>4, <3>2, <3>4
        <5> QED
          BY <5>1, <5>2, <4>2, <1>1, SMTT(30) DEF Before
      <4>5. ASSUME NEW i \in DOMAIN g, NEW j \in DOMAIN g, g[i] = y, g[j] = z
            PROVE  Before(y, z)' \/ Before(z, y)'
        <5>1. i # j /\ i \in Int /\ j \in Int
          BY <4>5, <3>10
        <5>2. i < j \/ j < i
          BY <5>1
        <5> QED
          BY <5>2, <4>5, <3>2, <3>4 DEF Before
      <4> QED
        BY <4>3, <4>4, <4>5
    <3> QED
      BY <3>9, <3>10 DEF NumbersOK
  <2>8. x \in Flushers => x \notin Batches
    BY DEF Flushers
  <2> QED
    BY <2>1, <2>4, <2>5, <2>6, <2>7, <2>8 DEF Started
<1>10. ASSUME NEW x \in Writers, FinishGroup(x) PROVE NumbersOK'
  <2> DEFINE g == w[x].group
  <2>1. /\ w[x].pc = "finish"
        /\ \A y \in Writers : w'[y].seqs = w[y].seqs
        /\ \A y \in Writers \ Range(g) : w'[y] = w[y]
        /\ \A y \in Range(g) :
               /\ y \in Writers /\ w'[y].done
               /\ w'[y].status = (IF w[x].status = "ok" THEN "ok" ELSE "error")
               /\ w'[y].pc = (IF y = x THEN "reply" ELSE w[y].pc)
    BY <1>1, <1>10, FinishGroupDoes
  <2>2. d'.lastSequence = LastSequenceOf(x) /\ d'.lastSequence >= d.lastSequence /\ d'.lastSequence \in Nat
    BY <1>10, FinishEffect, DatabaseFields DEF TypeOK, DatabaseStates
  <2>3. /\ queue[1] = x /\ g \in Seq(Writers) /\ DOMAIN g = 1 .. Len(g) /\ Len(g) \in 1 .. Len(queue) /\ g[1] = x
        /\ Range(g) = {g[i] : i \in DOMAIN g} /\ \A i \in DOMAIN g : g[i] = queue[i]
    BY <2>1, <1>1, GroupLeads DEF Steps, Range
  <2>4. GroupNumbers(x) /\ x \in Range(g)
    BY <2>1, <2>3, <1>2 DEF NumberOK, Steps
  <2>5. ASSUME NEW y \in Range(g)
        PROVE  /\ \A s \in w[y].seqs : s <= d'.lastSequence
               /\ w'[y].status = "ok" /\ y \in Batches => w[y].seqs # {}
    <3>1. CASE w[x].seqs = {}
      <4>1. g = <<x>> /\ ~(x \in Batches /\ w[x].status = "ok")
        BY <2>4, <3>1 DEF GroupNumbers
      <4>2. y = x
        BY <4>1, <2>3
      <4> QED
        BY <4>1, <4>2, <3>1, <2>1
    <3>2. CASE w[x].seqs # {}
      <4>1. PICK i \in DOMAIN g : g[i] = y
        BY <2>3
      <4>2. w[y].seqs = NumbersOf(g, i)
        BY <4>1, <2>4, <3>2 DEF GroupNumbers
      <4>3. /\ \A s \in NumbersOf(g, i) : s <= d.lastSequence + SizeTo(g, Len(g))
            /\ NumbersOf(g, i) = {} <=> Updates[g[i]] = 0
        BY <2>3, <1>1, NumbersOrdered
      <4>4. GroupSeqs(x) # {}
        BY <2>4, <3>2 DEF GroupSeqs
      <4>5. d'.lastSequence = d.lastSequence + SizeTo(g, Len(g))
        BY <4>4, <2>2 DEF LastSequenceOf
      <4> QED
        BY <4>1, <4>2, <4>3, <4>5 DEF Batches
    <3> QED
      BY <3>1, <3>2
  <2>6. ASSUME NEW y \in Writers \ Range(g)
        PROVE  /\ Waiting(y) => w[y].seqs = {}
               /\ w[y].pc \notin Steps
    <3>1. ASSUME NEW z \in Writers, w[z].pc \in Steps PROVE z = x
      BY <3>1, <2>3, <1>2 DEF WriterOK
    <3>2. ~InGroup(y)
      BY <3>1, <2>3 DEF InGroup
    <3>3. y # x
      BY <2>4
    <3> QED
      BY <3>1, <3>2, <3>3, <1>2 DEF NumberOK
  <2> HIDE DEF g
  <2>7. ASSUME NEW y \in Writers PROVE NumberOK(y)'
    <3>1. CASE y \in Range(g)
      <4>1. ~Waiting(y)' /\ w'[y].pc \notin Steps /\ w'[y].pc # "start"
        <5>1. CASE y = x
          BY <5>1, <3>1, <2>1 DEF Waiting, Steps
        <5>2. CASE y # x
          <6>1. PICK i \in DOMAIN g : g[i] = y
            BY <3>1, <2>3
          <6>2. i \in DOMAIN queue /\ queue[i] = y
            BY <6>1, <2>3, <1>1 DEF TypeOK
          <6>3. Waiting(y) /\ WriterOK(y)
            BY <6>2, <1>1 DEF QueueOK
          <6>4. w[y].pc = "queued"
            BY <6>3, <5>2, <2>3 DEF Waiting, WriterOK
          <6> QED
            BY <6>4, <5>2, <3>1, <2>1 DEF Waiting, Steps
        <5> QED
          BY <5>1, <5>2
      <4>2. w'[y].seqs # {} => y \in Batches
        BY <2>1, <1>2 DEF NumberOK
      <4> QED
        BY <4>1, <4>2, <3>1, <2>1, <2>5 DEF NumberOK, Steps
    <3>2. CASE y \notin Range(g)
      <4>1. w'[y] = w[y] /\ NumberOK(y) /\ w[y].pc \notin Steps /\ (Waiting(y) => w[y].seqs = {})
        BY <3>2, <2>1, <2>6, <1>2
      <4>2. Waiting(y)' <=> Waiting(y)
        BY <4>1 DEF Waiting
      <4>3. ~Waiting(y) => \A s \in w[y].seqs : s <= d'.lastSequence
        <5>1. w[y].seqs \in SUBSET Nat
          BY <1>1, WriterFields
        <5> QED
          BY <5>1, <4>1, <2>2, <1>1 DEF NumberOK
      <4> QED
        BY <4>1, <4>2, <4>3 DEF NumberOK, Steps
    <3> QED
      BY <3>1, <3>2
  <2>8. \A y, z \in Writers : y # z => Before(y, z)' \/ Before(z, y)'
    BY <2>1, <1>1 DEF NumbersOK, Before
  <2> QED
    BY <2>7, <2>8 DEF NumbersOK
<1>11. CASE UNCHANGED vars
  BY <1>8, <1>11 DEF vars
<1>12. ASSUME NEW r \in Readers, Get(r) \/ Lookup(r) PROVE NumbersOK'
  BY <1>8, <1>12 DEF Get, Lookup
<1>13. CASE Elsewhere
  BY <1>8, <1>13, ElsewhereEffect DEF SameOrFlushed
<1> QED
  BY <1>3, <1>4, <1>5, <1>6, <1>7, <1>9, <1>10, <1>11, <1>12, <1>13 DEF Next, Elsewhere

-----------------------------------------------------------------------------
(* The data.                                                               *)

\* What MakeRoomForWrite does to the writers, whichever way it ends.
LEMMA RoomMoves ==
  ASSUME IInv, NEW x \in Writers, MakeRoomForWrite(x)
  PROVE  /\ Waiting(x) /\ w[x].pc = "room"
         /\ \A y \in Writers :
               /\ w[y].pc \notin Steps /\ (w'[y].done <=> w[y].done)
               /\ \/ w'[y].seqs = w[y].seqs
                  \/ w[y].seqs = {} /\ Waiting(y) /\ \A s \in w'[y].seqs : d.lastSequence < s
         /\ \A y \in Writers \ {x} :
               w'[y].pc = w[y].pc /\ w'[y].status = w[y].status /\ w'[y].left = w[y].left
         /\ w'[x].pc \in {"room", "sleep", "log", "finish"}
         /\ w'[x].pc = "finish" => w'[x].seqs = {} /\ w'[x].group = <<x>>
<1>1. /\ w \in [Writers -> WriterStates] /\ TypeOK /\ QueueOK /\ NumbersOK
      /\ d.lastSequence \in Nat
  BY DatabaseFields DEF IInv, TypeOK
<1>2. Started(x) /\ w[x].pc = "room" /\ WriterOK(x)
  BY <1>1, RoomEffect DEF MakeRoomForWrite, QueueOK
<1>3. queue[1] = x /\ Waiting(x)
  BY <1>2 DEF WriterOK, Waiting
<1>4. \A y \in Writers : (Waiting(y) => w[y].seqs = {}) /\ w[y].pc \notin Steps
  BY <1>1, <1>2, <1>3, NoneNumbered DEF Steps
<1>5. CASE w' = w
  BY <1>2, <1>3, <1>4, <1>5
<1>6. CASE w' = [w EXCEPT ![x].pc = "sleep"]
  <2>1. w'[x] = [w[x] EXCEPT !.pc = "sleep"] /\ w[x] \in WriterStates /\ \A y \in Writers \ {x} : w'[y] = w[y]
    BY <1>6, <1>1
  <2>2. w'[x].pc = "sleep" /\ (w'[x].done <=> w[x].done) /\ w'[x].seqs = w[x].seqs
    BY <2>1 DEF WriterStates
  <2> QED
    BY <2>1, <2>2, <1>2, <1>3, <1>4
<1>7. ASSUME NEW c \in {"ok", "error"}, w' = Alone(x, c)
      PROVE  /\ \A y \in Writers \ {x} : w'[y] = w[y]
             /\ w'[x].seqs = w[x].seqs /\ (w'[x].done <=> w[x].done)
             /\ w'[x].pc = "finish" /\ w'[x].group = <<x>>
  BY <1>7, <1>1, AloneDoes
<1>8. CASE w' = Alone(x, "error") \/ w' = Alone(x, "ok")
  <2>1. /\ \A y \in Writers \ {x} : w'[y] = w[y]
        /\ w'[x].seqs = w[x].seqs /\ (w'[x].done <=> w[x].done)
        /\ w'[x].pc = "finish" /\ w'[x].group = <<x>>
    BY <1>7, <1>8
  <2> QED
    BY <2>1, <1>2, <1>3, <1>4
<1>9. CASE x \in Batches /\ w' = StartGroup(x)
  <2>1. PICK g \in Seq(Writers) : GroupStarted(x, g)
    BY <1>2, <1>9, StartGroupDoes
  <2>2. \A y \in Writers : \/ w'[y].seqs = w[y].seqs
                           \/ w[y].seqs = {} /\ Waiting(y) /\ \A s \in w'[y].seqs : d.lastSequence < s
    <3> TAKE y \in Writers
    <3>1. CASE \A i \in DOMAIN g : g[i] # y
      BY <3>1, <2>1 DEF GroupStarted
    <3>2. CASE \E i \in DOMAIN g : g[i] = y
      <4>1. PICK i \in DOMAIN g : g[i] = y
        BY <3>2
      <4>2. w'[y].seqs = NumbersOf(g, i) /\ queue[i] = y
        BY <4>1, <2>1 DEF GroupStarted
      <4>3. i \in DOMAIN queue
        BY <2>1, <1>1 DEF GroupStarted, TypeOK
      <4>4. Waiting(y)
        BY <4>2, <4>3, <1>1 DEF QueueOK
      <4>5. \A s \in NumbersOf(g, i) : d.lastSequence < s
        BY <1>1, NumbersOrdered
      <4> QED
        BY <4>2, <4>4, <4>5, <1>4
    <3> QED
      BY <3>1, <3>2
  <2> QED
    BY <2>1, <2>2, <1>2, <1>3, <1>4 DEF GroupStarted
<1> QED
  BY <1>2, <1>5, <1>6, <1>8, <1>9 DEF Started

\* The only group that is written is that of the first writer.
LEMMA OneLeader ==
  ASSUME QueueOK, NEW x \in Writers, NEW y \in Writers, w[x].pc \in Steps, w[y].pc \in Steps
  PROVE  x = y
<1>1. WriterOK(x) /\ WriterOK(y)
  BY DEF QueueOK
<1> QED
  BY <1>1 DEF WriterOK, Steps

\* A group's numbers are of waiting writers, and are new.
LEMMA GroupIsNew ==
  ASSUME TypeOK, QueueOK, NumbersOK, NEW x \in Writers, w[x].pc \in Steps, NEW s \in GroupSeqs(x)
  PROVE  \E y \in Writers : /\ y \in Range(w[x].group) /\ Waiting(y) /\ s \in w[y].seqs
                            /\ d.lastSequence < s
<1>1. PICK y \in Range(w[x].group) : s \in w[y].seqs
  BY DEF GroupSeqs
<1>2. PICK i \in DOMAIN w[x].group : w[x].group[i] = y
  BY <1>1 DEF Range
<1>3. /\ w[x].group \in Seq(Writers) /\ queue \in Seq(Writers) /\ queue[i] = y
      /\ DOMAIN w[x].group = 1 .. Len(w[x].group) /\ Len(w[x].group) \in 1 .. Len(queue)
  BY <1>2, GroupLeads DEF TypeOK
<1>4. y \in Writers /\ i \in DOMAIN queue
  BY <1>2, <1>3
<1>5. Waiting(y) /\ NumberOK(y)
  BY <1>3, <1>4 DEF QueueOK, NumbersOK
<1> QED
  BY <1>1, <1>4, <1>5 DEF NumberOK

\* The numbers of a group stay while seqs and groups stay.
LEMMA GroupSeqsSame ==
  ASSUME w \in [Writers -> WriterStates], NEW x \in Writers, w'[x].group = w[x].group,
         \A y \in Writers : w'[y].seqs = w[y].seqs
  PROVE  GroupSeqs(x)' = GroupSeqs(x)
<1>1. Range(w[x].group) \subseteq Writers
  BY WriterFields
<1>2. Range(w'[x].group) = Range(w[x].group)
  OBVIOUS
<1> QED
  BY <1>1, <1>2 DEF GroupSeqs

\* No step changes the data, no writer reaches a step of its group.
LEMMA DataStays ==
  ASSUME w \in [Writers -> WriterStates], DataOK, SameStore(d'),
         \A y \in Writers :
            /\ w'[y].seqs = w[y].seqs /\ w'[y].group = w[y].group /\ w'[y].left = w[y].left
            /\ w'[y].done <=> w[y].done
            /\ w[y].done /\ w[y].seqs # {} => w'[y].status = w[y].status
            /\ \/ w'[y].pc = w[y].pc /\ w'[y].status = w[y].status
               \/ /\ ~Inserting(y) /\ w'[y].pc \notin {"sync", "insert"}
                  /\ ~(w'[y].pc = "finish" /\ w'[y].status = "ok")
  PROVE  DataOK'
<1>1. OldTables' /\ Held(d') = Held(d)
  BY DEF DataOK, OldTables, SameStore, Held
<1>2. \A x \in Writers : GroupSeqs(x)' = GroupSeqs(x)
  BY GroupSeqsSame
<1>3. \A x \in Writers : Inserting(x) <=> Inserting(x)'
  BY DEF Inserting
<1>4. HeldNumbered'
  BY <1>1, <1>2, <1>3 DEF DataOK, HeldNumbered, SameStore
<1>5. ASSUME NEW x \in Writers PROVE WrittenOK(x)'
  <2>1. WrittenOK(x)
    BY DEF DataOK
  <2>2. GroupLogged(x) => GroupLogged(x)'
    BY <1>2 DEF GroupLogged, SameStore
  <2>3. \A s : Kept(s, x) => Kept(s, x)'
    BY DEF Kept, SameStore
  <2>4. w'[x].done => IF w'[x].status = "ok" THEN \A s \in w'[x].seqs : Kept(s, x)'
                      ELSE w'[x].seqs \cap Held(d') = {}
    BY <2>1, <2>3, <1>1 DEF WrittenOK
  <2>5. CASE w'[x].pc = w[x].pc /\ w'[x].status = w[x].status
    BY <2>1, <2>2, <2>4, <2>5, <1>1, <1>2 DEF WrittenOK, Inserting, SameStore
  <2>6. CASE /\ ~Inserting(x) /\ w'[x].pc \notin {"sync", "insert"}
             /\ ~(w'[x].pc = "finish" /\ w'[x].status = "ok")
    BY <2>4, <2>6 DEF WrittenOK, Inserting
  <2> QED
    BY <2>5, <2>6
<1> QED
  BY <1>1, <1>4, <1>5 DEF DataOK

\* Where a number is held.
LEMMA HeldWhere ==
  ASSUME NEW t
  PROVE  \A s : s \in Held(t) <=> s \in t.tables \/ \E n \in 1 .. MaxLogs : s \in t.mem[n]
BY DEF Held

\* What the data proofs use of the invariant.
LEMMA DataFacts ==
  ASSUME IInv
  PROVE  /\ TypeOK /\ QueueOK /\ NumbersOK /\ LogsOK /\ OldTables /\ HeldNumbered
         /\ w \in [Writers -> WriterStates] /\ d \in DatabaseStates /\ d.lastSequence \in Nat
         /\ \A y \in Writers : WriterOK(y) /\ NumberOK(y) /\ WrittenOK(y)
         /\ \A y \in Writers : w[y].seqs \in SUBSET Nat /\ GroupSeqs(y) \in SUBSET Nat
         /\ Held(d) \in SUBSET Nat
<1>1. TypeOK /\ QueueOK /\ NumbersOK /\ LogsOK /\ OldTables /\ HeldNumbered
  BY DEF IInv, DataOK
<1>2. w \in [Writers -> WriterStates] /\ d \in DatabaseStates /\ d.lastSequence \in Nat
  BY <1>1, DatabaseFields DEF TypeOK
<1>3. \A y \in Writers : WriterOK(y) /\ NumberOK(y) /\ WrittenOK(y)
  BY DEF IInv, QueueOK, NumbersOK, DataOK
<1>4. \A y \in Writers : w[y].seqs \in SUBSET Nat /\ GroupSeqs(y) \in SUBSET Nat
  BY <1>2, WriterFields, GroupSeqsType
<1>5. Held(d) \in SUBSET Nat
  <2>1. (\A n \in 1 .. MaxLogs : d.mem[n] \in SUBSET Nat) /\ d.tables \in SUBSET Nat
    BY <1>2, DatabaseFields
  <2> QED
    BY <2>1, HeldWhere
<1> QED
  BY <1>1, <1>2, <1>3, <1>4, <1>5

\* While a group is written, what is held beyond lastSequence is of it; a
\* group that is not being inserted has nothing there.
LEMMA GroupNotHeld ==
  ASSUME IInv, NEW x \in Writers, w[x].pc \in Steps, ~Inserting(x)
  PROVE  GroupSeqs(x) \cap Held(d) = {}
<1>1. SUFFICES ASSUME NEW s \in GroupSeqs(x), s \in Held(d) PROVE FALSE
  OBVIOUS
<1>2. TypeOK /\ QueueOK /\ NumbersOK /\ HeldNumbered /\ d.lastSequence \in Nat /\ s \in Nat
  BY <1>1, DataFacts
<1>3. d.lastSequence < s
  BY <1>1, <1>2, GroupIsNew
<1>4. PICK y \in Writers : Inserting(y)
  BY <1>1, <1>2, <1>3 DEF HeldNumbered
<1>5. y = x
  BY <1>2, <1>4, OneLeader DEF Inserting, Steps
<1> QED
  BY <1>4, <1>5

LEMMA DataRoom ==
  ASSUME IInv, NEW x \in Writers, MakeRoomForWrite(x)
  PROVE  DataOK'
<1>1. /\ OldTables /\ HeldNumbered /\ d \in DatabaseStates /\ LogsOK
      /\ \A y \in Writers : NumberOK(y) /\ WrittenOK(y)
      /\ Held(d) \in SUBSET Nat /\ d.lastSequence \in Nat
  BY DataFacts
<1>2. /\ Waiting(x) /\ w[x].pc = "room"
      /\ \A y \in Writers :
            /\ w[y].pc \notin Steps /\ (w'[y].done <=> w[y].done)
            /\ \/ w'[y].seqs = w[y].seqs
               \/ w[y].seqs = {} /\ Waiting(y) /\ \A s \in w'[y].seqs : d.lastSequence < s
      /\ \A y \in Writers \ {x} :
            w'[y].pc = w[y].pc /\ w'[y].status = w[y].status /\ w'[y].left = w[y].left
      /\ w'[x].pc \in {"room", "sleep", "log", "finish"}
      /\ w'[x].pc = "finish" => w'[x].seqs = {} /\ w'[x].group = <<x>>
  BY RoomMoves
<1>3. SameOrSwitched(d')
  BY RoomEffect
<1>4. /\ d'.mem = d.mem /\ d'.logged = d.logged /\ d'.synced = d.synced
      /\ d'.tables = d.tables /\ d'.lastSequence = d.lastSequence
      /\ \/ d'.logNumber = d.logNumber /\ d'.imm = d.imm
         \/ d.imm = 0 /\ d'.imm = d.logNumber /\ d'.logNumber = d.logNumber + 1
      /\ d.logNumber \in 1 .. MaxLogs
  BY <1>1, <1>3, DatabaseFields DEF SameOrSwitched
<1>5. Held(d') = Held(d)
  BY <1>4 DEF Held
<1>6. OldTables'
  BY <1>1, <1>4 DEF OldTables
<1>7. \A s \in Held(d) : s <= d.lastSequence
  BY <1>1, <1>2 DEF HeldNumbered, Inserting, Steps
<1>8. HeldNumbered'
  <2>1. \A y \in Writers : w[y].seqs \subseteq w'[y].seqs
    BY <1>2
  <2> QED
    BY <2>1, <1>1, <1>4, <1>5, <1>7 DEF HeldNumbered
<1>9. \A s, y : Kept(s, y) => Kept(s, y)'
  <2> SUFFICES ASSUME NEW s, NEW y, Kept(s, y) PROVE Kept(s, y)'
    OBVIOUS
  <2> QED
    BY <1>4 DEF Kept
<1>10. ASSUME NEW y \in Writers PROVE WrittenOK(y)'
  <2>1. CASE y = x
    <3>1. ~w'[y].done
      BY <2>1, <1>2 DEF Waiting
    <3>2. CASE w'[x].pc = "finish"
      <4>1. Range(w'[x].group) = {x}
        <5>1. w'[x].group = <<x>>
          BY <1>2, <3>2
        <5> QED
          BY <5>1 DEF Range
      <4>2. GroupSeqs(x)' = {}
        BY <4>1, <1>2, <3>2 DEF GroupSeqs
      <4> QED
        BY <4>2, <3>1, <3>2, <2>1 DEF WrittenOK, GroupLogged
    <3>3. CASE w'[x].pc # "finish"
      BY <3>1, <3>3, <2>1, <1>2 DEF WrittenOK, Inserting
    <3> QED
      BY <3>2, <3>3
  <2>2. CASE y # x
    <3>1. w'[y].pc = w[y].pc /\ w'[y].status = w[y].status /\ w[y].pc \notin Steps /\ (w'[y].done <=> w[y].done)
      BY <2>2, <1>2
    <3>2. w[y].done => w'[y].seqs = w[y].seqs
      BY <1>2 DEF Waiting
    <3> QED
      BY <3>1, <3>2, <1>1, <1>5, <1>9 DEF WrittenOK, Inserting, Steps
  <2> QED
    BY <2>1, <2>2
<1> QED
  BY <1>6, <1>8, <1>10 DEF DataOK

\* The writers beside the one that moves, when the data only grow.
LEMMA OthersWritten ==
  ASSUME IInv, NEW x \in Writers, NEW y \in Writers, y # x, w[x].pc \in Steps, w'[y] = w[y],
         \A s : Kept(s, y) => Kept(s, y)',
         w[y].done /\ w[y].status # "ok" => w[y].seqs \cap Held(d') = {}
  PROVE  WrittenOK(y)'
<1>1. TypeOK /\ QueueOK /\ WrittenOK(y)
  BY DataFacts
<1>2. w[y].pc \notin Steps
  BY <1>1, OneLeader
<1> QED
  BY <1>1, <1>2 DEF WrittenOK, Inserting, Steps

LEMMA DataLog ==
  ASSUME IInv, NEW x \in Writers, LogGroup(x)
  PROVE  DataOK'
<1>1. /\ TypeOK /\ QueueOK /\ NumbersOK /\ OldTables /\ HeldNumbered /\ d \in DatabaseStates
      /\ DataOK /\ w \in [Writers -> WriterStates]
      /\ \A y \in Writers : WriterOK(y) /\ WrittenOK(y)
  BY DataFacts DEF IInv
<1>2. /\ Only(x) /\ w[x].pc = "log" /\ (w'[x].done <=> w[x].done)
      /\ \/ /\ w'[x].pc = (IF x \in Synchronous THEN "sync" ELSE "insert")
            /\ w'[x].status = w[x].status /\ w'[x].left = GroupSeqs(x)
            /\ d'.logged = [d.logged EXCEPT ![d.logNumber] = @ \cup GroupSeqs(x)]
            /\ d'.mem = d.mem /\ d'.synced = d.synced /\ d'.tables = d.tables
            /\ d'.imm = d.imm /\ d'.logNumber = d.logNumber /\ d'.lastSequence = d.lastSequence
         \/ w'[x].pc = "finish" /\ w'[x].status = "error" /\ d' = d
  BY <1>1, LogGroupDoes
<1>3. ~w[x].done /\ w[x].status = "ok" /\ w[x].pc \in Steps /\ ~Inserting(x)
  BY <1>1, <1>2 DEF WriterOK, Steps, Inserting
<1>4. CASE w'[x].pc = "finish" /\ w'[x].status = "error" /\ d' = d
  <2>1. \A y \in Writers : w'[y].seqs = w[y].seqs /\ w'[y].group = w[y].group
    BY <1>2 DEF Only
  <2>2. \A y \in Writers : GroupSeqs(y)' = GroupSeqs(y)
    BY <2>1, <1>1, GroupSeqsSame
  <2>3. \A y \in Writers : Inserting(y) <=> Inserting(y)'
    BY <1>2, <1>3, <1>4 DEF Inserting, Only
  <2>4. HeldNumbered' /\ OldTables'
    BY <2>1, <2>2, <2>3, <1>1, <1>4 DEF HeldNumbered, OldTables
  <2>5. WrittenOK(x)'
    BY <1>2, <1>3, <1>4 DEF WrittenOK, Inserting
  <2>6. ASSUME NEW y \in Writers, y # x PROVE WrittenOK(y)'
    BY <2>6, <1>1, <1>2, <1>3, <1>4, OthersWritten DEF Only, Kept, WrittenOK
  <2> QED
    BY <2>4, <2>5, <2>6 DEF DataOK
<1>5. CASE ~(w'[x].pc = "finish" /\ w'[x].status = "error" /\ d' = d)
  <2>1. /\ w'[x].pc = (IF x \in Synchronous THEN "sync" ELSE "insert")
        /\ w'[x].status = w[x].status /\ w'[x].left = GroupSeqs(x)
        /\ d'.logged = [d.logged EXCEPT ![d.logNumber] = @ \cup GroupSeqs(x)]
        /\ d'.mem = d.mem /\ d'.synced = d.synced /\ d'.tables = d.tables
        /\ d'.imm = d.imm /\ d'.logNumber = d.logNumber /\ d'.lastSequence = d.lastSequence
        /\ \A y \in Writers \ {x} : w'[y] = w[y]
        /\ \A y \in Writers : w'[y].seqs = w[y].seqs /\ w'[y].group = w[y].group
    BY <1>2, <1>5 DEF Only
  <2>2. \A y \in Writers : GroupSeqs(y)' = GroupSeqs(y)
    BY <2>1, <1>1, GroupSeqsSame
  <2>3. Held(d') = Held(d) /\ OldTables'
    BY <2>1, <1>1 DEF Held, OldTables
  <2>4. \A y \in Writers : Inserting(y) => Inserting(y)'
    BY <2>1, <1>3 DEF Inserting
  <2>5. HeldNumbered'
    BY <2>1, <2>2, <2>3, <2>4, <1>1 DEF HeldNumbered
  <2>6. /\ d.logged \in [1 .. MaxLogs -> SUBSET Nat] /\ d.logNumber \in 1 .. MaxLogs
        /\ d'.logged[d.logNumber] = d.logged[d.logNumber] \cup GroupSeqs(x)
        /\ \A n \in 1 .. MaxLogs : d.logged[n] \subseteq d'.logged[n]
    BY <2>1, <1>1, DatabaseFields
  <2>7. GroupSeqs(x) \cap Held(d) = {}
    BY <1>3, GroupNotHeld
  <2>8. WrittenOK(x)'
    BY <2>1, <2>2, <2>3, <2>6, <2>7, <1>2, <1>3 DEF WrittenOK, Inserting, GroupLogged
  <2>9. \A s, y : Kept(s, y) => Kept(s, y)'
    <3> SUFFICES ASSUME NEW s, NEW y, Kept(s, y) PROVE Kept(s, y)'
      OBVIOUS
    <3>1. d.imm \in 0 .. MaxLogs
      BY <1>1, DatabaseFields
    <3>2. ASSUME NEW n \in {d.imm, d.logNumber} \ {0}, s \in d.logged[n] PROVE s \in d'.logged[n]
      BY <3>1, <3>2, <2>6
    <3> QED
      BY <3>2, <2>1 DEF Kept
  <2>10. ASSUME NEW y \in Writers, y # x PROVE WrittenOK(y)'
    <3>1. w[y].done /\ w[y].status # "ok" => w[y].seqs \cap Held(d') = {}
      BY <2>3, <1>1 DEF WrittenOK
    <3> QED
      BY <3>1, <2>1, <2>9, <2>10, <1>3, OthersWritten
  <2> QED
    BY <2>3, <2>5, <2>8, <2>10 DEF DataOK
<1> QED
  BY <1>4, <1>5

LEMMA DataSync ==
  ASSUME IInv, NEW x \in Writers, SyncLog(x)
  PROVE  DataOK'
<1>1. /\ TypeOK /\ QueueOK /\ NumbersOK /\ OldTables /\ HeldNumbered /\ d \in DatabaseStates
      /\ DataOK /\ w \in [Writers -> WriterStates]
      /\ \A y \in Writers : WriterOK(y) /\ WrittenOK(y)
  BY DataFacts DEF IInv
<1>2. /\ Only(x) /\ w[x].pc = "sync" /\ (w'[x].done <=> w[x].done) /\ w'[x].left = w[x].left
      /\ \/ /\ w'[x].pc = "insert" /\ w'[x].status = w[x].status
            /\ d'.synced = [d.synced EXCEPT ![d.logNumber] = d.logged[d.logNumber]]
            /\ d'.mem = d.mem /\ d'.logged = d.logged /\ d'.tables = d.tables
            /\ d'.imm = d.imm /\ d'.logNumber = d.logNumber /\ d'.lastSequence = d.lastSequence
         \/ w'[x].pc = "finish" /\ w'[x].status = "sync error" /\ d' = d
  BY <1>1, SyncLogDoes
<1>3. ~w[x].done /\ w[x].status = "ok" /\ w[x].pc \in Steps /\ ~Inserting(x)
  BY <1>1, <1>2 DEF WriterOK, Steps, Inserting
<1>4. \A y \in Writers : w'[y].seqs = w[y].seqs /\ w'[y].group = w[y].group
  BY <1>2 DEF Only
<1>5. /\ d'.mem = d.mem /\ d'.logged = d.logged /\ d'.tables = d.tables
      /\ d'.imm = d.imm /\ d'.logNumber = d.logNumber /\ d'.lastSequence = d.lastSequence
      /\ \A y \in Writers \ {x} : w'[y] = w[y]
  BY <1>2 DEF Only
<1>6. \A y \in Writers : GroupSeqs(y)' = GroupSeqs(y)
  BY <1>1, <1>4, GroupSeqsSame
<1>7. Held(d') = Held(d) /\ OldTables'
  BY <1>1, <1>5 DEF Held, OldTables
<1>8. HeldNumbered'
  <2>1. \A y \in Writers : Inserting(y) => Inserting(y)'
    BY <1>3, <1>5 DEF Inserting
  <2> QED
    BY <2>1, <1>1, <1>4, <1>5, <1>6, <1>7 DEF HeldNumbered
<1>9. WrittenOK(x)
  BY <1>1
<1>10. CASE w'[x].pc = "finish" /\ w'[x].status = "sync error" /\ d' = d
  <2>1. WrittenOK(x)'
    BY <1>2, <1>3, <1>10 DEF WrittenOK, Inserting
  <2>2. ASSUME NEW y \in Writers, y # x PROVE WrittenOK(y)'
    <3>1. \A s : Kept(s, y) => Kept(s, y)'
      BY <1>10 DEF Kept
    <3>2. w[y].done /\ w[y].status # "ok" => w[y].seqs \cap Held(d') = {}
      BY <1>1, <1>7 DEF WrittenOK
    <3> QED
      BY <3>1, <3>2, <2>2, <1>3, <1>5, OthersWritten
  <2> QED
    BY <2>1, <2>2, <1>7, <1>8 DEF DataOK
<1>11. CASE ~(w'[x].pc = "finish" /\ w'[x].status = "sync error" /\ d' = d)
  <2>1. /\ w'[x].pc = "insert" /\ w'[x].status = w[x].status
        /\ d'.synced = [d.synced EXCEPT ![d.logNumber] = d.logged[d.logNumber]]
    BY <1>2, <1>11
  <2>2. /\ d.logNumber \in 1 .. MaxLogs /\ d.imm \in 0 .. MaxLogs
        /\ d'.synced[d.logNumber] = d.logged[d.logNumber]
        /\ \A n \in 1 .. MaxLogs : n # d.logNumber => d'.synced[n] = d.synced[n]
    BY <2>1, <1>1, DatabaseFields
  <2>3. WrittenOK(x)'
    <3>1. /\ w[x].left = GroupSeqs(x) /\ w[x].left \cap Held(d) = {}
          /\ GroupSeqs(x) \subseteq d.logged[d.logNumber]
      BY <1>2, <1>9 DEF WrittenOK
    <3> QED
      BY <3>1, <2>1, <2>2, <1>2, <1>3, <1>5, <1>6, <1>7 DEF WrittenOK, Inserting, GroupLogged
  <2>4. \A s, y : Kept(s, y) => Kept(s, y)'
    <3> SUFFICES ASSUME NEW s, NEW y, Kept(s, y) PROVE Kept(s, y)'
      OBVIOUS
    <3>1. ASSUME NEW n \in {d.imm, d.logNumber} \ {0}, s \in d.logged[n], s \in d.synced[n]
          PROVE  s \in d'.synced[n]
      BY <3>1, <2>2
    <3> QED
      BY <3>1, <1>5 DEF Kept
  <2>5. ASSUME NEW y \in Writers, y # x PROVE WrittenOK(y)'
    <3>1. w[y].done /\ w[y].status # "ok" => w[y].seqs \cap Held(d') = {}
      BY <1>1, <1>7 DEF WrittenOK
    <3> QED
      BY <3>1, <2>4, <2>5, <1>3, <1>5, OthersWritten
  <2> QED
    BY <2>3, <2>5, <1>7, <1>8 DEF DataOK
<1> QED
  BY <1>10, <1>11

LEMMA DataInsert ==
  ASSUME IInv, NEW x \in Writers, Insert(x)
  PROVE  DataOK'
<1>1. /\ TypeOK /\ QueueOK /\ NumbersOK /\ OldTables /\ HeldNumbered /\ d \in DatabaseStates
      /\ w \in [Writers -> WriterStates] /\ d.lastSequence \in Nat
      /\ \A y \in Writers : WriterOK(y) /\ NumberOK(y) /\ WrittenOK(y)
      /\ \A y \in Writers : w[y].seqs \in SUBSET Nat
  BY DataFacts
<1>2. PICK s \in w[x].left :
        /\ Only(x) /\ w[x].pc = "insert" /\ (w'[x].done <=> w[x].done)
        /\ w'[x].status = w[x].status /\ w'[x].left = w[x].left \ {s}
        /\ w'[x].pc = (IF w[x].left = {s} THEN "finish" ELSE "insert")
        /\ d'.mem = [d.mem EXCEPT ![d.logNumber] = @ \cup {s}]
        /\ d'.logged = d.logged /\ d'.synced = d.synced /\ d'.tables = d.tables
        /\ d'.imm = d.imm /\ d'.logNumber = d.logNumber /\ d'.lastSequence = d.lastSequence
  BY <1>1, InsertDoes
<1>3. ~w[x].done /\ w[x].status = "ok" /\ w[x].pc \in Steps /\ Inserting(x)
  BY <1>1, <1>2 DEF WriterOK, Steps, Inserting
<1>4. /\ \A y \in Writers : w'[y].seqs = w[y].seqs /\ w'[y].group = w[y].group
      /\ \A y \in Writers \ {x} : w'[y] = w[y]
  BY <1>2 DEF Only
<1>5. \A y \in Writers : GroupSeqs(y)' = GroupSeqs(y)
  BY <1>1, <1>4, GroupSeqsSame
<1>6. /\ d.mem \in [1 .. MaxLogs -> SUBSET Nat] /\ d.logNumber \in 1 .. MaxLogs /\ d.imm \in 0 .. MaxLogs
      /\ d'.mem[d.logNumber] = d.mem[d.logNumber] \cup {s}
      /\ \A n \in 1 .. MaxLogs : n # d.logNumber => d'.mem[n] = d.mem[n]
  BY <1>1, <1>2, DatabaseFields
<1>7. Held(d') = Held(d) \cup {s}
  <2>1. \A t : t \in Held(d') <=> t \in d'.tables \/ \E n \in 1 .. MaxLogs : t \in d'.mem[n]
    BY HeldWhere
  <2>2. \A t : t \in Held(d) <=> t \in d.tables \/ \E n \in 1 .. MaxLogs : t \in d.mem[n]
    BY HeldWhere
  <2>3. \A t : t \in Held(d') <=> t \in Held(d) \cup {s}
    <3> TAKE t
    <3>1. (\E n \in 1 .. MaxLogs : t \in d'.mem[n]) <=> t = s \/ \E n \in 1 .. MaxLogs : t \in d.mem[n]
      BY <1>6
    <3> QED
      BY <3>1, <2>1, <2>2, <1>2
  <2> QED
    BY <2>3
<1>8. /\ w[x].left \subseteq GroupSeqs(x) /\ w[x].left \cap Held(d) = {}
      /\ GroupSeqs(x) \subseteq d.logged[d.logNumber] /\ GroupLogged(x)
      /\ GroupSeqs(x) \ w[x].left \subseteq d.mem[d.logNumber]
  <2>1. WrittenOK(x)
    BY <1>1
  <2> QED
    BY <2>1, <1>2, <1>3 DEF WrittenOK
<1>9. s \in GroupSeqs(x) /\ \E y \in Writers : s \in w[y].seqs /\ d.lastSequence < s
  BY <1>1, <1>2, <1>3, <1>8, GroupIsNew
<1>10. OldTables'
  BY <1>1, <1>2, <1>6 DEF OldTables
<1>11. HeldNumbered'
  <2>1. Inserting(x)' /\ \A y \in Writers : Inserting(y) => Inserting(y)'
    BY <1>2, <1>3, <1>4 DEF Inserting
  <2>2. Held(d') \subseteq UNION {w'[y].seqs : y \in Writers}
    BY <1>1, <1>4, <1>7, <1>9 DEF HeldNumbered
  <2>3. \A t \in Held(d) : t <= d'.lastSequence \/ \E y \in Writers : Inserting(y)' /\ t \in GroupSeqs(y)'
    BY <2>1, <1>1, <1>2, <1>5 DEF HeldNumbered
  <2>4. \E y \in Writers : Inserting(y)' /\ s \in GroupSeqs(y)'
    BY <2>1, <1>5, <1>9
  <2> QED
    BY <2>2, <2>3, <2>4, <1>7 DEF HeldNumbered
<1>12. WrittenOK(x)'
  <2>1. w'[x].left \cap Held(d') = {} /\ w'[x].left \subseteq GroupSeqs(x)
    BY <1>2, <1>7, <1>8
  <2>2. GroupLogged(x)'
    BY <1>2, <1>5, <1>8 DEF GroupLogged
  <2>3. GroupSeqs(x) \ w'[x].left \subseteq d'.mem[d.logNumber]
    BY <1>2, <1>6, <1>8
  <2>4. w'[x].pc = "finish" => w'[x].left = {}
    BY <1>2
  <2> QED
    BY <2>1, <2>2, <2>3, <2>4, <1>2, <1>3, <1>5, <1>8 DEF WrittenOK
<1>13. \A t, y : Kept(t, y) => Kept(t, y)'
  <2> SUFFICES ASSUME NEW t, NEW y, Kept(t, y) PROVE Kept(t, y)'
    OBVIOUS
  <2>1. ASSUME NEW n \in {d.imm, d.logNumber} \ {0}, t \in d.mem[n] PROVE t \in d'.mem[n]
    BY <2>1, <1>6
  <2> QED
    BY <2>1, <1>2 DEF Kept
<1>14. ASSUME NEW y \in Writers, y # x PROVE WrittenOK(y)'
  <2>1. w[y].done => s \notin w[y].seqs
    <3>1. w[y].done => \A t \in w[y].seqs : t <= d.lastSequence
      BY <1>1 DEF NumberOK, Waiting
    <3>2. s \in w[y].seqs => s \in Nat
      BY <1>1
    <3> QED
      BY <3>1, <3>2, <1>1, <1>9
  <2>2. w[y].done /\ w[y].status # "ok" => w[y].seqs \cap Held(d') = {}
    BY <2>1, <1>1, <1>7 DEF WrittenOK
  <2> QED
    BY <2>2, <1>3, <1>4, <1>13, <1>14, OthersWritten
<1> QED
  BY <1>10, <1>11, <1>12, <1>14 DEF DataOK

LEMMA DataFinish ==
  ASSUME IInv, NEW x \in Writers, FinishGroup(x)
  PROVE  DataOK'
<1> DEFINE g == w[x].group
<1>1. /\ TypeOK /\ QueueOK /\ NumbersOK /\ OldTables /\ HeldNumbered /\ d \in DatabaseStates
      /\ w \in [Writers -> WriterStates] /\ d.lastSequence \in Nat
      /\ \A y \in Writers : WriterOK(y) /\ WrittenOK(y)
      /\ Held(d) \in SUBSET Nat
  BY DataFacts
<1>2. /\ w[x].pc = "finish"
      /\ \A y \in Writers :
            w'[y].seqs = w[y].seqs /\ w'[y].group = w[y].group /\ w'[y].left = w[y].left
      /\ \A y \in Writers \ Range(g) : w'[y] = w[y]
      /\ \A y \in Range(g) :
            /\ y \in Writers /\ w'[y].done
            /\ w'[y].status = (IF w[x].status = "ok" THEN "ok" ELSE "error")
            /\ w'[y].pc = (IF y = x THEN "reply" ELSE w[y].pc)
  BY <1>1, FinishGroupDoes
<1>3. /\ d'.mem = d.mem /\ d'.logged = d.logged /\ d'.synced = d.synced /\ d'.tables = d.tables
      /\ d'.logNumber = d.logNumber /\ d'.imm = d.imm
      /\ d'.lastSequence \in Nat /\ d'.lastSequence >= d.lastSequence
  <2>1. TypeOK'
    BY FinishEffect
  <2>2. d' \in DatabaseStates
    BY <2>1 DEF TypeOK
  <2>3. d'.lastSequence \in Nat
    BY <2>2 DEF DatabaseStates
  <2> QED
    BY <2>3, FinishEffect
<1>4. NumbersOK'
  BY NumbersKept DEF Next
<1>5. w[x].pc \in Steps /\ Held(d') = Held(d) /\ OldTables'
  BY <1>1, <1>2, <1>3 DEF Steps, Held, OldTables
<1>6. \A y \in Writers : GroupSeqs(y)' = GroupSeqs(y)
  BY <1>1, <1>2, GroupSeqsSame
<1>7. \A y \in Writers \ {x} : w[y].pc \notin Steps
  BY <1>1, <1>5, OneLeader
<1>8. ASSUME NEW y \in Range(g) PROVE \A s \in w[y].seqs : s <= d'.lastSequence
  <2>1. y \in Writers /\ w'[y].done /\ NumberOK(y)'
    BY <1>2, <1>4, <1>8 DEF NumbersOK
  <2>2. ~Waiting(y)'
    BY <2>1 DEF Waiting
  <2> QED
    BY <2>1, <2>2, <1>2 DEF NumberOK
<1>9. ASSUME NEW s \in Held(d) PROVE s <= d'.lastSequence
  <2>1. CASE s <= d.lastSequence
    <3>1. s \in Nat
      BY <1>1, <1>9
    <3> QED
      BY <3>1, <2>1, <1>1, <1>3
  <2>2. CASE \E y \in Writers : Inserting(y) /\ s \in GroupSeqs(y)
    <3>1. s \in GroupSeqs(x)
      BY <2>2, <1>7 DEF Inserting, Steps
    <3>2. PICK y \in Range(g) : s \in w[y].seqs
      BY <3>1 DEF GroupSeqs
    <3> QED
      BY <3>2, <1>8
  <2> QED
    BY <2>1, <2>2, <1>1, <1>9 DEF HeldNumbered
<1>10. HeldNumbered'
  BY <1>1, <1>2, <1>5, <1>9 DEF HeldNumbered
<1>11. \A s, y : Kept(s, y) <=> Kept(s, y)'
  BY <1>3 DEF Kept
<1>12. ASSUME NEW y \in Range(g)
       PROVE  y \in Synchronous => x \in Synchronous
  <2>1. PICK i \in DOMAIN g : g[i] = y
    BY <1>12 DEF Range
  <2> QED
    BY <2>1, <1>1, <1>5, GroupLeads
<1>13. x \in Range(g)
  <2>1. 1 \in DOMAIN g /\ g[1] = x
    BY <1>1, <1>5, GroupLeads
  <2> QED
    BY <2>1 DEF Range
<1> HIDE DEF g
<1>14. ASSUME NEW y \in Writers PROVE WrittenOK(y)'
  <2>1. CASE y \in Range(g)
    <3>1. w'[y].pc \notin Steps
      BY <2>1, <1>2, <1>7 DEF Steps
    <3>2. w[y].seqs \subseteq GroupSeqs(x)
      BY <2>1 DEF GroupSeqs, g
    <3>3. CASE w[x].status = "ok"
      <4>1. WrittenOK(x) /\ d.logNumber \in 1 .. MaxLogs
        BY <1>1, DatabaseFields
      <4>2. GroupSeqs(x) \subseteq d.mem[d.logNumber] /\ GroupLogged(x)
        BY <4>1, <3>3, <1>2 DEF WrittenOK, Inserting
      <4>3. \A s \in w[y].seqs : Kept(s, y)
        BY <4>1, <4>2, <3>2, <2>1, <1>12 DEF Kept, GroupLogged
      <4>4. w'[y].status = "ok" /\ w'[y].done /\ w'[y].seqs = w[y].seqs
        BY <3>3, <2>1, <1>2
      <4>5. \A s \in w'[y].seqs : Kept(s, y)'
        BY <4>3, <4>4, <1>11
      <4> QED
        BY <4>4, <4>5, <3>1 DEF WrittenOK, Inserting, Steps
    <3>4. CASE w[x].status # "ok"
      <4>1. GroupSeqs(x) \cap Held(d) = {}
        BY <3>4, <1>5, GroupNotHeld DEF Inserting
      <4>2. w'[y].status = "error" /\ w'[y].seqs \cap Held(d') = {}
        BY <4>1, <3>2, <3>4, <2>1, <1>2, <1>5
      <4> QED
        BY <4>2, <3>1 DEF WrittenOK, Inserting, Steps
    <3> QED
      BY <3>3, <3>4
  <2>2. CASE y \notin Range(g)
    <3>1. y # x /\ w'[y] = w[y] /\ WrittenOK(y)
      BY <2>2, <1>1, <1>2, <1>13
    <3>2. w[y].done /\ w[y].status # "ok" => w[y].seqs \cap Held(d') = {}
      BY <3>1, <1>5 DEF WrittenOK
    <3> QED
      BY <3>1, <3>2, <1>5, <1>11, OthersWritten
  <2> QED
    BY <2>1, <2>2
<1> QED
  BY <1>5, <1>10, <1>14 DEF DataOK

LEMMA DataElsewhere ==
  ASSUME IInv, w' = w, SameOrFlushed(d')
  PROVE  DataOK'
<1>1. /\ OldTables /\ HeldNumbered /\ d \in DatabaseStates
      /\ w \in [Writers -> WriterStates]
      /\ \A y \in Writers : WrittenOK(y)
  BY DataFacts
<1>2. /\ d'.mem = d.mem /\ d'.logged = d.logged /\ d'.synced = d.synced
      /\ d'.logNumber = d.logNumber /\ d'.lastSequence = d.lastSequence
      /\ \/ d'.imm = d.imm /\ d'.tables = d.tables
         \/ d.imm # 0 /\ d'.imm = 0 /\ d'.tables = d.tables \cup d.mem[d.imm]
  BY DEF SameOrFlushed
<1>3. d.imm \in 0 .. MaxLogs
  BY <1>1, DatabaseFields
<1>4. Held(d') = Held(d)
  <2>1. \A t : t \in Held(d') <=> t \in d'.tables \/ \E n \in 1 .. MaxLogs : t \in d'.mem[n]
    BY HeldWhere
  <2>2. \A t : t \in Held(d) <=> t \in d.tables \/ \E n \in 1 .. MaxLogs : t \in d.mem[n]
    BY HeldWhere
  <2>3. \A t : t \in d'.tables <=> t \in d.tables \/ (t \in d'.tables /\ t \in d.mem[d.imm] /\ d.imm \in 1 .. MaxLogs)
    BY <1>2, <1>3
  <2>4. \A t : t \in Held(d') <=> t \in Held(d)
    BY <2>1, <2>2, <2>3, <1>2
  <2> QED
    BY <2>4
<1>5. OldTables'
  BY <1>1, <1>2 DEF OldTables
<1>6. \A s, y : Kept(s, y) => Kept(s, y)'
  <2> SUFFICES ASSUME NEW s, NEW y, Kept(s, y) PROVE Kept(s, y)'
    OBVIOUS
  <2> QED
    BY <1>2 DEF Kept
<1>7. \A y \in Writers : GroupSeqs(y)' = GroupSeqs(y)
  BY DEF GroupSeqs
<1>8. HeldNumbered'
  BY <1>1, <1>2, <1>4, <1>7 DEF HeldNumbered, Inserting
<1>9. ASSUME NEW y \in Writers PROVE WrittenOK(y)'
  <2>1. WrittenOK(y)
    BY <1>1
  <2>2. GroupLogged(y) => GroupLogged(y)'
    BY <1>2, <1>7 DEF GroupLogged
  <2> QED
    BY <2>1, <2>2, <1>2, <1>4, <1>6, <1>7 DEF WrittenOK, Inserting
<1> QED
  BY <1>5, <1>8, <1>9 DEF DataOK

LEMMA DataKept ==
  ASSUME IInv, [Next]_vars
  PROVE  DataOK'
<1>1. TypeOK /\ DataOK /\ w \in [Writers -> WriterStates] /\ \A y \in Writers : WriterOK(y) /\ NumberOK(y)
  BY DataFacts DEF IInv
<1>2. ASSUME NEW x \in Writers, Enqueue(x) PROVE DataOK'
  <2>1. /\ Only(x) /\ w[x].pc = "start" /\ w'[x].pc = "queued" /\ (w'[x].done <=> w[x].done)
        /\ w'[x].status = w[x].status /\ w'[x].left = w[x].left /\ d' = d
    BY <1>1, <1>2, EnqueueDoes DEF Enqueue
  <2> QED
    BY <2>1, <1>1, DataStays DEF Only, SameStore, Inserting
<1>3. ASSUME NEW x \in Writers, AwaitTurn(x) PROVE DataOK'
  <2>1. /\ Only(x) /\ w[x].pc = "queued" /\ (w'[x].done <=> w[x].done)
        /\ w'[x].status = w[x].status /\ w'[x].left = w[x].left
        /\ w'[x].pc \in {"reply", "room", "queued"} /\ d' = d
    BY <1>1, <1>3, AwaitTurnDoes DEF AwaitTurn
  <2> QED
    BY <2>1, <1>1, DataStays DEF Only, SameStore, Inserting
<1>4. ASSUME NEW x \in Writers, Delayed(x) PROVE DataOK'
  <2>1. /\ Only(x) /\ w[x].pc = "sleep" /\ w'[x].pc = "room" /\ (w'[x].done <=> w[x].done)
        /\ w'[x].status = w[x].status /\ w'[x].left = w[x].left /\ d' = d
    BY <1>1, <1>4, DelayedDoes DEF Delayed
  <2> QED
    BY <2>1, <1>1, DataStays DEF Only, SameStore, Inserting
<1>5. ASSUME NEW x \in Writers, Reply(x) PROVE DataOK'
  <2>1. /\ Only(x) /\ w[x].pc = "reply" /\ (w'[x].done <=> w[x].done) /\ w'[x].left = w[x].left
        /\ w'[x].pc \in {"reply", "returned"} /\ d' = d
        /\ w'[x].status = w[x].status \/ (x \in Flushers /\ w'[x].status = "error")
    BY <1>1, <1>5, ReplyDoes DEF Reply
  <2>2. x \in Flushers => w[x].seqs = {}
    BY <1>1 DEF NumberOK, Flushers
  <2> QED
    BY <2>1, <2>2, <1>1, DataStays DEF Only, SameStore, Inserting
<1>6. CASE UNCHANGED vars
  BY <1>6, DataElsewhere DEF vars, SameOrFlushed
<1>7. ASSUME NEW r \in Readers, Get(r) \/ Lookup(r) PROVE DataOK'
  BY <1>7, DataElsewhere DEF Get, Lookup, SameOrFlushed
<1>8. CASE Elsewhere
  BY <1>8, ElsewhereEffect, DataElsewhere
<1> QED
  BY <1>2, <1>3, <1>4, <1>5, <1>6, <1>7, <1>8, DataRoom, DataLog, DataSync, DataInsert, DataFinish
     DEF Next, Elsewhere

-----------------------------------------------------------------------------
(* The readers.                                                            *)

\* The fields of a reader.
LEMMA ReaderFields ==
  ASSUME rd \in [Readers -> ReaderStates], NEW r \in Readers
  PROVE  /\ rd[r] \in ReaderStates /\ rd[r].snap \in Nat /\ rd[r].got \in SUBSET Nat
         /\ rd[r].tables \in SUBSET Nat /\ rd[r].mem \in 1 .. MaxLogs /\ rd[r].imm \in 0 .. MaxLogs
<1>1. rd[r] \in ReaderStates
  OBVIOUS
<1> QED
  BY <1>1 DEF ReaderStates

\* What was held and numbered up to lastSequence stays so, and new numbers
\* are higher.
StoreGrows ==
    /\ d'.lastSequence \in Nat /\ d'.lastSequence >= d.lastSequence
    /\ \A n \in 1 .. MaxLogs : \A s \in Nat :
          s <= d.lastSequence => (s \in d'.mem[n] <=> s \in d.mem[n])
    /\ \A s \in Nat : s <= d.lastSequence => (s \in Held(d') <=> s \in Held(d))
    /\ \A y \in Writers :
          \/ w'[y].seqs = w[y].seqs
          \/ w[y].seqs = {} /\ \A s \in w'[y].seqs : d.lastSequence < s

\* A step that neither inserts, flushes nor numbers.
LEMMA SameGrows ==
  ASSUME d.lastSequence \in Nat, d'.mem = d.mem, d'.tables = d.tables,
         d'.lastSequence = d.lastSequence, \A y \in Writers : w'[y].seqs = w[y].seqs
  PROVE  StoreGrows
BY DEF StoreGrows, Held

LEMMA InsertGrows ==
  ASSUME IInv, NEW x \in Writers, Insert(x)
  PROVE  StoreGrows
<1>1. /\ TypeOK /\ QueueOK /\ NumbersOK /\ d \in DatabaseStates
      /\ d.lastSequence \in Nat /\ WrittenOK(x)
  BY DataFacts
<1>2. PICK s \in w[x].left :
        /\ Only(x) /\ w[x].pc = "insert"
        /\ d'.mem = [d.mem EXCEPT ![d.logNumber] = @ \cup {s}]
        /\ d'.tables = d.tables /\ d'.lastSequence = d.lastSequence
  BY <1>1, InsertDoes
<1>3. d.lastSequence < s
  <2>1. s \in GroupSeqs(x) /\ w[x].pc \in Steps
    BY <1>1, <1>2 DEF WrittenOK, Steps
  <2> QED
    BY <2>1, <1>1, GroupIsNew
<1>4. /\ d.mem \in [1 .. MaxLogs -> SUBSET Nat] /\ d.logNumber \in 1 .. MaxLogs
      /\ \A n \in 1 .. MaxLogs, t \in Nat : t # s => (t \in d'.mem[n] <=> t \in d.mem[n])
  BY <1>1, <1>2, DatabaseFields
<1>5. \A t \in Nat : t <= d.lastSequence => t # s
  BY <1>1, <1>3
<1>6. \A t \in Nat : t <= d.lastSequence => (t \in Held(d') <=> t \in Held(d))
  <2> TAKE t \in Nat
  <2>1. t \in Held(d') <=> t \in d'.tables \/ \E n \in 1 .. MaxLogs : t \in d'.mem[n]
    BY HeldWhere
  <2>2. t \in Held(d) <=> t \in d.tables \/ \E n \in 1 .. MaxLogs : t \in d.mem[n]
    BY HeldWhere
  <2> QED
    BY <2>1, <2>2, <1>2, <1>4, <1>5
<1> QED
  BY <1>1, <1>2, <1>4, <1>5, <1>6, SMTT(60) DEF StoreGrows, Only

LEMMA FlushGrows ==
  ASSUME IInv, w' = w, SameOrFlushed(d')
  PROVE  StoreGrows
<1>1. d \in DatabaseStates /\ d.lastSequence \in Nat
  BY DataFacts
<1>2. /\ d'.mem = d.mem /\ d'.lastSequence = d.lastSequence
      /\ \/ d'.imm = d.imm /\ d'.tables = d.tables
         \/ d.imm # 0 /\ d'.imm = 0 /\ d'.tables = d.tables \cup d.mem[d.imm]
  BY DEF SameOrFlushed
<1>3. d.imm \in 0 .. MaxLogs
  BY <1>1, DatabaseFields
<1>4. \A t : t \in Held(d') <=> t \in Held(d)
  <2> TAKE t
  <2>1. t \in Held(d') <=> t \in d'.tables \/ \E n \in 1 .. MaxLogs : t \in d'.mem[n]
    BY HeldWhere
  <2>2. t \in Held(d) <=> t \in d.tables \/ \E n \in 1 .. MaxLogs : t \in d.mem[n]
    BY HeldWhere
  <2>3. t \in d'.tables <=> t \in d.tables \/ (t \in d'.tables /\ t \in d.mem[d.imm] /\ d.imm \in 1 .. MaxLogs)
    BY <1>2, <1>3
  <2> QED
    BY <2>1, <2>2, <2>3, <1>2
<1> QED
  BY <1>1, <1>2, <1>4 DEF StoreGrows

LEMMA Grows ==
  ASSUME IInv, [Next]_vars
  PROVE  StoreGrows
<1>1. TypeOK /\ QueueOK /\ d.lastSequence \in Nat
  BY DataFacts
<1>2. ASSUME NEW x \in Writers,
             Enqueue(x) \/ AwaitTurn(x) \/ Delayed(x) \/ Reply(x) \/ LogGroup(x) \/ SyncLog(x)
      PROVE  StoreGrows
  <2>1. Only(x) /\ d'.mem = d.mem /\ d'.tables = d.tables /\ d'.lastSequence = d.lastSequence
    <3>1. CASE Enqueue(x)
      BY <3>1, <1>1, EnqueueDoes DEF Enqueue
    <3>2. CASE AwaitTurn(x)
      BY <3>2, <1>1, AwaitTurnDoes DEF AwaitTurn
    <3>3. CASE Delayed(x)
      BY <3>3, <1>1, DelayedDoes DEF Delayed
    <3>4. CASE Reply(x)
      BY <3>4, <1>1, ReplyDoes DEF Reply
    <3>5. CASE LogGroup(x)
      BY <3>5, <1>1, LogGroupDoes
    <3>6. CASE SyncLog(x)
      BY <3>6, <1>1, SyncLogDoes
    <3> QED
      BY <1>2, <3>1, <3>2, <3>3, <3>4, <3>5, <3>6
  <2> QED
    BY <2>1, <1>1, SameGrows DEF Only
<1>3. ASSUME NEW x \in Writers, MakeRoomForWrite(x) PROVE StoreGrows
  <2>1. d'.mem = d.mem /\ d'.tables = d.tables /\ d'.lastSequence = d.lastSequence
    BY <1>3, RoomEffect DEF SameOrSwitched
  <2>2. Held(d') = Held(d)
    BY <2>1 DEF Held
  <2> QED
    BY <2>1, <2>2, <1>1, <1>3, RoomMoves DEF StoreGrows
<1>4. ASSUME NEW x \in Writers, FinishGroup(x) PROVE StoreGrows
  <2>1. d'.mem = d.mem /\ d'.tables = d.tables /\ d'.lastSequence >= d.lastSequence /\ TypeOK'
    BY <1>4, FinishEffect
  <2>2. d'.lastSequence \in Nat
    BY <2>1 DEF TypeOK, DatabaseStates
  <2>3. Held(d') = Held(d)
    BY <2>1 DEF Held
  <2> QED
    BY <2>1, <2>2, <2>3, <1>1, <1>4, FinishGroupDoes DEF StoreGrows
<1>5. CASE UNCHANGED vars
  BY <1>1, <1>5, SameGrows DEF vars
<1>6. ASSUME NEW r \in Readers, Get(r) \/ Lookup(r) PROVE StoreGrows
  BY <1>1, <1>6, SameGrows DEF Get, Lookup
<1>7. CASE Elsewhere
  BY <1>7, ElsewhereEffect, FlushGrows
<1> QED
  BY <1>2, <1>3, <1>4, <1>5, <1>6, <1>7, InsertGrows DEF Next, Elsewhere

\* The steps of the others do not disturb a reader.
LEMMA ReaderStays ==
  ASSUME IInv, TypeOK', StoreGrows, NEW r \in Readers, rd'[r] = rd[r]
  PROVE  ReaderOK(r)'
<1>1. /\ ReaderOK(r) /\ d.lastSequence \in Nat
      /\ rd[r].snap \in Nat /\ rd[r].got \in SUBSET Nat
      /\ rd[r].mem \in 1 .. MaxLogs /\ rd[r].imm \in 0 .. MaxLogs
      /\ \A x \in Writers : w[x].seqs \in SUBSET Nat
  BY DataFacts, ReaderFields DEF IInv, TypeOK, ReadOK
<1>2. /\ d'.lastSequence \in Nat /\ d'.lastSequence >= d.lastSequence
      /\ rd[r].snap <= d.lastSequence
  BY <1>1 DEF StoreGrows, ReaderOK
<1>3. rd'[r].snap <= d'.lastSequence /\ \A s \in rd'[r].got : s <= d'.lastSequence
  <2>1. \A s \in rd[r].got : s \in Nat /\ s <= d.lastSequence
    BY <1>1 DEF ReaderOK
  <2> QED
    BY <2>1, <1>1, <1>2
<1>4. ASSUME NEW s \in 0 .. rd[r].snap
      PROVE  (s \in Seen(r)' <=> s \in Seen(r)) /\ (s \in Held(d') <=> s \in Held(d))
  <2>1. s \in Nat /\ s <= d.lastSequence
    BY <1>1, <1>2, <1>4
  <2> QED
    BY <2>1, <1>1 DEF StoreGrows, Seen
<1>5. \A x \in Writers : \/ \A s \in w'[x].seqs : s <= rd'[r].snap
                         \/ \A s \in w'[x].seqs : s > rd'[r].snap
  <2> TAKE x \in Writers
  <2>1. CASE w'[x].seqs = w[x].seqs
    BY <2>1, <1>1 DEF ReaderOK
  <2>2. CASE w'[x].seqs # w[x].seqs
    <3>1. \A s \in w'[x].seqs : d.lastSequence < s
      BY <2>2 DEF StoreGrows
    <3>2. \A s \in w'[x].seqs : s \in Nat
      <4>1. w'[x] \in WriterStates
        BY DEF TypeOK
      <4> QED
        BY <4>1 DEF WriterStates
    <3> QED
      BY <3>1, <3>2, <1>1, <1>2
  <2> QED
    BY <2>1, <2>2
<1> QED
  BY <1>1, <1>3, <1>4, <1>5 DEF ReaderOK

LEMMA GetType ==
  ASSUME TypeOK, NEW r \in Readers, Get(r) \/ Lookup(r)
  PROVE  TypeOK'
<1>1. /\ rd \in [Readers -> ReaderStates] /\ rd[r] \in ReaderStates
      /\ d \in DatabaseStates
  BY DEF TypeOK
<1>2. rd' \in [Readers -> ReaderStates]
  <2>1. CASE Get(r)
    <3>1. [rd[r] EXCEPT !.pc = "read", !.snap = d.lastSequence, !.mem = d.logNumber,
                        !.imm = d.imm, !.tables = d.tables] \in ReaderStates
      BY <1>1, DatabaseFields DEF ReaderStates
    <3> QED
      BY <3>1, <2>1, <1>1 DEF Get
  <2>2. CASE Lookup(r)
    <3> DEFINE got == {s \in Seen(r) : s \leq rd[r].snap}
    <3>1. (\A n \in 1 .. MaxLogs : d.mem[n] \in SUBSET Nat)
      BY <1>1, DatabaseFields
    <3>2. got \in SUBSET Nat
      BY <3>1, <1>1, ReaderFields DEF Seen
    <3>3. rd' = [rd EXCEPT ![r] = [@ EXCEPT !.pc = "idle", !.got = got]]
      BY <2>2 DEF Lookup, Seen
    <3> HIDE DEF got
    <3>4. [rd[r] EXCEPT !.pc = "idle", !.got = got] \in ReaderStates
      BY <3>2, <1>1 DEF ReaderStates
    <3> QED
      BY <3>3, <3>4, <1>1
  <2> QED
    BY <2>1, <2>2
<1> QED
  BY <1>2 DEF TypeOK, Get, Lookup

\* The types and the logs, over a whole step.
LEMMA TypeKept ==
  ASSUME IInv, [Next]_vars
  PROVE  TypeOK' /\ LogsOK'
<1>1. TypeOK /\ LogsOK
  BY DEF IInv
<1>2. ASSUME NEW x \in Writers,
             Enqueue(x) \/ AwaitTurn(x) \/ Delayed(x) \/ LogGroup(x) \/ SyncLog(x) \/ Insert(x) \/ Reply(x)
      PROVE  TypeOK' /\ LogsOK'
  <2>1. /\ bg' = bg /\ d'.imm = d.imm /\ d'.logNumber = d.logNumber /\ d'.keptLog = d.keptLog
        /\ d'.hasImm = d.hasImm /\ d'.level0 = d.level0 /\ (d'.scheduled <=> d.scheduled)
    <3>1. CASE Enqueue(x) \/ AwaitTurn(x) \/ Delayed(x) \/ Reply(x)
      BY <3>1 DEF Enqueue, AwaitTurn, Delayed, Reply
    <3>2. CASE LogGroup(x)
      BY <3>2, <1>1, LogGroupDoes DEF LogGroup
    <3>3. CASE SyncLog(x)
      BY <3>3, <1>1, SyncLogDoes DEF SyncLog
    <3>4. CASE Insert(x)
      BY <3>4, <1>1, InsertDoes DEF Insert
    <3> QED
      BY <1>2, <3>1, <3>2, <3>3, <3>4
  <2>2. LogsOK'
    BY <2>1, <1>1 DEF LogsOK
  <2> QED
    BY <2>2, <1>2, WriteType
<1>3. CASE UNCHANGED vars
  BY <1>1, <1>3 DEF vars, TypeOK, LogsOK
<1>4. ASSUME NEW r \in Readers, Get(r) \/ Lookup(r) PROVE TypeOK' /\ LogsOK'
  <2>1. d' = d /\ bg' = bg
    BY <1>4 DEF Get, Lookup
  <2>2. LogsOK'
    BY <2>1, <1>1 DEF LogsOK
  <2> QED
    BY <2>2, <1>1, <1>4, GetType
<1> QED
  BY <1>2, <1>3, <1>4, RoomEffect, FinishEffect, ElsewhereEffect DEF Next, Elsewhere

\* At the moment of a Get the current memtable, imm_ and the tables hold
\* everything, and lastSequence divides no batch.
LEMMA GetSees ==
  ASSUME IInv, NEW r \in Readers, Get(r)
  PROVE  ReaderOK(r)'
<1>1. /\ OldTables /\ d \in DatabaseStates /\ d.lastSequence \in Nat
      /\ \A y \in Writers : NumberOK(y)
      /\ ReaderOK(r) /\ rd \in [Readers -> ReaderStates] /\ rd[r] \in ReaderStates
  BY DataFacts DEF IInv, TypeOK, ReadOK
<1>2. /\ rd'[r].snap = d.lastSequence /\ rd'[r].mem = d.logNumber /\ rd'[r].imm = d.imm
      /\ rd'[r].tables = d.tables /\ rd'[r].got = rd[r].got /\ d' = d /\ w' = w
  <2>1. rd'[r] = [rd[r] EXCEPT !.pc = "read", !.snap = d.lastSequence, !.mem = d.logNumber,
                               !.imm = d.imm, !.tables = d.tables]
    BY <1>1 DEF Get
  <2> QED
    BY <2>1, <1>1 DEF Get, ReaderStates
<1>3. d.logNumber \in 1 .. MaxLogs /\ d.imm \in 0 .. MaxLogs
  BY <1>1, DatabaseFields
<1>4. \A s : s \in Seen(r)' <=> s \in Held(d')
  <2> TAKE s
  <2>1. s \in Held(d) <=> s \in d.tables \/ \E n \in 1 .. MaxLogs : s \in d.mem[n]
    BY HeldWhere
  <2>2. s \in Seen(r)' <=> \/ s \in d.mem[d.logNumber] \/ s \in d.tables
                           \/ (d.imm # 0 /\ s \in d.mem[d.imm])
    BY <1>2 DEF Seen
  <2>3. ASSUME NEW n \in 1 .. MaxLogs, s \in d.mem[n]
        PROVE  n = d.logNumber \/ n = d.imm \/ s \in d.tables
    <3>1. n > d.logNumber \/ n = d.logNumber \/ n < d.logNumber
      BY <1>3
    <3> QED
      BY <3>1, <2>3, <1>1 DEF OldTables
  <2> QED
    BY <2>1, <2>2, <2>3, <1>2, <1>3
<1>5. \A x \in Writers : \/ \A s \in w[x].seqs : s <= d.lastSequence
                         \/ \A s \in w[x].seqs : s > d.lastSequence
  <2> TAKE x \in Writers
  <2>1. w[x].seqs \in SUBSET Nat
    BY DataFacts
  <2> QED
    BY <2>1, <1>1 DEF NumberOK
<1> QED
  BY <1>1, <1>2, <1>4, <1>5 DEF ReaderOK

LEMMA LookupFinds ==
  ASSUME IInv, NEW r \in Readers, Lookup(r)
  PROVE  /\ ReaderOK(r)' /\ rd[r].pc = "read" /\ d' = d /\ w' = w
         /\ rd'[r].got = {s \in Seen(r) : s <= rd[r].snap} /\ rd'[r].snap = rd[r].snap
<1>1. /\ ReaderOK(r) /\ rd \in [Readers -> ReaderStates] /\ rd[r] \in ReaderStates
      /\ d \in DatabaseStates /\ d.lastSequence \in Nat
  BY DataFacts DEF IInv, TypeOK, ReadOK
<1> DEFINE got == {s \in Seen(r) : s <= rd[r].snap}
<1>2. rd' = [rd EXCEPT ![r] = [@ EXCEPT !.pc = "idle", !.got = got]] /\ rd[r].pc = "read" /\ d' = d /\ w' = w
  BY DEF Lookup, Seen
<1>3. got \in SUBSET Nat
  <2>1. (\A n \in 1 .. MaxLogs : d.mem[n] \in SUBSET Nat)
    BY <1>1, DatabaseFields
  <2> QED
    BY <2>1, <1>1, ReaderFields DEF Seen
<1>4. \A s \in got : s <= d.lastSequence
  BY <1>1, <1>3, ReaderFields DEF ReaderOK
<1>5. rd'[r] = [rd[r] EXCEPT !.pc = "idle", !.got = got]
  BY <1>1, <1>2
<1> HIDE DEF got
<1>6. rd'[r].pc = "idle" /\ rd'[r].got = got /\ rd'[r].snap = rd[r].snap
  BY <1>1, <1>5 DEF ReaderStates
<1> QED
  BY <1>1, <1>2, <1>4, <1>6 DEF ReaderOK, got

LEMMA ReadKept ==
  ASSUME IInv, [Next]_vars
  PROVE  ReadOK'
<1>1. StoreGrows /\ TypeOK' /\ rd \in [Readers -> ReaderStates]
  BY Grows, TypeKept DEF IInv, TypeOK
<1>2. CASE rd' = rd
  BY <1>1, <1>2, ReaderStays DEF ReadOK
<1>3. ASSUME NEW r \in Readers, Get(r) \/ Lookup(r) PROVE ReadOK'
  <2>1. ReaderOK(r)'
    BY <1>3, GetSees, LookupFinds
  <2>2. ASSUME NEW q \in Readers, q # r PROVE ReaderOK(q)'
    <3>1. rd'[q] = rd[q]
      BY <2>2, <1>1, <1>3 DEF Get, Lookup
    <3> QED
      BY <3>1, <1>1, ReaderStays
  <2> QED
    BY <2>1, <2>2 DEF ReadOK
<1>4. rd' = rd \/ \E r \in Readers : Get(r) \/ Lookup(r)
  BY ElsewhereEffect DEF Next, Elsewhere, vars, Enqueue, AwaitTurn, MakeRoomForWrite, Delayed,
     LogGroup, SyncLog, Insert, FinishGroup, Reply
<1> QED
  BY <1>2, <1>3, <1>4

-----------------------------------------------------------------------------
(* What a Write acknowledged is kept.                                      *)

LEMMA NextIInv == IInv /\ [Next]_vars => IInv'
<1> SUFFICES ASSUME IInv, [Next]_vars PROVE IInv'
  OBVIOUS
<1> QED
  BY TypeKept, QueueKept, NumbersKept, DataKept, ReadKept DEF IInv

\* The inductive invariant holds in every state of the threads.
THEOREM Invariance == Spec => []IInv
<1> QED
  BY InitIInv, NextIInv, PTL DEF Spec

LEMMA TypesShown == IInv => WriteTypeOK
<1> SUFFICES ASSUME IInv PROVE WriteTypeOK
  OBVIOUS
<1>1. /\ TypeOK /\ LogsOK /\ QueueOK /\ HeldNumbered /\ d \in DatabaseStates
  BY DataFacts
<1>2. /\ d.logNumber \in 1 .. MaxLogs /\ d.imm \in 0 .. MaxLogs /\ d.keptLog \in 1 .. MaxLogs
      /\ d.level0 \in Nat /\ d.hasImm \in BOOLEAN /\ d.scheduled \in BOOLEAN
  BY <1>1 DEF DatabaseStates
<1>3. d.imm \in {0, d.logNumber - 1} /\ d.keptLog \in 1 .. d.logNumber /\ d.level0 \in 0 .. L0Stop
  BY <1>1, <1>2 DEF LogsOK
<1>4. d.hasImm = (d.imm # 0) /\ d.scheduled = (bg.pc # "idle")
  BY <1>1, <1>2 DEF LogsOK
<1>5. cvWait \subseteq Range(queue)
  BY <1>1 DEF QueueOK, Range
<1> QED
  BY <1>1, <1>2, <1>3, <1>4, <1>5 DEF WriteTypeOK, HeldNumbered, TypeOK

LEMMA KeptShown == IInv => Durable
<1> SUFFICES ASSUME IInv, NEW x \in Succeeded, NEW s \in w[x].seqs
             PROVE  s \in d.tables \cup UNION {IF x \in Synchronous THEN d.synced[n] ELSE d.logged[n] :
                                                n \in d.keptLog .. d.logNumber}
  BY DEF Durable
<1>1. /\ x \in Writers /\ LogsOK /\ d \in DatabaseStates /\ WriterOK(x) /\ WrittenOK(x)
      /\ w[x].pc = "returned" /\ w[x].status = "ok"
  BY DataFacts DEF Succeeded
<1>2. Kept(s, x)
  BY <1>1 DEF WriterOK, WrittenOK
<1>3. d.logNumber \in 1 .. MaxLogs /\ d.imm \in 0 .. MaxLogs /\ d.keptLog \in 1 .. MaxLogs
  BY <1>1, DatabaseFields
<1>4. \A n \in {d.imm, d.logNumber} \ {0} : n \in d.keptLog .. d.logNumber
  BY <1>1, <1>3 DEF LogsOK
<1> QED
  BY <1>2, <1>4 DEF Kept

\* A write that returned OK is in a table or in a log that recovery reads, in
\* the synced part of it if the write is synchronous, in every state of any
\* number of writers, readers and manual compactions: whichever writer wrote
\* the group in Write, and however often MakeRoomForWrite switched memtables
\* and CompactMemTable replaced their logs.
THEOREM AcknowledgedKeptHolds == Spec => []AcknowledgedKept
<1>1. IInv => AcknowledgedKept
  BY TypesShown, KeptShown DEF AcknowledgedKept
<1> QED
  BY <1>1, Invariance, PTL

-----------------------------------------------------------------------------
(* Write and Get are atomic.                                               *)
(*                                                                         *)
(* The mapped variables of AtomicStore, as operators of the states they    *)
(* are taken from.                                                         *)

\* A batch that is held as a whole, with numbers up to n.
Whole(seqs, held, n) == seqs # {} /\ seqs \subseteq held /\ \A s \in seqs : s <= n

InEffectAt(ws, held, n) == {x \in Batches : Whole(ws[x].seqs, held, n)}

OrderedIn(ws, B) ==
    {p \in B \X B : p[1] = p[2] \/ \A s \in ws[p[1]].seqs, t \in ws[p[2]].seqs : s < t}

StoreAt(ws, held, n) == OrderedIn(ws, InEffectAt(ws, held, n))

FoundIn(ws, got) ==
    LET touched == {x \in Batches : ws[x].seqs \cap got # {}}
        torn == {x \in touched : ~(ws[x].seqs \subseteq got)}
    IN  OrderedIn(ws, touched \ torn) \cup (torn \X {None})

CallOf(ws) ==
    [x \in Batches |-> IF ws[x].pc = "start" THEN "no"
                       ELSE IF ws[x].pc = "returned" THEN ws[x].status ELSE "called"]
SeenBy(ws, held, rs) == [r \in Readers |-> StoreAt(ws, held, rs[r].snap)]
ResultOf(ws, rs) == [r \in Readers |-> FoundIn(ws, rs[r].got)]

\* A store is the same if the same batches are in effect.
LEMMA StoreSame ==
  ASSUME NEW v, NEW u, NEW h, NEW g, NEW n,
         \A x \in Batches : Whole(v[x].seqs, h, n) <=> Whole(u[x].seqs, g, n),
         \A x \in Batches : Whole(u[x].seqs, g, n) => v[x].seqs = u[x].seqs
  PROVE  StoreAt(v, h, n) = StoreAt(u, g, n)
<1>1. InEffectAt(v, h, n) = InEffectAt(u, g, n)
  BY DEF InEffectAt
<1>2. \A x \in InEffectAt(u, g, n) : v[x].seqs = u[x].seqs
  BY DEF InEffectAt
<1> QED
  BY <1>1, <1>2 DEF StoreAt, OrderedIn

\* What was in effect stays in effect, in its order, and a snapshot stays.
LEMMA StoreStays ==
  ASSUME IInv, StoreGrows, NEW n \in Nat, n <= d.lastSequence, TypeOK'
  PROVE  /\ StoreAt(w', Held(d'), n) = StoreAt(w, Held(d), n)
         /\ InEffectAt(w', Held(d'), n) = InEffectAt(w, Held(d), n)
<1>1. d.lastSequence \in Nat /\ \A x \in Writers : w[x].seqs \in SUBSET Nat /\ w'[x].seqs \in SUBSET Nat
  <2>1. \A x \in Writers : w'[x] \in WriterStates
    BY DEF TypeOK
  <2>2. \A x \in Writers : w'[x].seqs \in SUBSET Nat
    BY <2>1 DEF WriterStates
  <2> QED
    BY <2>2, DataFacts
<1>2. ASSUME NEW x \in Batches
      PROVE  /\ Whole(w'[x].seqs, Held(d'), n) <=> Whole(w[x].seqs, Held(d), n)
             /\ Whole(w[x].seqs, Held(d), n) => w'[x].seqs = w[x].seqs
  <2>1. x \in Writers
    BY DEF Batches
  <2>2. CASE w'[x].seqs = w[x].seqs
    <3>1. \A s \in w[x].seqs : s \in Nat /\ (s <= n => s <= d.lastSequence)
      BY <2>1, <1>1
    <3>2. \A s \in w[x].seqs : s <= n => (s \in Held(d') <=> s \in Held(d))
      BY <3>1 DEF StoreGrows
    <3> QED
      BY <3>2, <2>2 DEF Whole
  <2>3. CASE w'[x].seqs # w[x].seqs
    <3>1. w[x].seqs = {} /\ \A s \in w'[x].seqs : d.lastSequence < s
      BY <2>1, <2>3 DEF StoreGrows
    <3>2. \A s \in w'[x].seqs : ~(s <= n)
      BY <3>1, <2>1, <1>1
    <3> QED
      BY <3>1, <3>2 DEF Whole
  <2> QED
    BY <2>2, <2>3
<1>3. InEffectAt(w', Held(d'), n) = InEffectAt(w, Held(d), n)
  BY <1>2 DEF InEffectAt
<1> QED
  BY <1>2, <1>3, StoreSame

\* What a reader found stays what it is.
LEMMA FoundStays ==
  ASSUME IInv, StoreGrows, NEW r \in Readers, TypeOK'
  PROVE  FoundIn(w', rd[r].got) = FoundIn(w, rd[r].got)
<1> DEFINE got == rd[r].got
<1>1. /\ d.lastSequence \in Nat /\ got \in SUBSET Nat /\ \A s \in got : s <= d.lastSequence
  BY DataFacts, ReaderFields DEF IInv, TypeOK, ReadOK, ReaderOK
<1>2. ASSUME NEW x \in Batches
      PROVE  /\ w'[x].seqs \cap got # {} <=> w[x].seqs \cap got # {}
             /\ w[x].seqs \cap got # {} => w'[x].seqs = w[x].seqs
  <2>1. x \in Writers
    BY DEF Batches
  <2>2. CASE w'[x].seqs # w[x].seqs
    <3>1. w[x].seqs = {} /\ \A s \in w'[x].seqs : d.lastSequence < s
      BY <2>1, <2>2 DEF StoreGrows
    <3>2. w'[x].seqs \cap got = {}
      BY <3>1, <1>1
    <3> QED
      BY <3>1, <3>2
  <2> QED
    BY <2>2
<1> HIDE DEF got
<1> DEFINE touched(ws) == {x \in Batches : ws[x].seqs \cap got # {}}
           torn(ws) == {x \in touched(ws) : ~(ws[x].seqs \subseteq got)}
<1>3. touched(w') = touched(w) /\ \A x \in touched(w) : w'[x].seqs = w[x].seqs
  BY <1>2
<1>4. torn(w') = torn(w)
  BY <1>3
<1>5. OrderedIn(w', touched(w) \ torn(w)) = OrderedIn(w, touched(w) \ torn(w))
  <2>1. \A x \in touched(w) \ torn(w) : w'[x].seqs = w[x].seqs
    BY <1>3
  <2> HIDE DEF touched, torn
  <2> QED
    BY <2>1 DEF OrderedIn
<1>6. FoundIn(w', got) = OrderedIn(w', touched(w') \ torn(w')) \cup (torn(w') \X {None})
  BY DEF FoundIn
<1>7. FoundIn(w, got) = OrderedIn(w, touched(w) \ torn(w)) \cup (torn(w) \X {None})
  BY DEF FoundIn
<1> HIDE DEF touched, torn
<1>8. FoundIn(w', got) = FoundIn(w, got)
  BY <1>3, <1>4, <1>5, <1>6, <1>7
<1> QED
  BY <1>8 DEF got

\* The mapped variables of AtomicStore and its actions, in these terms.
CallNow == CallOf(w)
StoreNow == StoreAt(w, Held(d), d.lastSequence)
SeenNow == SeenBy(w, Held(d), rd)
ResultNow == ResultOf(w, rd)

InEffectIn(store) == {x \in Batches : <<x, x>> \in store}

OrdersOf(S) ==
    {R \in SUBSET (S \X S) :
        /\ \A u, v \in S : <<u, v>> \in R \/ <<v, u>> \in R
        /\ \A u, v \in S : <<u, v>> \in R /\ <<v, u>> \in R => u = v
        /\ \A t, u, v \in S : <<t, u>> \in R /\ <<u, v>> \in R => <<t, v>> \in R}

LEMMA Mapped ==
  /\ Abstract!vars = <<CallNow, StoreNow, SeenNow, ResultNow>>
  /\ Abstract!vars' = <<CallNow', StoreNow', SeenNow', ResultNow'>>
<1> USE DEF CallNow, StoreNow, SeenNow, ResultNow
<1> QED
  BY DEF Abstract!vars, CallOf, StoreAt, SeenBy, ResultOf, FoundIn, Found, OrderedIn, Ordered, UpTo,
         InEffectAt, Whole

LEMMA ActionsMapped ==
  /\ CallNow = [x \in Batches |-> "no"] /\ StoreNow = {} /\ SeenNow = [r \in Readers |-> {}]
     /\ ResultNow = [r \in Readers |-> {}] => Abstract!Init
  /\ \A x \in Batches :
        CallNow[x] = "no" /\ CallNow' = [CallNow EXCEPT ![x] = "called"]
        /\ StoreNow' = StoreNow /\ SeenNow' = SeenNow /\ ResultNow' = ResultNow => Abstract!Call(x)
  /\ \A x \in Batches :
        CallNow[x] = "called"
        /\ CallNow' = [CallNow EXCEPT ![x] = IF x \in InEffectIn(StoreNow) THEN "ok" ELSE "error"]
        /\ StoreNow' = StoreNow /\ SeenNow' = SeenNow /\ ResultNow' = ResultNow => Abstract!Return(x)
  /\ (\E S \in SUBSET {x \in Batches \ InEffectIn(StoreNow) : CallNow[x] = "called"} :
        /\ \E R \in OrdersOf(S) : StoreNow' = StoreNow \cup (InEffectIn(StoreNow) \X S) \cup R
        /\ CallNow' = CallNow /\ SeenNow' = SeenNow /\ ResultNow' = ResultNow) => Abstract!Commit
  /\ \A r \in Readers :
        SeenNow' = [SeenNow EXCEPT ![r] = StoreNow]
        /\ CallNow' = CallNow /\ StoreNow' = StoreNow /\ ResultNow' = ResultNow => Abstract!Read(r)
  /\ \A r \in Readers :
        ResultNow' = [ResultNow EXCEPT ![r] = SeenNow[r]]
        /\ CallNow' = CallNow /\ StoreNow' = StoreNow /\ SeenNow' = SeenNow => Abstract!Answer(r)
<1>1. /\ CallNow = [x \in Batches |-> IF w[x].pc = "start" THEN "no"
                                      ELSE IF w[x].pc = "returned" THEN w[x].status ELSE "called"]
      /\ StoreNow = UpTo(d.lastSequence)
      /\ SeenNow = [r \in Readers |-> UpTo(rd[r].snap)]
      /\ ResultNow = [r \in Readers |-> Found(rd[r].got)]
  BY DEF CallNow, StoreNow, SeenNow, ResultNow, CallOf, StoreAt, SeenBy, ResultOf, FoundIn, Found,
         OrderedIn, Ordered, UpTo, InEffectAt, Whole
<1>2. /\ CallNow' = [x \in Batches |-> IF w'[x].pc = "start" THEN "no"
                                       ELSE IF w'[x].pc = "returned" THEN w'[x].status ELSE "called"]
      /\ StoreNow' = UpTo(d.lastSequence)'
      /\ SeenNow' = [r \in Readers |-> UpTo(rd[r].snap)]'
      /\ ResultNow' = [r \in Readers |-> Found(rd[r].got)]'
  BY DEF CallNow, StoreNow, SeenNow, ResultNow, CallOf, StoreAt, SeenBy, ResultOf, FoundIn, Found,
         OrderedIn, Ordered, UpTo, InEffectAt, Whole
<1> HIDE DEF CallNow, StoreNow, SeenNow, ResultNow
<1>3. ASSUME CallNow = [x \in Batches |-> "no"], StoreNow = {}, SeenNow = [r \in Readers |-> {}],
             ResultNow = [r \in Readers |-> {}]
      PROVE  Abstract!Init
  BY ONLY <1>1, <1>3 DEF Abstract!Init
<1>4. ASSUME NEW x \in Batches, CallNow[x] = "no", CallNow' = [CallNow EXCEPT ![x] = "called"],
             StoreNow' = StoreNow, SeenNow' = SeenNow, ResultNow' = ResultNow
      PROVE  Abstract!Call(x)
  BY ONLY <1>1, <1>2, <1>4 DEF Abstract!Call
<1>5. ASSUME NEW x \in Batches, CallNow[x] = "called",
             CallNow' = [CallNow EXCEPT ![x] = IF x \in InEffectIn(StoreNow) THEN "ok" ELSE "error"],
             StoreNow' = StoreNow, SeenNow' = SeenNow, ResultNow' = ResultNow
      PROVE  Abstract!Return(x)
  BY ONLY <1>1, <1>2, <1>5 DEF Abstract!Return, Abstract!InEffect, InEffectIn
<1>6. ASSUME NEW S \in SUBSET {x \in Batches \ InEffectIn(StoreNow) : CallNow[x] = "called"},
             NEW R \in OrdersOf(S), StoreNow' = StoreNow \cup (InEffectIn(StoreNow) \X S) \cup R,
             CallNow' = CallNow, SeenNow' = SeenNow, ResultNow' = ResultNow
      PROVE  Abstract!Commit
  <2>1. InEffectIn(StoreNow) = Abstract!InEffect
    BY <1>1 DEF Abstract!InEffect, InEffectIn
  <2>2. R \in Abstract!Orders(S)
    BY <1>6 DEF Abstract!Orders, OrdersOf
  <2>3. S \in SUBSET {x \in Batches \ Abstract!InEffect : CallNow[x] = "called"}
    BY <1>6, <2>1
  <2>4. StoreNow' = StoreNow \cup (Abstract!InEffect \X S) \cup R
    BY <1>6, <2>1
  <2> DEFINE calls == [x \in Batches |-> IF w[x].pc = "start" THEN "no"
                                         ELSE IF w[x].pc = "returned" THEN w[x].status ELSE "called"]
             snaps == [r \in Readers |-> UpTo(rd[r].snap)]
             results == [r \in Readers |-> Found(rd[r].got)]
  <2>5. S \in SUBSET {x \in Batches \ Abstract!InEffect : calls[x] = "called"}
    BY ONLY <2>3, <1>1
  <2>6. UpTo(d.lastSequence)' = UpTo(d.lastSequence) \cup (Abstract!InEffect \X S) \cup R
    BY ONLY <2>4, <1>1, <1>2
  <2>7. calls' = calls /\ snaps' = snaps /\ results' = results
    BY ONLY <1>6, <1>1, <1>2
  <2>8. \E T \in SUBSET {x \in Batches \ Abstract!InEffect : calls[x] = "called"} :
          /\ \E Q \in Abstract!Orders(T) :
                UpTo(d.lastSequence)' = UpTo(d.lastSequence) \cup (Abstract!InEffect \X T) \cup Q
          /\ UNCHANGED <<calls, snaps, results>>
    BY ONLY <2>2, <2>5, <2>6, <2>7
  <2> QED
    BY ONLY <2>8 DEF Abstract!Commit
<1>7. ASSUME NEW r \in Readers, SeenNow' = [SeenNow EXCEPT ![r] = StoreNow],
             CallNow' = CallNow, StoreNow' = StoreNow, ResultNow' = ResultNow
      PROVE  Abstract!Read(r)
  BY ONLY <1>1, <1>2, <1>7 DEF Abstract!Read
<1>8. ASSUME NEW r \in Readers, ResultNow' = [ResultNow EXCEPT ![r] = SeenNow[r]],
             CallNow' = CallNow, StoreNow' = StoreNow, SeenNow' = SeenNow
      PROVE  Abstract!Answer(r)
  BY ONLY <1>1, <1>2, <1>8 DEF Abstract!Answer
<1> QED
  BY <1>3, <1>4, <1>5, <1>6, <1>7, <1>8

\* Without a commit the store stays, and so do the readers' snapshots and
\* results when no reader moves.
LEMMA StoreKeeps ==
  ASSUME IInv, [Next]_vars
  PROVE  /\ d'.lastSequence = d.lastSequence => StoreNow' = StoreNow
         /\ rd' = rd => SeenNow' = SeenNow /\ ResultNow' = ResultNow
         /\ \A r \in Readers : rd'[r] = rd[r] =>
                SeenNow'[r] = SeenNow[r] /\ ResultNow'[r] = ResultNow[r]
<1>1. StoreGrows /\ TypeOK' /\ d.lastSequence \in Nat
  BY Grows, TypeKept, DataFacts
<1>2. d'.lastSequence = d.lastSequence => StoreNow' = StoreNow
  BY <1>1, StoreStays DEF StoreNow
<1>3. ASSUME NEW r \in Readers, rd'[r] = rd[r]
      PROVE  SeenNow'[r] = SeenNow[r] /\ ResultNow'[r] = ResultNow[r]
  <2>1. rd[r].snap \in Nat /\ rd[r].snap <= d.lastSequence
    BY ReaderFields DEF IInv, TypeOK, ReadOK, ReaderOK
  <2>2. StoreAt(w', Held(d'), rd[r].snap) = StoreAt(w, Held(d), rd[r].snap)
    BY <2>1, <1>1, StoreStays
  <2>3. FoundIn(w', rd[r].got) = FoundIn(w, rd[r].got)
    BY <1>1, FoundStays
  <2> QED
    BY <2>2, <2>3, <1>3 DEF SeenNow, ResultNow, SeenBy, ResultOf
<1>4. ASSUME rd' = rd PROVE SeenNow' = SeenNow /\ ResultNow' = ResultNow
  <2>1. \A r \in Readers : SeenNow'[r] = SeenNow[r] /\ ResultNow'[r] = ResultNow[r]
    BY <1>3, <1>4
  <2>2. /\ SeenNow = [r \in Readers |-> SeenNow[r]] /\ SeenNow' = [r \in Readers |-> SeenNow'[r]]
        /\ ResultNow = [r \in Readers |-> ResultNow[r]] /\ ResultNow' = [r \in Readers |-> ResultNow'[r]]
    BY DEF SeenNow, ResultNow, SeenBy, ResultOf
  <2> HIDE DEF SeenNow, ResultNow
  <2> QED
    BY <2>1, <2>2
<1> QED
  BY <1>2, <1>3, <1>4

\* The calls stay when no writer starts or returns.
LEMMA CallsStay ==
  ASSUME \A x \in Batches :
            /\ w'[x].pc = "start" <=> w[x].pc = "start"
            /\ w'[x].pc = "returned" <=> w[x].pc = "returned"
            /\ w[x].pc = "returned" => w'[x].status = w[x].status
  PROVE  CallNow' = CallNow
BY DEF CallNow, CallOf

\* A call that returns: of the batch in effect or of no part of it.
LEMMA Settled ==
  ASSUME IInv, NEW x \in Writers, ~Waiting(x)
  PROVE  /\ w[x].done /\ w[x].status = "ok" => \A s \in w[x].seqs : Kept(s, x) /\ s \in Held(d)
         /\ w[x].done /\ w[x].status # "ok" => w[x].seqs \cap Held(d) = {}
         /\ \A s \in w[x].seqs : s <= d.lastSequence
         /\ w[x].seqs \cap Held(d) # {} => w[x].seqs \subseteq Held(d)
<1>1. WriterOK(x) /\ NumberOK(x) /\ WrittenOK(x) /\ d \in DatabaseStates /\ w[x].pc \in
        {"start", "queued", "room", "sleep", "reply", "returned"} \cup Steps
  <2>1. w[x] \in WriterStates
    BY DataFacts
  <2> QED
    BY <2>1, DataFacts DEF WriterStates
<1>2. d.logNumber \in 1 .. MaxLogs /\ d.imm \in 0 .. MaxLogs
  BY <1>1, DatabaseFields
<1>3. ASSUME w[x].done, w[x].status = "ok", NEW s \in w[x].seqs PROVE Kept(s, x) /\ s \in Held(d)
  <2>1. Kept(s, x)
    BY <1>1, <1>3 DEF WrittenOK
  <2>2. s \in d.tables \/ \E n \in 1 .. MaxLogs : s \in d.mem[n]
    BY <2>1, <1>2 DEF Kept
  <2> QED
    BY <2>1, <2>2, HeldWhere
<1>4. w[x].done /\ w[x].status # "ok" => w[x].seqs \cap Held(d) = {}
  BY <1>1 DEF WrittenOK
<1>5. \A s \in w[x].seqs : s <= d.lastSequence
  BY <1>1 DEF NumberOK
<1>6. ~w[x].done => w[x].seqs = {}
  BY <1>1 DEF Waiting, WriterOK, NumberOK
<1> QED
  BY <1>3, <1>4, <1>5, <1>6

\* The end of a group is the moment at which its batches take effect.
LEMMA FinishCommits ==
  ASSUME IInv, NEW x \in Writers, FinishGroup(x)
  PROVE  Abstract!Commit
<1> DEFINE n == d.lastSequence
           m == d'.lastSequence
           A == InEffectAt(w, Held(d), n)
           B == InEffectAt(w, Held(d), m)
           S == B \ A
           R == OrderedIn(w, S)
<1>1. /\ StoreGrows /\ TypeOK' /\ TypeOK /\ QueueOK /\ NumbersOK /\ n \in Nat
      /\ \A y \in Writers : NumberOK(y)
      /\ \A y \in Writers : w[y].seqs \in SUBSET Nat
  BY Grows, TypeKept, DataFacts DEF Next
<1>2. m \in Nat /\ m >= n
  BY <1>1 DEF StoreGrows
<1>3. /\ w[x].pc = "finish"
      /\ \A y \in Writers : w'[y].seqs = w[y].seqs
      /\ \A y \in Writers \ Range(w[x].group) : w'[y] = w[y]
      /\ \A y \in Range(w[x].group) : y \in Writers /\ w'[y].pc = (IF y = x THEN "reply" ELSE w[y].pc)
  BY <1>1, FinishGroupDoes
<1>4. Held(d') = Held(d) /\ rd' = rd
  <2>1. d'.mem = d.mem /\ d'.tables = d.tables /\ rd' = rd
    BY FinishEffect
  <2> QED
    BY <2>1 DEF Held
<1>5. CallNow' = CallNow
  <2>1. ASSUME NEW y \in Range(w[x].group)
        PROVE  w[y].pc \notin {"start", "returned"} /\ w'[y].pc \notin {"start", "returned"}
    <3>1. PICK i \in DOMAIN w[x].group : w[x].group[i] = y
      BY <2>1 DEF Range
    <3>2. /\ queue \in Seq(Writers) /\ queue[i] = y
          /\ DOMAIN w[x].group = 1 .. Len(w[x].group) /\ Len(w[x].group) \in 1 .. Len(queue)
      BY <3>1, <1>1, <1>3, GroupLeads DEF TypeOK, Steps
    <3>3. i \in DOMAIN queue /\ y \in Writers
      BY <3>1, <3>2
    <3>4. Waiting(y)
      BY <3>2, <3>3, <1>1 DEF QueueOK
    <3> QED
      BY <3>4, <2>1, <1>3 DEF Waiting, Steps
  <2> QED
    BY <2>1, <1>3, CallsStay DEF Batches
<1>6. SeenNow' = SeenNow /\ ResultNow' = ResultNow
  BY <1>4, StoreKeeps DEF Next
<1>7. \A y \in A : y \in Batches /\ y \in Writers /\ w[y].seqs # {} /\ w[y].seqs \subseteq Held(d)
                   /\ \A s \in w[y].seqs : s <= n
  BY DEF InEffectAt, Whole, Batches
<1>8. ASSUME NEW y \in S
      PROVE  y \in Batches /\ y \in Writers /\ Waiting(y) /\ w[y].seqs # {} /\ \A s \in w[y].seqs : n < s
  <2>1. y \in Batches /\ w[y].seqs # {} /\ w[y].seqs \subseteq Held(d) /\ y \in Writers
    BY <1>8 DEF InEffectAt, Whole, Batches
  <2>2. ~(\A s \in w[y].seqs : s <= n)
    BY <2>1, <1>8 DEF InEffectAt, Whole
  <2> QED
    BY <2>1, <2>2, <1>1 DEF NumberOK
<1>9. A \subseteq B
  <2> SUFFICES ASSUME NEW y \in A PROVE y \in B
    OBVIOUS
  <2>1. \A s \in w[y].seqs : s \in Nat /\ s <= m
    BY <1>1, <1>2, <1>7
  <2> QED
    BY <2>1, <1>7 DEF InEffectAt, Whole
<1>10. InEffectIn(StoreNow) = A
  <2>1. \A y \in Batches : <<y, y>> \in StoreNow <=> y \in A
    BY DEF StoreNow, StoreAt, OrderedIn
  <2>2. A \subseteq Batches
    BY <1>7
  <2> HIDE DEF A
  <2> QED
    BY <2>1, <2>2 DEF InEffectIn
<1>11. S \in SUBSET {y \in Batches \ InEffectIn(StoreNow) : CallNow[y] = "called"}
  <2>1. \A y \in S : CallNow[y] = "called"
    BY <1>8 DEF CallNow, CallOf, Waiting, Steps
  <2> QED
    BY <2>1, <1>8, <1>10
<1>12. R \in OrdersOf(S)
  <2>1. R \in SUBSET (S \X S)
    BY DEF OrderedIn
  <2>2. \A u, v \in S : <<u, v>> \in R <=> u = v \/ \A s \in w[u].seqs, t \in w[v].seqs : s < t
    BY DEF OrderedIn
  <2>3. \A u \in S : u \in Writers /\ w[u].seqs # {} /\ w[u].seqs \in SUBSET Nat
    BY <1>1, <1>8
  <2> HIDE DEF R, S
  <2>4. \A u, v \in S : <<u, v>> \in R \/ <<v, u>> \in R
    BY <2>2, <2>3, <1>1 DEF NumbersOK, Before
  <2>5. ASSUME NEW u \in S, NEW v \in S, <<u, v>> \in R, <<v, u>> \in R PROVE u = v
    <3>1. PICK s \in w[u].seqs : TRUE
      BY <2>3
    <3>2. PICK t \in w[v].seqs : TRUE
      BY <2>3
    <3>3. s \in Nat /\ t \in Nat /\ ~(s < t /\ t < s)
      BY <2>3, <3>1, <3>2
    <3> QED
      BY <2>2, <2>5, <3>1, <3>2, <3>3
  <2>6. ASSUME NEW t \in S, NEW u \in S, NEW v \in S, <<t, u>> \in R, <<u, v>> \in R
        PROVE  <<t, v>> \in R
    <3>1. CASE t = u \/ u = v
      BY <2>6, <3>1
    <3>2. CASE t # u /\ u # v
      <4>1. PICK k \in w[u].seqs : TRUE
        BY <2>3
      <4>2. ASSUME NEW i \in w[t].seqs, NEW j \in w[v].seqs PROVE i < j
        <5>1. i < k /\ k < j /\ i \in Nat /\ j \in Nat /\ k \in Nat
          BY <2>2, <2>3, <2>6, <3>2, <4>1, <4>2
        <5> QED
          BY <5>1
      <4> QED
        BY <4>2, <2>2
    <3> QED
      BY <3>1, <3>2
  <2> QED
    BY <2>1, <2>4, <2>5, <2>6 DEF OrdersOf
<1>13. StoreNow = OrderedIn(w, A) /\ StoreNow' = OrderedIn(w, B)
  <2>1. InEffectAt(w', Held(d'), m) = B
    BY <1>3, <1>4 DEF InEffectAt, Batches
  <2>2. OrderedIn(w', B) = OrderedIn(w, B)
    <3>1. \A y \in B : w'[y].seqs = w[y].seqs
      BY <1>3 DEF InEffectAt, Batches
    <3> HIDE DEF B
    <3> QED
      BY <3>1 DEF OrderedIn
  <2> QED
    BY <2>1, <2>2 DEF StoreNow, StoreAt
<1>14. StoreNow' = StoreNow \cup (InEffectIn(StoreNow) \X S) \cup R
  <2>1. ASSUME NEW u \in A, NEW v \in S
        PROVE  (\A s \in w[u].seqs, t \in w[v].seqs : s < t) /\ u # v
               /\ ~(\A s \in w[v].seqs, t \in w[u].seqs : s < t)
    <3>1. /\ w[u].seqs # {} /\ w[v].seqs # {} /\ w[u].seqs \in SUBSET Nat /\ w[v].seqs \in SUBSET Nat
          /\ \A s \in w[u].seqs : s <= n
          /\ \A t \in w[v].seqs : n < t
      BY <1>1, <1>7, <1>8, <2>1
    <3>2. ASSUME NEW s \in w[u].seqs, NEW t \in w[v].seqs PROVE s < t /\ ~(t < s)
      <4>1. s \in Nat /\ t \in Nat /\ s <= n /\ n < t
        BY <3>1, <3>2
      <4> QED
        BY <4>1, <1>1
    <3> QED
      BY <3>1, <3>2, <2>1
  <2>2. B = A \cup S /\ A \cap S = {}
    BY <1>9
  <2> HIDE DEF A, B, S
  <2>3. OrderedIn(w, B) = OrderedIn(w, A) \cup (A \X S) \cup R
    BY <2>1, <2>2 DEF OrderedIn
  <2> QED
    BY <2>3, <1>10, <1>13
<1> HIDE DEF S, R
<1> QED
  BY <1>5, <1>6, <1>11, <1>12, <1>14, ActionsMapped

\* A write is called when it is queued.
LEMMA EnqueueCalls ==
  ASSUME IInv, NEW x \in Writers, Enqueue(x)
  PROVE  [Abstract!Next]_(Abstract!vars)
<1>1. /\ Only(x) /\ w[x].pc = "start" /\ w'[x].pc = "queued"
      /\ d'.lastSequence = d.lastSequence /\ rd' = rd
  BY DataFacts, EnqueueDoes DEF Enqueue
<1>2. StoreNow' = StoreNow /\ SeenNow' = SeenNow /\ ResultNow' = ResultNow
  BY <1>1, StoreKeeps DEF Next
<1>3. CASE x \in Batches
  <2>1. CallNow[x] = "no" /\ CallNow' = [CallNow EXCEPT ![x] = "called"]
    BY <1>1, <1>3 DEF CallNow, CallOf, Only, Batches
  <2> QED
    BY <2>1, <1>2, <1>3, ActionsMapped DEF Abstract!Next
<1>4. CASE x \notin Batches
  <2>1. CallNow' = CallNow
    BY <1>1, <1>4, CallsStay DEF Only, Batches
  <2> QED
    BY <2>1, <1>2, Mapped
<1> QED
  BY <1>3, <1>4

\* It returns its status, which tells whether its batch is in effect.
LEMMA ReplyReturns ==
  ASSUME IInv, NEW x \in Writers, Reply(x)
  PROVE  [Abstract!Next]_(Abstract!vars)
<1>1. /\ Only(x) /\ w[x].pc = "reply" /\ w'[x].pc \in {"reply", "returned"}
      /\ w'[x].status = w[x].status \/ (x \in Flushers /\ w'[x].status = "error")
      /\ d'.lastSequence = d.lastSequence /\ rd' = rd
  BY DataFacts, ReplyDoes DEF Reply
<1>2. StoreNow' = StoreNow /\ SeenNow' = SeenNow /\ ResultNow' = ResultNow
  BY <1>1, StoreKeeps DEF Next
<1>3. CASE x \in Batches /\ w'[x].pc = "returned"
  <2>1. /\ w[x].done /\ ~Waiting(x) /\ w'[x].status = w[x].status
        /\ w[x].status \in {"ok", "error"} /\ NumberOK(x)
    BY <1>1, <1>3, DataFacts, WriterFields DEF WriterOK, Waiting, Flushers
  <2>2. w[x].status = "ok" => x \in InEffectIn(StoreNow)
    <3>1. w[x].status = "ok" => Whole(w[x].seqs, Held(d), d.lastSequence)
      BY <2>1, <1>3, Settled DEF Whole, NumberOK
    <3> QED
      BY <3>1, <1>3 DEF InEffectIn, StoreNow, StoreAt, OrderedIn, InEffectAt
  <2>3. w[x].status = "error" => x \notin InEffectIn(StoreNow)
    <3>1. w[x].status = "error" => ~Whole(w[x].seqs, Held(d), d.lastSequence)
      BY <2>1, Settled DEF Whole
    <3> QED
      BY <3>1 DEF InEffectIn, StoreNow, StoreAt, OrderedIn, InEffectAt
  <2>4. w'[x].status = IF x \in InEffectIn(StoreNow) THEN "ok" ELSE "error"
    BY <2>1, <2>2, <2>3
  <2>5. /\ CallNow[x] = "called"
        /\ CallNow' = [CallNow EXCEPT ![x] = IF x \in InEffectIn(StoreNow) THEN "ok" ELSE "error"]
    BY <2>4, <1>1, <1>3 DEF CallNow, CallOf, Only, Batches
  <2> QED
    BY <2>5, <1>2, <1>3, ActionsMapped DEF Abstract!Next
<1>4. CASE x \notin Batches \/ w'[x].pc = "reply"
  <2>1. CallNow' = CallNow
    BY <1>1, <1>4, CallsStay DEF Only, Batches
  <2> QED
    BY <2>1, <1>2, Mapped
<1> QED
  BY <1>1, <1>3, <1>4

\* A Get reads the store as it is when it is called,
LEMMA GetReads ==
  ASSUME IInv, NEW r \in Readers, Get(r)
  PROVE  Abstract!Read(r)
<1>1. /\ d' = d /\ w' = w /\ rd \in [Readers -> ReaderStates] /\ rd[r] \in ReaderStates
      /\ rd'[r].snap = d.lastSequence /\ rd'[r].got = rd[r].got
      /\ \A q \in Readers \ {r} : rd'[q] = rd[q]
  <2>1. rd \in [Readers -> ReaderStates] /\ rd[r] \in ReaderStates
    BY DEF IInv, TypeOK
  <2>2. rd'[r] = [rd[r] EXCEPT !.pc = "read", !.snap = d.lastSequence, !.mem = d.logNumber,
                               !.imm = d.imm, !.tables = d.tables]
    BY <2>1 DEF Get
  <2>3. rd'[r].snap = d.lastSequence /\ rd'[r].got = rd[r].got
    BY <2>1, <2>2 DEF ReaderStates
  <2> QED
    BY <2>1, <2>3 DEF Get
<1>2. CallNow' = CallNow /\ StoreNow' = StoreNow
  BY <1>1 DEF CallNow, StoreNow
<1>3. ResultNow' = ResultNow
  BY <1>1 DEF ResultNow, ResultOf
<1>4. SeenNow' = [SeenNow EXCEPT ![r] = StoreNow]
  BY <1>1 DEF SeenNow, SeenBy, StoreNow
<1> QED
  BY <1>2, <1>3, <1>4, ActionsMapped

\* and returns the batches that were in effect then, each as a whole.
LEMMA LookupAnswers ==
  ASSUME IInv, NEW r \in Readers, Lookup(r)
  PROVE  Abstract!Answer(r)
<1> DEFINE n == rd[r].snap
           got == rd'[r].got
<1>1. /\ d' = d /\ w' = w /\ rd[r].pc = "read" /\ got = {s \in Seen(r) : s <= n} /\ rd'[r].snap = n
      /\ \A q \in Readers \ {r} : rd'[q] = rd[q]
  <2>1. \A q \in Readers \ {r} : rd'[q] = rd[q]
    BY DEF Lookup, IInv, TypeOK
  <2> QED
    BY <2>1, LookupFinds
<1>2. /\ ReaderOK(r) /\ n \in Nat /\ d.lastSequence \in Nat /\ n <= d.lastSequence
      /\ \A x \in Writers : w[x].seqs \in SUBSET Nat /\ NumberOK(x)
  BY DataFacts, ReaderFields DEF IInv, TypeOK, ReadOK, ReaderOK
<1>3. \A s \in Nat : s \in got <=> s \in Held(d) /\ s <= n
  BY <1>1, <1>2 DEF ReaderOK
<1> HIDE DEF got
<1>4. ASSUME NEW x \in Batches
      PROVE  /\ w[x].seqs \cap got # {} <=> Whole(w[x].seqs, Held(d), n)
             /\ Whole(w[x].seqs, Held(d), n) => w[x].seqs \subseteq got
  <2>1. x \in Writers /\ w[x].seqs \in SUBSET Nat
    BY <1>2 DEF Batches
  <2>2. ASSUME NEW s \in w[x].seqs, s \in got PROVE Whole(w[x].seqs, Held(d), n)
    <3>1. s \in Nat /\ s <= n /\ s \in Held(d)
      BY <2>1, <2>2, <1>3
    <3>2. \A t \in w[x].seqs : t <= n
      BY <3>1, <2>1, <2>2, <1>2 DEF ReaderOK
    <3>3. ~Waiting(x)
      <4>1. s <= d.lastSequence /\ ~(d.lastSequence < s)
        BY <3>1, <1>2
      <4> QED
        BY <4>1, <2>1, <2>2, <1>2 DEF NumberOK
    <3>4. w[x].seqs \subseteq Held(d)
      BY <3>1, <3>3, <2>1, <2>2, Settled
    <3> QED
      BY <3>2, <3>4, <2>2 DEF Whole
  <2>3. Whole(w[x].seqs, Held(d), n) => w[x].seqs \subseteq got /\ w[x].seqs # {}
    BY <2>1, <1>3 DEF Whole
  <2> QED
    BY <2>2, <2>3
<1>5. FoundIn(w, got) = StoreAt(w, Held(d), n)
  <2> DEFINE touched == {x \in Batches : w[x].seqs \cap got # {}}
             torn == {x \in touched : ~(w[x].seqs \subseteq got)}
  <2>1. touched = InEffectAt(w, Held(d), n) /\ torn = {}
    BY <1>4 DEF InEffectAt
  <2>2. FoundIn(w, got) = OrderedIn(w, touched \ torn) \cup (torn \X {None})
    BY DEF FoundIn
  <2> HIDE DEF touched, torn
  <2>3. touched \ torn = touched /\ torn \X {None} = {}
    BY <2>1
  <2> QED
    BY <2>1, <2>2, <2>3 DEF StoreAt
<1>6. CallNow' = CallNow /\ StoreNow' = StoreNow
  BY <1>1 DEF CallNow, StoreNow
<1>7. SeenNow' = SeenNow
  BY <1>1 DEF SeenNow, SeenBy
<1>8. ResultNow' = [ResultNow EXCEPT ![r] = SeenNow[r]]
  BY <1>1, <1>5 DEF ResultNow, ResultOf, SeenNow, SeenBy, got
<1> QED
  BY <1>6, <1>7, <1>8, ActionsMapped

\* Every other step is hidden from the callers.
LEMMA Hidden ==
  ASSUME IInv, [Next]_vars, rd' = rd, d'.lastSequence = d.lastSequence, CallNow' = CallNow
  PROVE  [Abstract!Next]_(Abstract!vars)
BY StoreKeeps, Mapped

LEMMA StepMapped == IInv /\ [Next]_vars => [Abstract!Next]_(Abstract!vars)
<1> SUFFICES ASSUME IInv, [Next]_vars PROVE [Abstract!Next]_(Abstract!vars)
  OBVIOUS
<1>1. TypeOK
  BY DataFacts
<1>2. ASSUME NEW x \in Writers, AwaitTurn(x) \/ Delayed(x) \/ LogGroup(x) \/ SyncLog(x) \/ Insert(x)
      PROVE  [Abstract!Next]_(Abstract!vars)
  <2>1. /\ Only(x) /\ d'.lastSequence = d.lastSequence /\ rd' = rd
        /\ w[x].pc \notin {"start", "returned"} /\ w'[x].pc \notin {"start", "returned"}
    <3>1. CASE AwaitTurn(x)
      BY <3>1, <1>1, AwaitTurnDoes DEF AwaitTurn
    <3>2. CASE Delayed(x)
      BY <3>2, <1>1, DelayedDoes DEF Delayed
    <3>3. CASE LogGroup(x)
      BY <3>3, <1>1, LogGroupDoes DEF LogGroup
    <3>4. CASE SyncLog(x)
      BY <3>4, <1>1, SyncLogDoes DEF SyncLog
    <3>5. CASE Insert(x)
      BY <3>5, <1>1, InsertDoes DEF Insert
    <3> QED
      BY <1>2, <3>1, <3>2, <3>3, <3>4, <3>5
  <2>2. CallNow' = CallNow
    BY <2>1, CallsStay DEF Only, Batches
  <2> QED
    BY <2>1, <2>2, Hidden
<1>3. ASSUME NEW x \in Writers, MakeRoomForWrite(x) PROVE [Abstract!Next]_(Abstract!vars)
  <2>1. /\ w[x].pc = "room" /\ w'[x].pc \in {"room", "sleep", "log", "finish"}
        /\ \A y \in Writers \ {x} : w'[y].pc = w[y].pc /\ w'[y].status = w[y].status
    BY <1>3, RoomMoves
  <2>2. CallNow' = CallNow
    BY <2>1, CallsStay DEF Batches
  <2> QED
    BY <2>2, <1>3, RoomEffect, Hidden DEF SameOrSwitched
<1>4. CASE w' = w /\ d'.lastSequence = d.lastSequence /\ rd' = rd
  BY <1>4, Hidden DEF CallNow
<1>5. CASE Elsewhere
  BY <1>4, <1>5, ElsewhereEffect DEF SameOrFlushed
<1>6. CASE UNCHANGED vars
  BY <1>4, <1>6 DEF vars
<1>7. ASSUME NEW x \in Writers, FinishGroup(x) PROVE [Abstract!Next]_(Abstract!vars)
  BY <1>7, FinishCommits DEF Abstract!Next
<1>8. ASSUME NEW r \in Readers, Get(r) \/ Lookup(r) PROVE [Abstract!Next]_(Abstract!vars)
  BY <1>8, GetReads, LookupAnswers DEF Abstract!Next
<1> QED
  BY <1>2, <1>3, <1>5, <1>6, <1>7, <1>8, EnqueueCalls, ReplyReturns DEF Next, Elsewhere

LEMMA InitMapped == Init => Abstract!Init
<1> SUFFICES ASSUME Init PROVE Abstract!Init
  OBVIOUS
<1>1. /\ \A x \in Writers : w[x].pc = "start" /\ w[x].seqs = {}
      /\ \A r \in Readers : rd[r].got = {} /\ rd[r].snap = 0
  BY DEF Init, NewWriter
<1>2. CallNow = [x \in Batches |-> "no"]
  BY <1>1 DEF CallNow, CallOf, Batches
<1>3. \A n : InEffectAt(w, Held(d), n) = {}
  BY <1>1 DEF InEffectAt, Whole, Batches
<1>4. \A n : StoreAt(w, Held(d), n) = {}
  BY <1>3 DEF StoreAt, OrderedIn
<1>5. FoundIn(w, {}) = {}
  BY DEF FoundIn, OrderedIn
<1>6. StoreNow = {} /\ SeenNow = [r \in Readers |-> {}] /\ ResultNow = [r \in Readers |-> {}]
  BY <1>1, <1>4, <1>5 DEF StoreNow, SeenNow, ResultNow, SeenBy, ResultOf
<1> QED
  BY <1>2, <1>6, ActionsMapped

\* DBImpl::Write and DBImpl::Get implement AtomicStore for any number of
\* threads: batches that BuildBatchGroup puts behind one leader, memtables
\* that are switched and flushed under a reader, and writes that fail look
\* like single writes that take effect at one moment of their call, and a Get
\* returns the store of the moment it was called.
THEOREM LinearizableHolds == Spec => Linearizable
<1>1. Spec => Abstract!Spec
  BY InitMapped, StepMapped, Invariance, PTL DEF Spec, Abstract!Spec
<1> QED
  BY <1>1 DEF Linearizable
=============================================================================
