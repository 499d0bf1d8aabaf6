---------------------------- MODULE RecoveryProofs ----------------------------
(***************************************************************************)
(* Proofs about Recovery: FilesIntact and UpdatesSurvive, for any number   *)
(* of updates, files, kills and power losses.                              *)
(*                                                                         *)
(* A version is a set of tables and the number of the oldest log it does   *)
(* not hold; it is Good when tables and logs together hold what has to     *)
(* survive.  The heart of the invariant is that every record at which the  *)
(* descriptor may be found to end describes a Good version, and so does    *)
(* the VersionSet of the running process.                                  *)
(***************************************************************************)
EXTENDS Recovery, PosixFiles, FiniteSetTheorems, WellFoundedInduction, TLAPS

\* What the proofs are about.  A power loss just after the creation is left to
\* CreationSafe; reused logs and descriptors are not synced where they are
\* believed, so with them only kills are covered.
Covered == MaxCrashes = 0 \/ (CreationSafe /\ ~ReuseLogs)

-----------------------------------------------------------------------------
(* The invariant. *)

\* What tables hold, what logs hold from a number on, and what of it is synced.
Held(tb, F) == UNION {tb[n] : n \in F}
From(lg, l) == {n \in DOMAIN lg : n >= l}
LogOf(lg, l) == UNION {Range(lg[n].recs) : n \in From(lg, l)}
Sure(log) == {log.recs[i] : i \in 1 .. log.synced}
SureOf(lg, l) == UNION {Sure(lg[n]) : n \in From(lg, l)}

\* The updates that no kill may lose: all of them until power fails.
Ids == IF crashes = 0 THEN 1 .. count ELSE {}

\* The tables F and the logs from l on hold the synced updates S, in what cannot
\* be lost, and the updates I; sequence numbers are fresh, up to a in tables.
Good(tb, lg, S, I, F, l, a) ==
    /\ F \subseteq DOMAIN tb
    /\ S \subseteq Held(tb, F) \cup SureOf(lg, l)
    /\ \A i \in I : \E u \in Held(tb, F) \cup LogOf(lg, l) : u.id = i
    /\ \A u, v \in Held(tb, F) \cup LogOf(lg, l) : u.seq = v.seq => u = v
    /\ \A u \in Held(tb, F) : u.seq <= a
GoodNow(F, l, a) == Good(tables, logs, synced, Ids, F, l, a)

\* The version that the first k records of a descriptor describe.
FilesAt(recs, k) ==
    {n \in UNION {recs[i].add : i \in 1 .. k} :
        \E i \in 1 .. k : n \in recs[i].add /\ \A j \in 1 .. k : j > i => n \notin recs[j].del}

\* Where the next Open may find the descriptor to end.
Readable(m) == {k \in 1 .. Len(m.recs) : IF MaxCrashes = 0 THEN k = Len(m.recs) ELSE k >= m.synced}

Ups == [id : 1 .. count, seq : 1 .. count]
Edits == [add : SUBSET Nat, del : SUBSET Nat, log : Nat, next : Nat, last : Nat]
Versions == [files : SUBSET Nat, next : Nat, manifest : Nat, last : Nat, log : Nat, desc : BOOLEAN]
Background == [kind : {"flush", "compact"}, add : SUBSET Nat, del : SUBSET Nat, log : Nat, logged : BOOLEAN]
Pcs == {"closed", "newdb", "recover", "replay", "save", "setcurrent", "install", "collect", "open"}

TypeInv ==
    /\ count \in 0 .. MaxWrites /\ crashes \in 0 .. MaxCrashes /\ pc \in Pcs
    /\ synced \subseteq Ups
    /\ vs \in Versions /\ edit \in [save : BOOLEAN, add : SUBSET Nat]
    /\ bg \in {NoEdit} \cup Background /\ bgError \in BOOLEAN
    /\ comp \in {NoEdit} \cup [kind : {"run"}, inputs : SUBSET Nat, out : Nat]
    /\ pending \subseteq 0 .. MaxNumber

FilesInv ==
    /\ \A n \in DOMAIN tables : n \in 0 .. MaxNumber /\ tables[n] \subseteq Ups
    /\ \A n \in DOMAIN logs : /\ n \in 1 .. MaxNumber - 1 /\ logs[n].recs \in Seq(Ups)
                              /\ logs[n].synced \in 0 .. Len(logs[n].recs)
    /\ \A n \in DOMAIN manifests : /\ n \in 0 .. MaxNumber /\ manifests[n].recs \in Seq(Edits)
                                   /\ manifests[n].synced \in 0 .. Len(manifests[n].recs)

\* Every record has numbers above those that it and the earlier ones mention.
Numbered(cur, recs) ==
    \A k \in 1 .. Len(recs) :
        /\ \A i \in 1 .. k : \A n \in recs[i].add : n < recs[k].next
        /\ recs[k].log < recs[k].next /\ cur < recs[k].next /\ recs[k].next <= MaxNumber
        /\ recs[k].last <= count

Descriptor(m) ==
    /\ Len(m.recs) > 0 /\ (current # 1 => m.synced > 0)
    /\ Numbered(current, m.recs)
    /\ \A k \in Readable(m) : GoodNow(FilesAt(m.recs, k), m.recs[k].log, m.recs[k].last)

\* The directory, whatever the process does.
DiskInv ==
    /\ current = 0 => DOMAIN tables = {} /\ DOMAIN logs = {} /\ count = 0 /\ synced = {}
    /\ current # 0 => current \in DOMAIN manifests /\ current \in Nat /\ Descriptor(manifests[current])

\* The process, while it knows nothing of the database.
Idle == mem = {} /\ logfile = 0 /\ vs = NoVersions
IdleInv ==
    /\ pc \in {"closed", "newdb", "recover"} => Idle
    /\ pc # "open" => /\ imm = {} /\ bg = NoEdit /\ comp = NoEdit /\ pinned = <<>> /\ pending = {}
                      /\ bgError = FALSE
    /\ pc = "newdb" => /\ current = 0 /\ 1 \in DOMAIN manifests
                       /\ manifests[1] = File(<<NewDBEdit>>, 0)
    /\ current = 0 => pc \in {"closed", "newdb"}

Active == pc \in {"replay", "save", "setcurrent", "install", "collect", "open"}
Recs == manifests[current].recs
Settled == MaxCrashes = 0 \/ manifests[current].synced = Len(Recs)
Matches(k, F, l) == FilesAt(Recs, k) = F /\ Recs[k].log = l

\* The tables that Open has made of logs, until they are in the version.
Opening == pc \in {"replay", "save", "setcurrent", "install"}
Adds == IF Opening THEN edit.add ELSE {}
Mine == vs.files \cup Adds

\* The VersionSet is as good as the descriptor, and numbers are fresh.
VersionInv ==
    /\ vs.next <= MaxNumber + 1 /\ (pc # "replay" => vs.next <= MaxNumber)
    /\ vs.last <= count
    /\ vs.log < vs.next /\ 0 < vs.manifest /\ vs.manifest < vs.next
    /\ Recs[Len(Recs)].next <= vs.next /\ Recs[Len(Recs)].last <= vs.last
    /\ GoodNow(vs.files, vs.log, vs.last)
    /\ Mine \subseteq DOMAIN tables /\ \A n \in Mine : n < vs.next

\* Logs that were replayed or flushed are in tables, the last one is the memtable.
MemoryInv ==
    /\ \A u \in Held(tables, Mine) \cup mem \cup imm : u.seq <= vs.last
    /\ mem \cup imm \cup Held(tables, Adds) \subseteq LogOf(logs, vs.log)
    /\ \A n \in From(logs, vs.log) \ (toReplay \cup {logfile}) :
            Range(logs[n].recs) \subseteq Held(tables, Mine) \cup imm
    /\ toReplay \subseteq From(logs, vs.log)
    /\ \A n \in DOMAIN logs \ toReplay : n < vs.next /\ \A m \in toReplay : n < m
    /\ logfile = 0 => mem = {} /\ pc = "replay"
    /\ logfile # 0 => /\ logfile \in From(logs, vs.log) /\ mem = Range(logs[logfile].recs)
                      /\ \A n \in DOMAIN logs : n <= logfile
                      /\ toReplay = {}

\* Where Open is between reading one descriptor and relying on the next.
OpeningInv ==
    /\ pc \in {"replay", "save", "setcurrent"} =>
          /\ Matches(Len(Recs), vs.files, vs.log)
          /\ vs.desc => ReuseLogs /\ vs.manifest = current
          /\ ~vs.desc => vs.manifest # current /\ edit.save
          /\ ~edit.save => edit.add = {}
    /\ pc = "setcurrent" =>
          /\ ~vs.desc /\ vs.manifest \in DOMAIN manifests
          /\ manifests[vs.manifest] = File(<<EditOf(vs.files \cup edit.add, {}, logfile)>>, 1)
    /\ pc = "install" => vs.manifest = current /\ Settled /\ Matches(Len(Recs), Mine, logfile)
    /\ pc = "collect" => vs.manifest = current /\ Settled /\ Matches(Len(Recs), vs.files, vs.log)
    /\ pc = "open" => vs.manifest = current

\* The edit of the background thread, before and after its record is written.
AfterEditFiles == (vs.files \ bg.del) \cup bg.add
RecordInv ==
    Running =>
       /\ bg = NoEdit \/ ~bg.logged => Settled /\ Matches(Len(Recs), vs.files, vs.log)
       /\ bg # NoEdit /\ bg.logged =>
            /\ Len(Recs) > 1 /\ Matches(Len(Recs) - 1, vs.files, vs.log)
            /\ Matches(Len(Recs), AfterEditFiles, bg.log)
            /\ Recs[Len(Recs) - 1].last <= vs.last
            /\ MaxCrashes = 0 \/ manifests[current].synced = Len(Recs) - 1

FlushInv ==
    Running /\ bg # NoEdit /\ bg.kind = "flush" =>
        /\ imm # {} /\ bg.log = logfile /\ bg.del = {} /\ bg.add \subseteq DOMAIN tables
        /\ \A n \in bg.add : n < vs.next
        /\ Held(tables, bg.add) = imm
        /\ comp # NoEdit => comp.out \notin bg.add

CompactInv ==
    /\ Running /\ bg # NoEdit /\ bg.kind = "compact" =>
        /\ comp # NoEdit /\ bg.add = {comp.out} /\ bg.del = comp.inputs /\ bg.log = vs.log
        /\ tables[comp.out] = Held(tables, comp.inputs)
    /\ Running /\ comp # NoEdit =>
        /\ comp.inputs \subseteq vs.files
        /\ comp.out \in pending /\ comp.out \in DOMAIN tables /\ comp.out < vs.next
        /\ comp.out \notin vs.files /\ comp.out \notin DOMAIN pinned

PinnedInv ==
    pc = "open" => \A n \in DOMAIN pinned : n \in DOMAIN tables /\ tables[n] = pinned[n] /\ n < vs.next

RunInv ==
    Active => VersionInv /\ MemoryInv /\ OpeningInv /\ RecordInv /\ FlushInv /\ CompactInv /\ PinnedInv

IInv == TypeInv /\ FilesInv /\ DiskInv /\ IdleInv /\ RunInv

USE RecoveryAssumption

-----------------------------------------------------------------------------
(* Numbers, sequences and descriptors. *)

\* Every set of natural numbers that is not empty has a least element.
LEMMA LeastExists ==
  ASSUME NEW S \in SUBSET Nat, S # {}
  PROVE  Min(S) \in S /\ \A m \in S : Min(S) <= m
<1> DEFINE R == {p \in Nat \X Nat : p[1] < p[2]}
<1>1. IsWellFoundedOn(R, Nat)
  BY NatLessThanWellFounded DEF OpToRel
<1> HIDE DEF R
<1>2. PICK n \in S : \A m \in S : ~(<<m, n>> \in R)
  BY <1>1, WFMin
<1>3. ASSUME NEW m \in S PROVE n <= m
  <2>1. ~(<<m, n>> \in R)
    BY <1>2
  <2> QED
    BY <2>1 DEF R
<1> QED
  BY <1>3 DEF Min

\* A bounded one has a greatest element.
LEMMA GreatestExists ==
  ASSUME NEW S \in SUBSET Nat, S # {}, NEW b \in Nat, \A n \in S : n <= b
  PROVE  Max(S) \in S /\ \A n \in S : Max(S) >= n
<1> DEFINE D == {n \in Nat : b - n \in S}
<1>1. PICK n \in S : TRUE
  OBVIOUS
<1>2. b - n \in D
  BY <1>1
<1>3. PICK m \in D : \A k \in D : m <= k
  BY <1>2, LeastExists
<1>4. ASSUME NEW k \in S PROVE b - m >= k
  <2>1. k \in Nat /\ m \in Nat /\ b - k \in D
    OBVIOUS
  <2>2. m <= b - k
    BY <2>1, <1>3
  <2> HIDE DEF D
  <2> QED
    BY <2>1, <2>2
<1> QED
  BY <1>3, <1>4 DEF Max

\* What a log holds after a record is appended, and what its parts hold.
LEMMA RangeAppended ==
  ASSUME NEW S, NEW s \in Seq(S), NEW e \in S
  PROVE  /\ Append(s, e) \in Seq(S) /\ Len(Append(s, e)) = Len(s) + 1
         /\ Range(Append(s, e)) = Range(s) \cup {e}
         /\ \A i \in 1 .. Len(s) : Append(s, e)[i] = s[i]
         /\ Append(s, e)[Len(s) + 1] = e
  BY DEF Range

LEMMA RangeSplit ==
  ASSUME NEW S, NEW s \in Seq(S), NEW k \in 0 .. Len(s)
  PROVE  /\ Range(SubSeq(s, 1, k)) \cup Range(SubSeq(s, k + 1, Len(s))) = Range(s)
         /\ Range(SubSeq(s, 1, k)) = {s[i] : i \in 1 .. k}
         /\ k = 0 => Range(SubSeq(s, 1, k)) = {}
<1>1. SubSeq(s, 1, k) = [i \in 1 .. k |-> s[i]]
  OBVIOUS
<1>2. Range(SubSeq(s, 1, k)) = {s[i] : i \in 1 .. k}
  BY <1>1 DEF Range
<1>3. Range(SubSeq(s, k + 1, Len(s))) = {s[i] : i \in k + 1 .. Len(s)}
  <2>1. SubSeq(s, k + 1, Len(s)) = [i \in 1 .. Len(s) - k |-> s[i + k]]
    OBVIOUS
  <2>2. ASSUME NEW i \in k + 1 .. Len(s)
        PROVE  i - k \in 1 .. Len(s) - k /\ (i - k) + k = i
    OBVIOUS
  <2>3. ASSUME NEW i \in 1 .. Len(s) - k PROVE i + k \in k + 1 .. Len(s)
    OBVIOUS
  <2>4. Range(SubSeq(s, k + 1, Len(s))) = {s[i + k] : i \in 1 .. Len(s) - k}
    BY <2>1 DEF Range
  <2> QED
    BY <2>2, <2>3, <2>4
<1>4. Range(s) = {s[i] : i \in 1 .. Len(s)}
  BY DEF Range
<1>5. (1 .. k) \cup (k + 1 .. Len(s)) = 1 .. Len(s)
  OBVIOUS
<1> QED
  BY <1>2, <1>3, <1>4, <1>5

\* The version of k records depends on these only.
LEMMA FilesAtSame ==
  ASSUME NEW r, NEW s, NEW k \in Nat, \A i \in 1 .. k : r[i] = s[i]
  PROVE  FilesAt(r, k) = FilesAt(s, k)
  BY DEF FilesAt

LEMMA FilesAtCut ==
  ASSUME NEW recs \in Seq(Edits), NEW c \in 0 .. Len(recs), NEW k \in 1 .. c
  PROVE  FilesAt(SubSeq(recs, 1, c), k) = FilesAt(recs, k)
<1> DEFINE r == SubSeq(recs, 1, c)
<1>1. k \in Nat /\ \A i \in 1 .. k : r[i] = recs[i]
  OBVIOUS
<1> HIDE DEF r
<1>2. FilesAt(r, k) = FilesAt(recs, k)
  BY <1>1, FilesAtSame
<1> QED
  BY <1>2 DEF r

\* A record that is appended deletes and adds.
LEMMA FilesAtAppend ==
  ASSUME NEW recs \in Seq(Edits), NEW e \in Edits
  PROVE  /\ FilesAt(Append(recs, e), Len(recs) + 1) = (FilesAt(recs, Len(recs)) \ e.del) \cup e.add
         /\ \A k \in 1 .. Len(recs) : FilesAt(Append(recs, e), k) = FilesAt(recs, k)
<1> DEFINE r == Append(recs, e)
           n == Len(recs)
<1>1. n \in Nat /\ r[n + 1] = e /\ \A i \in 1 .. n : r[i] = recs[i]
  OBVIOUS
<1> HIDE DEF r
<1>2. ASSUME NEW k \in 1 .. n PROVE FilesAt(r, k) = FilesAt(recs, k)
  BY <1>1, FilesAtSame
<1>3. 1 .. n + 1 = (1 .. n) \cup {n + 1} /\ n + 1 \notin 1 .. n
  BY <1>1
<1>4. ASSUME NEW x, x \in FilesAt(r, n + 1) PROVE x \in (FilesAt(recs, n) \ e.del) \cup e.add
  <2>1. PICK i \in 1 .. n + 1 : x \in r[i].add /\ \A j \in 1 .. n + 1 : j > i => x \notin r[j].del
    BY <1>4 DEF FilesAt
  <2>2. CASE i = n + 1
    BY <2>1, <2>2, <1>1
  <2>3. CASE i \in 1 .. n
    BY <2>1, <2>3, <1>1 DEF FilesAt
  <2> QED
    BY <2>2, <2>3, <1>1
<1>5. ASSUME NEW x, x \in e.add PROVE x \in FilesAt(r, n + 1)
  BY <1>5, <1>1 DEF FilesAt
<1>6. ASSUME NEW x, x \in FilesAt(recs, n), x \notin e.del PROVE x \in FilesAt(r, n + 1)
  <2>1. PICK i \in 1 .. n : x \in recs[i].add /\ \A j \in 1 .. n : j > i => x \notin recs[j].del
    BY <1>6 DEF FilesAt
  <2>2. \A j \in 1 .. n + 1 : j > i => x \notin r[j].del
    BY <2>1, <1>1, <1>6
  <2> QED
    BY <2>1, <2>2, <1>1 DEF FilesAt
<1>7. FilesAt(r, n + 1) = (FilesAt(recs, n) \ e.del) \cup e.add
  BY <1>4, <1>5, <1>6
<1> QED
  BY <1>2, <1>7 DEF r

\* What Recover reads.
LEMMA FilesAfterAll ==
  ASSUME NEW recs \in Seq(Edits)
  PROVE  FilesAfter(recs) = FilesAt(recs, Len(recs))
  BY DEF FilesAfter, FilesAt

\* The first record of a descriptor lists the tables of its version.
LEMMA FilesAtFirst ==
  ASSUME NEW e
  PROVE  FilesAt(<<e>>, 1) = e.add /\ <<e>>[1] = e /\ Len(<<e>>) = 1
<1>1. <<e>>[1] = e /\ 1 .. 1 = {1}
  OBVIOUS
<1> QED
  BY <1>1 DEF FilesAt

-----------------------------------------------------------------------------
(* Versions that stay good. *)

\* A version is as good as another one that holds the same.
LEMMA GoodShift ==
  ASSUME NEW tb, NEW lg, NEW tc, NEW lh, NEW S, NEW I,
         NEW F, NEW l, NEW a, NEW G, NEW m, NEW b,
         Good(tb, lg, S, I, F, l, a),
         G \subseteq DOMAIN tc,
         Held(tc, G) \cup LogOf(lh, m) \subseteq Held(tb, F) \cup LogOf(lg, l),
         Held(tb, F) \cup LogOf(lg, l) \subseteq Held(tc, G) \cup LogOf(lh, m),
         Held(tb, F) \cup SureOf(lg, l) \subseteq Held(tc, G) \cup SureOf(lh, m),
         \A u \in Held(tc, G) : u.seq <= b
  PROVE  Good(tc, lh, S, I, G, m, b)
<1>1. \A u, v \in Held(tc, G) \cup LogOf(lh, m) : u.seq = v.seq => u = v
  BY DEF Good
<1>2. \A i \in I : \E u \in Held(tc, G) \cup LogOf(lh, m) : u.id = i
  BY DEF Good
<1>3. S \subseteq Held(tc, G) \cup SureOf(lh, m)
  BY DEF Good
<1> QED
  BY <1>1, <1>2, <1>3 DEF Good

\* Files that are made, and others that are deleted, change nothing about it.
LEMMA GoodStays ==
  ASSUME NEW tb, NEW lg, NEW tc, NEW lh, NEW S, NEW I, NEW F, NEW l, NEW a,
         Good(tb, lg, S, I, F, l, a),
         \A n \in F : n \in DOMAIN tc /\ tc[n] = tb[n],
         \A n \in From(lg, l) : n \in DOMAIN lh /\ lh[n] = lg[n],
         \A n \in From(lh, l) : n \in DOMAIN lg \/ Range(lh[n].recs) = {}
  PROVE  Good(tc, lh, S, I, F, l, a) /\ Held(tc, F) = Held(tb, F) /\ LogOf(lh, l) = LogOf(lg, l)
<1>1. Held(tc, F) = Held(tb, F)
  BY DEF Held
<1>2. From(lg, l) \subseteq From(lh, l)
  BY DEF From
<1>3. \A n \in From(lh, l) : n \in From(lg, l) \/ Range(lh[n].recs) = {}
  BY DEF From
<1>4. LogOf(lh, l) = LogOf(lg, l)
  <2>1. LogOf(lg, l) \subseteq LogOf(lh, l)
    BY <1>2 DEF LogOf
  <2>2. LogOf(lh, l) \subseteq LogOf(lg, l)
    BY <1>3 DEF LogOf
  <2> QED
    BY <2>1, <2>2
<1>5. SureOf(lg, l) \subseteq SureOf(lh, l)
  BY <1>2 DEF SureOf
<1>6. F \subseteq DOMAIN tc
  OBVIOUS
<1>7. \A u \in Held(tb, F) : u.seq <= a
  BY DEF Good
<1>8. Good(tc, lh, S, I, F, l, a)
  BY <1>1, <1>4, <1>5, <1>6, <1>7, GoodShift
<1> QED
  BY <1>1, <1>4, <1>8

\* An update that is appended to a log of a version, with a fresh number.
LEMMA GoodWritten ==
  ASSUME NEW tb, NEW lg, NEW lh, NEW S, NEW T, NEW I, NEW J, NEW F, NEW l, NEW a, NEW u, NEW n,
         Good(tb, lg, S, I, F, l, a),
         n \in From(lg, l), DOMAIN lh = DOMAIN lg, \A m \in DOMAIN lg \ {n} : lh[m] = lg[m],
         Range(lh[n].recs) = Range(lg[n].recs) \cup {u},
         Sure(lg[n]) \subseteq Sure(lh[n]),
         T = S \/ (T = S \cup {u} /\ u \in Sure(lh[n])),
         J \subseteq I \cup {u.id},
         \A v \in Held(tb, F) \cup LogOf(lg, l) : v.seq # u.seq
  PROVE  Good(tb, lh, T, J, F, l, a) /\ LogOf(lh, l) = LogOf(lg, l) \cup {u}
<1>1. From(lh, l) = From(lg, l)
  BY DEF From
<1>2. \A m \in From(lg, l) \ {n} : lh[m] = lg[m]
  BY DEF From
<1>3. LogOf(lh, l) = LogOf(lg, l) \cup {u}
  <2>1. LogOf(lh, l) = UNION {Range(lh[m].recs) : m \in From(lg, l)}
    BY <1>1 DEF LogOf
  <2>2. \A m \in From(lg, l) : Range(lh[m].recs) = IF m = n THEN Range(lg[n].recs) \cup {u} ELSE Range(lg[m].recs)
    BY <1>2
  <2> QED
    BY <2>1, <2>2 DEF LogOf
<1>4. SureOf(lg, l) \subseteq SureOf(lh, l) /\ (u \in Sure(lh[n]) => u \in SureOf(lh, l))
  BY <1>1, <1>2 DEF SureOf
<1>5. F \subseteq DOMAIN tb /\ \A v \in Held(tb, F) : v.seq <= a
  BY DEF Good
<1>6. T \subseteq Held(tb, F) \cup SureOf(lh, l)
  BY <1>4 DEF Good
<1>7. \A i \in J : \E v \in Held(tb, F) \cup LogOf(lh, l) : v.id = i
  <2>1. \A i \in I : \E v \in Held(tb, F) \cup LogOf(lg, l) : v.id = i
    BY DEF Good
  <2> QED
    BY <2>1, <1>3
<1>8. \A v, x \in Held(tb, F) \cup LogOf(lh, l) : v.seq = x.seq => v = x
  <2>1. \A v, x \in Held(tb, F) \cup LogOf(lg, l) : v.seq = x.seq => v = x
    BY DEF Good
  <2> QED
    BY <2>1, <1>3
<1> QED
  BY <1>3, <1>5, <1>6, <1>7, <1>8 DEF Good

\* Power fails: logs become shorter, what was synced stays.
LEMMA GoodCut ==
  ASSUME NEW tb, NEW lg, NEW lh, NEW S, NEW I, NEW F, NEW l, NEW a,
         Good(tb, lg, S, I, F, l, a), DOMAIN lh = DOMAIN lg,
         \A n \in DOMAIN lg : Range(lh[n].recs) \subseteq Range(lg[n].recs) /\ Sure(lg[n]) \subseteq Sure(lh[n])
  PROVE  Good(tb, lh, S, {}, F, l, a)
<1>1. From(lh, l) = From(lg, l) /\ From(lg, l) \subseteq DOMAIN lg
  BY DEF From
<1>2. LogOf(lh, l) \subseteq LogOf(lg, l)
  BY <1>1 DEF LogOf
<1>3. SureOf(lg, l) \subseteq SureOf(lh, l)
  BY <1>1 DEF SureOf
<1>4. \A u, v \in Held(tb, F) \cup LogOf(lh, l) : u.seq = v.seq => u = v
  BY <1>2 DEF Good
<1> QED
  BY <1>3, <1>4 DEF Good

-----------------------------------------------------------------------------
(* Steps that leave the directory as it was, or only take the process away. *)

LEMMA DiskSame ==
  ASSUME FilesInv, DiskInv, UNCHANGED <<disk, ghosts>>
  PROVE  FilesInv' /\ DiskInv'
<1>1. /\ tables' = tables /\ logs' = logs /\ manifests' = manifests /\ current' = current
      /\ synced' = synced /\ count' = count /\ crashes' = crashes
  BY DEF disk, ghosts
<1>2. FilesInv'
  BY <1>1 DEF FilesInv, Ups
<1>3. DiskInv'
  BY <1>1 DEF DiskInv, Descriptor, Numbered, GoodNow, Ids
<1> QED
  BY <1>2, <1>3

\* What is read of the descriptor.
LEMMA DescriptorFacts ==
  ASSUME FilesInv, DiskInv, current # 0
  PROVE  /\ Recs \in Seq(Edits) /\ Len(Recs) \in Nat /\ Len(Recs) > 0 /\ current \in DOMAIN manifests
         /\ \A k \in 1 .. Len(Recs) : Recs[k] \in Edits
         /\ Len(Recs) \in Readable(manifests[current])
         /\ \A k \in Readable(manifests[current]) :
                /\ k \in 1 .. Len(Recs)
                /\ GoodNow(FilesAt(Recs, k), Recs[k].log, Recs[k].last)
         /\ \A k \in 1 .. Len(Recs) : \A n \in FilesAt(Recs, k) : n \in Nat /\ n < Recs[Len(Recs)].next
         /\ Recs[Len(Recs)].log < Recs[Len(Recs)].next
         /\ current < Recs[Len(Recs)].next /\ current \in Nat /\ 0 < current
         /\ Recs[Len(Recs)].next <= MaxNumber /\ Recs[Len(Recs)].last <= count
         /\ manifests[current].synced \in 0 .. Len(Recs)
<1>1. /\ current \in DOMAIN manifests /\ current \in Nat /\ Descriptor(manifests[current])
      /\ Recs \in Seq(Edits) /\ manifests[current].synced \in 0 .. Len(Recs)
  BY DEF FilesInv, DiskInv, Recs
<1>2. Len(Recs) \in Nat /\ Len(Recs) > 0 /\ \A k \in 1 .. Len(Recs) : Recs[k] \in Edits
  BY <1>1 DEF Descriptor, Recs
<1>3. Len(Recs) \in Readable(manifests[current])
  BY <1>1, <1>2 DEF Readable, Recs
<1>4. \A k \in Readable(manifests[current]) :
         k \in 1 .. Len(Recs) /\ GoodNow(FilesAt(Recs, k), Recs[k].log, Recs[k].last)
  BY <1>1 DEF Descriptor, Readable, Recs
<1>5. Numbered(current, Recs)
  BY <1>1 DEF Descriptor, Recs
<1>6. ASSUME NEW k \in 1 .. Len(Recs), NEW n \in FilesAt(Recs, k)
      PROVE  n \in Nat /\ n < Recs[Len(Recs)].next
  <2>1. PICK i \in 1 .. k : n \in Recs[i].add
    BY DEF FilesAt
  <2>2. i \in 1 .. Len(Recs) /\ Len(Recs) \in 1 .. Len(Recs)
    BY <1>2
  <2>3. Recs[i].add \subseteq Nat
    BY <1>2, <2>2 DEF Edits
  <2> QED
    BY <1>5, <2>1, <2>2, <2>3 DEF Numbered
<1>7. Len(Recs) \in 1 .. Len(Recs)
  BY <1>2
<1>8. /\ Recs[Len(Recs)].log < Recs[Len(Recs)].next /\ current < Recs[Len(Recs)].next
      /\ Recs[Len(Recs)].next <= MaxNumber /\ Recs[Len(Recs)].last <= count
  BY <1>5, <1>7 DEF Numbered
<1>9. 0 < current
  BY <1>1
<1> QED
  BY <1>1, <1>2, <1>3, <1>4, <1>6, <1>8, <1>9

\* Once the process is gone, only the directory matters.
LEMMA FreshKeeps ==
  ASSUME TypeInv, Fresh("closed"), FilesInv', DiskInv',
         count' \in 0 .. MaxWrites, crashes' \in 0 .. MaxCrashes, (synced \subseteq Ups)'
  PROVE  IInv'
<1>1. /\ pc' = "closed" /\ vs' = NoVersions /\ edit' = [save |-> FALSE, add |-> {}]
      /\ mem' = {} /\ imm' = {} /\ logfile' = 0 /\ pending' = {} /\ bg' = NoEdit
      /\ comp' = NoEdit /\ pinned' = <<>> /\ bgError' = FALSE
  BY DEF Fresh
<1>2. TypeInv'
  <2>1. vs' \in Versions
    BY <1>1 DEF NoVersions, Versions
  <2>2. edit' \in [save : BOOLEAN, add : SUBSET Nat]
    BY <1>1
  <2> QED
    BY <1>1, <2>1, <2>2 DEF TypeInv, Pcs
<1>3. IdleInv'
  BY <1>1 DEF IdleInv, Idle
<1>4. RunInv'
  BY <1>1 DEF RunInv, Active
<1> QED
  BY <1>2, <1>3, <1>4 DEF IInv

LEMMA InitIInv == Init => IInv
<1> SUFFICES ASSUME Init PROVE IInv
  OBVIOUS
<1>1. TypeInv
  <2>1. NoVersions \in Versions
    BY DEF NoVersions, Versions
  <2>2. [save |-> FALSE, add |-> {}] \in [save : BOOLEAN, add : SUBSET Nat]
    OBVIOUS
  <2> QED
    <3>1. count \in 0 .. MaxWrites /\ crashes \in 0 .. MaxCrashes /\ pc \in Pcs /\ synced \subseteq Ups
      BY DEF Init, Pcs
    <3>2. vs \in Versions /\ edit \in [save : BOOLEAN, add : SUBSET Nat]
      BY <2>1, <2>2 DEF Init
    <3>3. /\ bg \in {NoEdit} \cup Background /\ bgError \in BOOLEAN /\ pending \subseteq 0 .. MaxNumber
          /\ comp \in {NoEdit} \cup [kind : {"run"}, inputs : SUBSET Nat, out : Nat]
      BY DEF Init
    <3> QED
      BY <3>1, <3>2, <3>3 DEF TypeInv
<1>2. FilesInv
  BY DEF Init, FilesInv
<1>3. DiskInv
  BY DEF Init, DiskInv
<1>4. IdleInv
  BY DEF Init, IdleInv, Idle
<1>5. RunInv
  BY DEF Init, RunInv, Active
<1> QED
  BY <1>1, <1>2, <1>3, <1>4, <1>5 DEF IInv

LEMMA NewDBKeeps == ASSUME IInv, NewDB PROVE IInv'
<1>1. /\ pc = "closed" /\ current = 0 /\ pc' = "newdb"
      /\ manifests' = [m \in DOMAIN manifests \cup {1} |->
                          IF m = 1 THEN File(<<NewDBEdit>>, 0) ELSE manifests[m]]
      /\ tables' = tables /\ logs' = logs /\ current' = current /\ vs' = vs /\ toReplay' = toReplay
      /\ edit' = edit /\ mem' = mem /\ imm' = imm /\ logfile' = logfile /\ pending' = pending
      /\ bg' = bg /\ comp' = comp /\ pinned' = pinned /\ bgError' = bgError
      /\ synced' = synced /\ count' = count /\ crashes' = crashes
  BY DEF NewDB, Put, opening, memory, background, ghosts
<1>2. TypeInv'
  BY <1>1 DEF IInv, TypeInv, Pcs, Ups
<1>3. FilesInv'
  <2>1. <<NewDBEdit>> \in Seq(Edits) /\ Len(<<NewDBEdit>>) = 1
    BY DEF NewDBEdit, Edits
  <2>2. File(<<NewDBEdit>>, 0).recs = <<NewDBEdit>> /\ File(<<NewDBEdit>>, 0).synced = 0
    BY DEF File
  <2>3. \A n \in DOMAIN manifests' : /\ n \in 0 .. MaxNumber /\ manifests'[n].recs \in Seq(Edits)
                                     /\ manifests'[n].synced \in 0 .. Len(manifests'[n].recs)
    <3>1. ASSUME NEW n \in DOMAIN manifests', n # 1
          PROVE  n \in DOMAIN manifests /\ manifests'[n] = manifests[n]
      BY <1>1, <3>1
    <3>2. /\ 1 \in 0 .. MaxNumber /\ manifests'[1].recs \in Seq(Edits)
          /\ manifests'[1].synced \in 0 .. Len(manifests'[1].recs)
      <4>1. manifests'[1] = File(<<NewDBEdit>>, 0)
        BY <1>1
      <4>2. 1 \in 0 .. MaxNumber /\ 0 \in 0 .. 1
        OBVIOUS
      <4> QED
        BY <4>1, <4>2, <2>1, <2>2
    <3> QED
      BY <3>1, <3>2 DEF IInv, FilesInv
  <2> QED
    BY <1>1, <2>3 DEF IInv, FilesInv, Ups
<1>4. DiskInv'
  BY <1>1 DEF IInv, DiskInv
<1>5. IdleInv'
  BY <1>1 DEF IInv, IdleInv, Idle
<1>6. RunInv'
  BY <1>1 DEF RunInv, Active
<1> QED
  BY <1>2, <1>3, <1>4, <1>5, <1>6 DEF IInv

LEMMA SetCurrentFileKeeps == ASSUME IInv, SetCurrentFile PROVE IInv'
<1>1. /\ pc = "newdb" /\ current' = 1 /\ pc' = "recover" /\ tables' = tables /\ logs' = logs
      /\ manifests' = manifests /\ vs' = vs /\ edit' = edit /\ mem' = mem /\ imm' = imm
      /\ logfile' = logfile /\ pending' = pending /\ bg' = bg /\ comp' = comp /\ pinned' = pinned
      /\ bgError' = bgError /\ synced' = synced /\ count' = count /\ crashes' = crashes
  BY DEF SetCurrentFile, opening, memory, background, ghosts
<1>2. current = 0 /\ 1 \in DOMAIN manifests /\ manifests[1] = File(<<NewDBEdit>>, 0)
  BY <1>1 DEF IInv, IdleInv
<1>3. DOMAIN tables = {} /\ DOMAIN logs = {} /\ count = 0 /\ synced = {}
  BY <1>2 DEF IInv, DiskInv
<1>4. TypeInv'
  BY <1>1 DEF IInv, TypeInv, Pcs, Ups
<1>5. FilesInv'
  BY <1>1 DEF IInv, FilesInv, Ups
<1>6. DiskInv'
  <2> DEFINE recs == <<NewDBEdit>>
  <2>1. manifests'[1].recs = recs /\ manifests'[1].synced = 0
    BY <1>1, <1>2 DEF File
  <2>2. Len(recs) = 1 /\ recs[1] = NewDBEdit /\ FilesAt(recs, 1) = {}
    BY FilesAtFirst DEF NewDBEdit
  <2>3. NewDBEdit.add = {} /\ NewDBEdit.log = 0 /\ NewDBEdit.next = 2 /\ NewDBEdit.last = 0
    BY DEF NewDBEdit
  <2> HIDE DEF recs
  <2>4. Good(tables, logs, {}, {}, {}, 0, 0)
    BY <1>3 DEF Good, Held, LogOf, From
  <2>5. Ids' = {}
    BY <1>1, <1>3 DEF Ids
  <2>6. \A k \in 1 .. Len(recs) : k = 1
    BY <2>2
  <2>7. Numbered(1, recs)'
    <3> SUFFICES ASSUME NEW k \in 1 .. Len(recs)
                 PROVE  /\ \A i \in 1 .. k : \A n \in recs[i].add : n < recs[k].next
                        /\ recs[k].log < recs[k].next /\ 1 < recs[k].next /\ recs[k].next <= MaxNumber
                        /\ recs[k].last <= count'
      BY DEF Numbered
    <3> QED
      BY <1>1, <1>3, <2>2, <2>3, <2>6
  <2>8. Descriptor(manifests[1])'
    <3>1. \A k \in Readable(manifests'[1]) : k = 1
      BY <2>1, <2>6 DEF Readable
    <3>2. Good(tables', logs', synced', Ids', FilesAt(recs, 1), recs[1].log, recs[1].last)
      BY <1>1, <1>3, <2>2, <2>3, <2>4, <2>5
    <3> QED
      BY <1>1, <2>1, <2>2, <2>7, <3>1, <3>2 DEF Descriptor, GoodNow
  <2> QED
    BY <1>1, <1>2, <2>8 DEF DiskInv
<1>7. IdleInv'
  BY <1>1 DEF IInv, IdleInv, Idle
<1>8. RunInv'
  BY <1>1 DEF RunInv, Active
<1> QED
  BY <1>4, <1>5, <1>6, <1>7, <1>8 DEF IInv

LEMMA ProcessEndsKeeps == ASSUME IInv, ProcessEnds PROVE IInv'
<1>1. Fresh("closed") /\ UNCHANGED <<disk, ghosts>>
  BY DEF ProcessEnds
<1>2. count' = count /\ crashes' = crashes /\ synced' = synced
  BY <1>1 DEF ghosts
<1>3. FilesInv' /\ DiskInv'
  BY <1>1, DiskSame DEF IInv
<1>4. count' \in 0 .. MaxWrites /\ crashes' \in 0 .. MaxCrashes /\ (synced \subseteq Ups)'
  BY <1>2 DEF IInv, TypeInv, Ups
<1> QED
  BY <1>1, <1>3, <1>4, FreshKeeps DEF IInv

LEMMA SaveFailsKeeps == ASSUME IInv, SaveFails PROVE IInv'
<1>1. /\ pc = "setcurrent" /\ Fresh("closed") /\ tables' = tables /\ logs' = logs /\ current' = current
      /\ manifests' = [n \in DOMAIN manifests \ {vs.manifest} |-> manifests[n]]
      /\ count' = count /\ crashes' = crashes /\ synced' = synced
  BY DEF SaveFails, ghosts
<1>2. current # 0 /\ vs.manifest # current
  BY <1>1 DEF IInv, IdleInv, RunInv, Active, OpeningInv
<1>3. FilesInv'
  BY <1>1 DEF IInv, FilesInv, Ups
<1>4. DiskInv'
  <2>1. manifests'[current] = manifests[current] /\ current \in DOMAIN manifests'
    BY <1>1, <1>2 DEF IInv, DiskInv
  <2> QED
    BY <1>1, <1>2, <2>1 DEF IInv, DiskInv, Descriptor, Numbered, GoodNow, Ids
<1>5. count' \in 0 .. MaxWrites /\ crashes' \in 0 .. MaxCrashes /\ (synced \subseteq Ups)'
  BY <1>1 DEF IInv, TypeInv, Ups
<1> QED
  BY <1>1, <1>3, <1>4, <1>5, FreshKeeps DEF IInv

\* A file after a power loss: what was synced and a part of the rest.
LEMMA CutFiles ==
  ASSUME NEW files, NEW R, NEW c \in Cuts(files), NEW n \in DOMAIN files,
         files[n].recs \in Seq(R), files[n].synced \in 0 .. Len(files[n].recs)
  PROVE  /\ DOMAIN Cut(files, c) = DOMAIN files
         /\ Cut(files, c)[n].recs \in Seq(R)
         /\ Cut(files, c)[n].synced \in 0 .. Len(Cut(files, c)[n].recs)
         /\ files[n].synced <= Cut(files, c)[n].synced
         /\ \/ Cut(files, c)[n] = files[n] /\ files[n].synced = Len(files[n].recs)
            \/ \E k \in 0 .. Len(files[n].recs) :
                  /\ Cut(files, c)[n].recs = SubSeq(files[n].recs, 1, k) /\ Cut(files, c)[n].synced = k
                  /\ files[n].synced <= k /\ Len(Cut(files, c)[n].recs) = k
<1>1. DOMAIN c = Unsynced(files) /\ \A m \in Unsynced(files) : c[m] \in files[m].synced .. Len(files[m].recs)
  BY DEF Cuts
<1>2. Len(files[n].recs) \in Nat
  OBVIOUS
<1>3. CASE n \in Unsynced(files)
  <2> DEFINE k == c[n]
             s == SubSeq(files[n].recs, 1, k)
  <2>1. k \in files[n].synced .. Len(files[n].recs) /\ k \in 0 .. Len(files[n].recs)
    BY <1>1, <1>2, <1>3
  <2>2. Cut(files, c)[n] = File(s, k) /\ DOMAIN Cut(files, c) = DOMAIN files
    BY <1>1, <1>3 DEF Cut
  <2>3. s \in Seq(R) /\ Len(s) = k
    BY <2>1, <1>2
  <2> HIDE DEF k, s
  <2>4. Cut(files, c)[n].recs = s /\ Cut(files, c)[n].synced = k
    BY <2>2 DEF File
  <2>5. Cut(files, c)[n].recs = SubSeq(files[n].recs, 1, k)
    BY <2>4 DEF s
  <2>6. Len(Cut(files, c)[n].recs) = k /\ Cut(files, c)[n].recs \in Seq(R)
    BY <2>3, <2>4
  <2>7. k \in 0 .. k /\ files[n].synced <= k
    BY <2>1
  <2> QED
    BY <2>1, <2>2, <2>4, <2>5, <2>6, <2>7
<1>4. CASE n \notin Unsynced(files)
  <2>1. Cut(files, c)[n] = files[n] /\ DOMAIN Cut(files, c) = DOMAIN files
    BY <1>1, <1>4 DEF Cut
  <2>2. files[n].synced = Len(files[n].recs)
    BY <1>2, <1>4 DEF Unsynced
  <2> QED
    BY <2>1, <2>2, <1>2
<1> QED
  BY <1>3, <1>4

\* A log after a power loss.
LEMMA CutLog ==
  ASSUME NEW c \in Cuts(logs), FilesInv, NEW n \in DOMAIN logs
  PROVE  /\ Range(Cut(logs, c)[n].recs) \subseteq Range(logs[n].recs)
         /\ Sure(logs[n]) \subseteq Sure(Cut(logs, c)[n])
<1> DEFINE old == logs[n]
           new == Cut(logs, c)[n]
<1>1. old.recs \in Seq(Ups) /\ old.synced \in 0 .. Len(old.recs) /\ Len(old.recs) \in Nat
  BY DEF FilesInv
<1>2. \/ new = old
      \/ \E k \in 0 .. Len(old.recs) :
            new.recs = SubSeq(old.recs, 1, k) /\ new.synced = k /\ old.synced <= k
  BY <1>1, CutFiles
<1> HIDE DEF new, old
<1>3. ASSUME NEW k \in 0 .. Len(old.recs), new.recs = SubSeq(old.recs, 1, k), new.synced = k, old.synced <= k
      PROVE  Range(new.recs) \subseteq Range(old.recs) /\ Sure(old) \subseteq Sure(new)
  <2>1. Range(new.recs) \subseteq Range(old.recs)
    BY <1>1, <1>3, RangeSplit
  <2>2. \A i \in 1 .. old.synced : i \in 1 .. k /\ new.recs[i] = old.recs[i]
    BY <1>1, <1>3
  <2> QED
    BY <2>1, <2>2, <1>3 DEF Sure
<1>4. Range(new.recs) \subseteq Range(old.recs) /\ Sure(old) \subseteq Sure(new)
  BY <1>2, <1>3
<1> QED
  BY <1>4 DEF old, new

LEMMA PowerLossKeeps == ASSUME IInv, Covered, PowerLoss PROVE IInv'
<1>1. PICK c \in Cuts(logs), d \in Cuts(manifests) : logs' = Cut(logs, c) /\ manifests' = Cut(manifests, d)
  BY DEF PowerLoss
<1>2. /\ Fresh("closed") /\ tables' = tables /\ current' = current /\ synced' = synced /\ count' = count
      /\ crashes' = crashes + 1 /\ crashes < MaxCrashes
      /\ CreationSafe /\ current = 1 => manifests[1].synced > 0
  BY DEF PowerLoss
<1>3. FilesInv /\ TypeInv /\ DiskInv
  BY DEF IInv
<1>4. MaxCrashes # 0 /\ CreationSafe /\ Ids' = {}
  BY <1>2, <1>3 DEF Covered, TypeInv, Ids
<1>5. Ups' = Ups
  BY <1>2 DEF Ups
<1>6. DOMAIN logs' = DOMAIN logs /\ DOMAIN manifests' = DOMAIN manifests
  BY <1>1 DEF Cut
<1>7. FilesInv'
  <2>1. \A n \in DOMAIN logs : /\ logs'[n].recs \in Seq(Ups) /\ logs'[n].synced \in 0 .. Len(logs'[n].recs)
    BY <1>1, <1>3, CutFiles DEF FilesInv
  <2>2. \A n \in DOMAIN manifests : /\ manifests'[n].recs \in Seq(Edits)
                                    /\ manifests'[n].synced \in 0 .. Len(manifests'[n].recs)
    BY <1>1, <1>3, CutFiles DEF FilesInv
  <2> QED
    BY <1>2, <1>3, <1>5, <1>6, <2>1, <2>2 DEF FilesInv
<1>8. \A n \in DOMAIN logs : Range(logs'[n].recs) \subseteq Range(logs[n].recs) /\ Sure(logs[n]) \subseteq Sure(logs'[n])
  BY <1>1, <1>3, CutLog
<1>9. DiskInv'
  <2>1. current = 0 => DiskInv'
    BY <1>2, <1>3, <1>6 DEF DiskInv
  <2>2. ASSUME current # 0 PROVE DiskInv'
    <3> DEFINE m == manifests[current]
               w == manifests'[current]
    <3>1. /\ Recs \in Seq(Edits) /\ Len(Recs) \in Nat /\ Len(Recs) > 0 /\ current \in DOMAIN manifests
          /\ m.synced \in 0 .. Len(Recs) /\ current \in Nat
      BY <1>3, <2>2, DescriptorFacts
    <3>2. /\ \A k \in Readable(m) : GoodNow(FilesAt(Recs, k), Recs[k].log, Recs[k].last)
          /\ Numbered(current, Recs) /\ m.recs = Recs
      BY <1>3, <2>2 DEF DiskInv, Descriptor, Recs
    <3>3. m.synced > 0
      BY <1>2, <1>3, <1>4, <2>2 DEF DiskInv, Descriptor
    <3>4. PICK k \in 1 .. Len(Recs) :
                /\ k >= m.synced /\ Len(w.recs) = k /\ w.synced = k
                /\ w.recs = Recs \/ w.recs = SubSeq(Recs, 1, k)
      <4>1. \/ w = m /\ m.synced = Len(m.recs)
            \/ \E k \in 0 .. Len(m.recs) : /\ w.recs = SubSeq(m.recs, 1, k) /\ w.synced = k
                                           /\ m.synced <= k /\ Len(w.recs) = k
        BY <1>1, <3>1, CutFiles DEF Recs
      <4> QED
        BY <4>1, <3>1, <3>2, <3>3
    <3> HIDE DEF m, w
    <3>41. /\ k \in Nat /\ k > 0 /\ k \in 1 .. Len(Recs) /\ k >= m.synced
           /\ Len(w.recs) = k /\ w.synced = k
      <4>1. Len(w.recs) = k /\ w.synced = k /\ k >= m.synced
        BY <3>4, Zenon
      <4>2. k \in Nat /\ k > 0
        BY <3>1
      <4> QED
        BY <4>1, <4>2
    <3>5. \A i \in 1 .. k : w.recs[i] = Recs[i]
      BY <3>1, <3>4
    <3>6. FilesAt(w.recs, k) = FilesAt(Recs, k)
      BY <3>1, <3>4, <3>5, FilesAtSame
    <3>7. k \in Readable(m) /\ \A j \in Readable(w) : j = k
      <4>1. k \in Readable(m)
        BY <1>4, <3>2, <3>41 DEF Readable
      <4>2. \A j \in Readable(w) : j \in 1 .. k /\ j >= k
        BY <1>4, <3>41 DEF Readable
      <4>3. k \in Nat
        BY <3>41
      <4> QED
        BY <4>1, <4>2, <4>3
    <3>8. Good(tables, logs', synced, {}, FilesAt(w.recs, k), w.recs[k].log, w.recs[k].last)
      <4>1. Good(tables, logs, synced, Ids, FilesAt(Recs, k), Recs[k].log, Recs[k].last)
        BY <3>2, <3>7 DEF GoodNow
      <4>2. Good(tables, logs', synced, {}, FilesAt(Recs, k), Recs[k].log, Recs[k].last)
        BY <4>1, <1>6, <1>8, GoodCut
      <4> QED
        BY <4>2, <3>4, <3>5, <3>6
    <3>9. Numbered(current, w.recs)
      <4>1. \A j \in 1 .. k : j \in 1 .. Len(Recs) /\ w.recs[j] = Recs[j]
        BY <3>1, <3>4, <3>5
      <4>2. \A j \in 1 .. k : \A i \in 1 .. j : i \in 1 .. k
        BY <3>1, <3>4
      <4> QED
        BY <3>2, <3>4, <4>1, <4>2 DEF Numbered
    <3>10. Descriptor(manifests[current])'
      <4>1. Len(w.recs) > 0 /\ w.synced > 0
        BY <3>41
      <4>2. \A j \in Readable(w) : Good(tables', logs', synced', Ids', FilesAt(w.recs, j), w.recs[j].log, w.recs[j].last)
        BY <3>7, <3>8, <1>2, <1>4
      <4>3. w = manifests'[current'] /\ current' = current /\ count' = count
        BY <1>2 DEF w
      <4>4. Numbered(current, manifests[current].recs)'
        BY <3>9, <4>3 DEF Numbered
      <4> QED
        BY <4>1, <4>2, <4>3, <4>4 DEF Descriptor, GoodNow
    <3> QED
      BY <3>1, <3>10, <1>2, <1>6, <2>2 DEF DiskInv
  <2> QED
    BY <2>1, <2>2
<1>10. count' \in 0 .. MaxWrites /\ crashes' \in 0 .. MaxCrashes /\ (synced \subseteq Ups)'
  BY <1>2, <1>3, <1>5 DEF TypeInv
<1> QED
  BY <1>2, <1>3, <1>7, <1>9, <1>10, FreshKeeps

-----------------------------------------------------------------------------
(* DB::Open *)

\* Files that are made have new numbers, so every version stays as good.
LEMMA DiskGrows ==
  ASSUME FilesInv, DiskInv, current # 0, current' = current, UNCHANGED ghosts,
         current \in DOMAIN manifests', manifests'[current] = manifests[current],
         \A k \in Readable(manifests[current]) : \A n \in FilesAt(Recs, k) :
            n \in DOMAIN tables' /\ tables'[n] = tables[n],
         \A n \in DOMAIN logs : n \in DOMAIN logs' /\ logs'[n] = logs[n],
         \A n \in DOMAIN logs' : n \in DOMAIN logs \/ Range(logs'[n].recs) = {}
  PROVE  DiskInv'
<1>1. synced' = synced /\ count' = count /\ crashes' = crashes /\ Ids' = Ids
  BY DEF ghosts, Ids
<1>2. /\ current \in DOMAIN manifests /\ current \in Nat /\ Descriptor(manifests[current])
  BY DEF DiskInv
<1>3. ASSUME NEW k \in Readable(manifests[current])
      PROVE  Good(tables', logs', synced, Ids, FilesAt(Recs, k), Recs[k].log, Recs[k].last)
  <2>1. Good(tables, logs, synced, Ids, FilesAt(Recs, k), Recs[k].log, Recs[k].last)
    BY <1>2 DEF Descriptor, GoodNow, Recs
  <2>2. /\ \A n \in From(logs, Recs[k].log) : n \in DOMAIN logs' /\ logs'[n] = logs[n]
        /\ \A n \in From(logs', Recs[k].log) : n \in DOMAIN logs \/ Range(logs'[n].recs) = {}
    BY DEF From
  <2> QED
    BY <2>1, <2>2, GoodStays
<1>4. Descriptor(manifests[current])'
  BY <1>1, <1>2, <1>3 DEF Descriptor, Numbered, GoodNow, Recs
<1> QED
  BY <1>2, <1>4 DEF DiskInv

LEMMA ActiveFacts ==
  ASSUME IInv, Active
  PROVE  /\ current # 0 /\ TypeInv /\ FilesInv /\ DiskInv
         /\ VersionInv /\ MemoryInv /\ OpeningInv /\ RecordInv /\ FlushInv /\ CompactInv /\ PinnedInv
         /\ vs \in Versions
  BY DEF IInv, TypeInv, RunInv, IdleInv, Active

LEMMA RecoverKeeps == ASSUME IInv, Recover PROVE IInv'
<1>1. PICK reuse \in {FALSE, ReuseLogs} : RecoverVersions(reuse)
  BY DEF Recover
<1>2. UNCHANGED <<disk, ghosts>> /\ (pc = "recover" \/ (pc = "closed" /\ current # 0))
  BY DEF Recover
<1>3. /\ tables' = tables /\ logs' = logs /\ manifests' = manifests /\ current' = current
      /\ synced' = synced /\ count' = count /\ crashes' = crashes
  BY <1>2 DEF disk, ghosts
<1>4. FilesInv /\ DiskInv /\ IdleInv /\ TypeInv /\ current # 0
  BY <1>2 DEF IInv, IdleInv
<1>5. /\ Recs \in Seq(Edits) /\ Len(Recs) \in Nat /\ Len(Recs) > 0 /\ Recs[Len(Recs)] \in Edits
      /\ GoodNow(FilesAt(Recs, Len(Recs)), Recs[Len(Recs)].log, Recs[Len(Recs)].last)
      /\ \A n \in FilesAt(Recs, Len(Recs)) : n \in Nat /\ n < Recs[Len(Recs)].next
      /\ Recs[Len(Recs)].log < Recs[Len(Recs)].next
      /\ current < Recs[Len(Recs)].next /\ current \in Nat /\ 0 < current
      /\ Recs[Len(Recs)].next <= MaxNumber /\ Recs[Len(Recs)].last <= count
  <2>1. Len(Recs) \in Nat /\ Len(Recs) > 0
    BY <1>4, DescriptorFacts
  <2>2. Len(Recs) \in 1 .. Len(Recs)
    BY <2>1
  <2> QED
    BY <1>4, <2>1, <2>2, DescriptorFacts
<1> DEFINE last == Recs[Len(Recs)]
           F == FilesAt(Recs, Len(Recs))
<1>6. FilesAfter(Recs) = F
  BY <1>5, FilesAfterAll
<1>7. /\ vs' = [files |-> F, next |-> last.next + 1,
                manifest |-> IF reuse THEN current ELSE last.next,
                last |-> last.last, log |-> last.log, desc |-> reuse]
      /\ edit' = [save |-> ~reuse, add |-> {}]
      /\ toReplay' = {n \in DOMAIN logs : n >= last.log}
      /\ pc' = "replay"
      /\ UNCHANGED <<memory, background>>
  <2>1. Recs # <<>>
    BY <1>5
  <2>2. F \subseteq DOMAIN tables
    BY <1>5 DEF GoodNow, Good
  <2> HIDE DEF F
  <2> QED
    BY <1>1, <1>6, <2>1, <2>2 DEF RecoverVersions, Recs
<1>8. /\ mem' = {} /\ imm' = {} /\ logfile' = 0 /\ bg' = NoEdit /\ comp' = NoEdit /\ pinned' = <<>>
      /\ pending' = {} /\ bgError' = FALSE
  BY <1>2, <1>4, <1>7 DEF IdleInv, Idle, memory, background
<1> HIDE DEF F
<1>9. last \in Edits /\ last.log \in Nat /\ last.next \in Nat /\ last.last \in Nat /\ F \in SUBSET Nat /\ reuse \in BOOLEAN
  BY <1>5 DEF Edits, F
<1> HIDE DEF last
<1>10. vs' \in Versions
  BY <1>5, <1>7, <1>9 DEF Versions
<1>11. /\ vs'.files = F /\ vs'.next = last.next + 1 /\ vs'.last = last.last /\ vs'.log = last.log
       /\ vs'.desc = reuse /\ (reuse => vs'.manifest = current) /\ (~reuse => vs'.manifest = last.next)
       /\ edit'.add = {} /\ edit'.save = ~reuse
  BY <1>7
<1>12. TypeInv'
  BY <1>3, <1>4, <1>7, <1>8, <1>9, <1>10 DEF TypeInv, Pcs, Ups
<1>13. FilesInv' /\ DiskInv'
  BY <1>2, <1>4, DiskSame
<1>14. IdleInv'
  BY <1>3, <1>4, <1>7, <1>8 DEF IdleInv
<1>15. Adds' = {} /\ Mine' = F /\ Recs' = Recs /\ Ids' = Ids
  BY <1>3, <1>7, <1>11 DEF Adds, Opening, Mine, Recs, Ids
<1>16. Good(tables, logs, synced, Ids, F, last.log, last.last)
  BY <1>5 DEF GoodNow, F, last
<1>17. VersionInv'
  <2>1. F \subseteq DOMAIN tables /\ \A n \in F : n < last.next + 1
    BY <1>5, <1>9, <1>16 DEF Good, F, last
  <2>2. GoodNow(vs.files, vs.log, vs.last)'
    BY <1>3, <1>11, <1>15, <1>16 DEF GoodNow
  <2>3. 0 < vs'.manifest /\ vs'.manifest < vs'.next
    BY <1>5, <1>9, <1>11 DEF last
  <2> QED
    BY <1>3, <1>5, <1>7, <1>9, <1>11, <1>15, <2>1, <2>2, <2>3 DEF VersionInv, last
<1>18. MemoryInv'
  <2>1. \A u \in Held(tables, F) : u.seq <= last.last
    BY <1>16 DEF Good
  <2>2. Held(tables', Adds') = {}
    BY <1>15 DEF Held
  <2>3. toReplay' = From(logs, last.log)
    BY <1>7 DEF From
  <2>4. \A n \in DOMAIN logs \ toReplay' : n < last.next + 1 /\ \A m \in toReplay' : n < m
    <3>1. \A n \in DOMAIN logs : n \in Nat
      BY <1>4 DEF FilesInv
    <3> QED
      BY <3>1, <2>3, <1>5, <1>9 DEF From, last
  <2> QED
    BY <1>3, <1>7, <1>8, <1>11, <1>15, <2>1, <2>2, <2>3, <2>4 DEF MemoryInv
<1>19. OpeningInv'
  <2>1. Matches(Len(Recs), vs.files, vs.log)'
    BY <1>11, <1>15 DEF Matches, F, last
  <2>2. ~reuse => vs'.manifest # current
    BY <1>5, <1>9, <1>11 DEF last
  <2>3. pc' = "replay" /\ current' = current
    BY <1>3, <1>7
  <2> QED
    BY <1>11, <2>1, <2>2, <2>3 DEF OpeningInv
<1>20. RunInv'
  BY <1>7, <1>8, <1>17, <1>18, <1>19 DEF RunInv, RecordInv, FlushInv, CompactInv, PinnedInv, Running
<1> QED
  BY <1>12, <1>13, <1>14, <1>20 DEF IInv

\* A log that is replayed is in new tables or, if it is kept, in the memtable.
Replayed(n, keep) ==
    \E new \in SUBSET Nat, next \in Nat, last \in Nat :
        /\ vs' = [vs EXCEPT !.next = next, !.last = last]
        /\ edit' = [save |-> edit.save \/ new # {}, add |-> edit.add \cup new]
        /\ \A m \in new : m >= vs.next /\ m < next
        /\ next >= vs.next /\ n < next /\ next <= MaxNumber
        /\ last >= vs.last /\ last <= count /\ \A u \in Range(logs[n].recs) : u.seq <= last
        /\ DOMAIN tables' = DOMAIN tables \cup new
        /\ \A m \in DOMAIN tables : m \notin new => tables'[m] = tables[m]
        /\ \A m \in new : tables'[m] \subseteq Range(logs[n].recs)
        /\ IF keep THEN new = {} /\ mem' = Range(logs[n].recs) /\ logfile' = n
           ELSE Held(tables', new) = Range(logs[n].recs) /\ mem' = mem /\ logfile' = logfile

LEMMA ReplayFacts ==
  ASSUME vs \in Versions, edit \in [save : BOOLEAN, add : SUBSET Nat], vs.last <= count,
         count \in Nat, vs.next + 2 <= MaxNumber,
         NEW n \in 0 .. MaxNumber - 1, logs[n].recs \in Seq(Ups), NEW k \in 0 .. Len(logs[n].recs),
         NEW keep \in BOOLEAN, keep => k = 0, RecoverLogFile(n, k, keep)
  PROVE  Replayed(n, keep)
<1> DEFINE recs == logs[n].recs
           full == Range(SubSeq(recs, 1, k))
           rest == Range(SubSeq(recs, k + 1, Len(recs)))
           second == vs.next + (IF full = {} THEN 0 ELSE 1)
           end == second + (IF keep \/ rest = {} THEN 0 ELSE 1)
           new == vs.next .. end - 1
           next == MarkFileNumberUsed(end, n)
           seqs == {vs.last} \cup {u.seq : u \in Range(recs)}
           last == Max(seqs)
<1>1. /\ tables' = [m \in DOMAIN tables \cup new |->
                      IF m \notin new THEN tables[m] ELSE IF m < second THEN full ELSE rest]
      /\ mem' = (IF keep THEN rest ELSE mem)
      /\ logfile' = (IF keep THEN n ELSE logfile)
      /\ edit' = [save |-> edit.save \/ new # {}, add |-> edit.add \cup new]
      /\ vs' = [vs EXCEPT !.next = next, !.last = last]
  BY DEF RecoverLogFile
<1>2. full \cup rest = Range(recs) /\ (k = 0 => full = {})
  BY RangeSplit
<1>3. vs.next \in Nat /\ vs.last \in Nat
  BY DEF Versions
<1>4. last \in Nat /\ last >= vs.last /\ last <= count /\ \A u \in Range(recs) : u.seq <= last
  <2>0. Range(recs) \subseteq Ups
    BY DEF Range
  <2>1. \A u \in Range(recs) : u.seq \in 1 .. count
    BY <2>0 DEF Ups
  <2> HIDE DEF recs
  <2>2. seqs \subseteq Nat /\ (\A x \in seqs : x <= count) /\ vs.last \in seqs
    BY <1>3, <2>1
  <2>3. \A u \in Range(recs) : u.seq \in seqs
    OBVIOUS
  <2> HIDE DEF seqs
  <2>4. Max(seqs) \in seqs /\ \A x \in seqs : Max(seqs) >= x
    BY <2>2, GreatestExists
  <2> QED
    BY <2>2, <2>3, <2>4
<1> HIDE DEF last, seqs, full, rest, recs
<1>5. /\ second \in Nat /\ end \in Nat /\ vs.next <= second /\ second <= end /\ end <= vs.next + 2
      /\ (full = {} => second = vs.next) /\ (full # {} => second = vs.next + 1)
      /\ (keep \/ rest = {} => end = second) /\ (~keep /\ rest # {} => end = second + 1)
  <2>1. /\ second \in Nat /\ vs.next <= second /\ second <= vs.next + 1
        /\ (full = {} => second = vs.next) /\ (full # {} => second = vs.next + 1)
    BY <1>3
  <2> HIDE DEF second
  <2>2. /\ end \in Nat /\ second <= end /\ end <= second + 1
        /\ (keep \/ rest = {} => end = second) /\ (~keep /\ rest # {} => end = second + 1)
    BY <2>1
  <2>3. end <= vs.next + 2
    BY <1>3, <2>1, <2>2
  <2> QED
    BY <2>1, <2>2, <2>3
<1> HIDE DEF second, end
<1>6. next \in Nat /\ next >= end /\ n < next /\ next <= MaxNumber
  <2>1. n \in Nat /\ n + 1 \in Nat /\ n + 1 <= MaxNumber /\ end <= MaxNumber /\ end \in Nat
    BY <1>3, <1>5
  <2> QED
    BY <2>1 DEF MarkFileNumberUsed
<1> HIDE DEF next
<1>7. new \subseteq Nat /\ \A m \in new : m >= vs.next /\ m < end
  <2>1. end \in Nat /\ vs.next \in Nat
    BY <1>3, <1>5
  <2> QED
    BY <2>1
<1>8. \A m \in new : m < second => full # {}
  BY <1>3, <1>5, <1>7
<1>9. \A m \in new : tables'[m] = IF m < second THEN full ELSE rest
  BY <1>1
<1>10. ~keep => Held(tables', new) = Range(recs)
  <2> SUFFICES ASSUME ~keep PROVE Held(tables', new) = full \cup rest
    BY <1>2
  <2>1. full # {} => vs.next \in new /\ vs.next < second
    BY <1>3, <1>5
  <2>2. rest # {} => second \in new
    BY <1>3, <1>5
  <2>3. second \in Nat
    BY <1>5
  <2> HIDE DEF new
  <2>4. full \subseteq Held(tables', new)
    BY <1>9, <2>1 DEF Held
  <2>5. rest \subseteq Held(tables', new)
    BY <1>9, <2>2, <2>3 DEF Held
  <2>6. Held(tables', new) \subseteq full \cup rest
    BY <1>9 DEF Held
  <2> QED
    BY <2>4, <2>5, <2>6
<1>11. keep => new = {} /\ mem' = Range(recs)
  <2> SUFFICES ASSUME keep PROVE new = {} /\ mem' = Range(recs)
    OBVIOUS
  <2>1. full = {} /\ rest = Range(recs)
    BY <1>2
  <2>2. end = vs.next
    BY <1>5, <2>1
  <2>3. new = {}
    BY <1>3, <2>2
  <2> QED
    BY <1>1, <2>1, <2>3
<1> HIDE DEF new
<1>12. \A m \in DOMAIN tables : m \notin new => tables'[m] = tables[m]
  BY <1>1
<1>13. \A m \in new : tables'[m] \subseteq Range(recs)
  BY <1>2, <1>9
<1>14. next >= vs.next /\ \A m \in new : m < next
  BY <1>3, <1>5, <1>6, <1>7
<1>15. new \in SUBSET Nat
  BY <1>7
<1>16. DOMAIN tables' = DOMAIN tables \cup new
  BY <1>1
<1> QED
  BY <1>1, <1>4, <1>6, <1>7, <1>10, <1>11, <1>12, <1>13, <1>14, <1>15, <1>16 DEF recs, Replayed

LEMMA ReplayLogKeeps == ASSUME IInv, ReplayLog PROVE IInv'
<1>1. /\ pc = "replay" /\ toReplay # {} /\ vs.next + 2 <= MaxNumber
      /\ logs' = logs /\ manifests' = manifests /\ current' = current /\ pc' = pc /\ imm' = imm
      /\ pending' = pending /\ bg' = bg /\ comp' = comp /\ pinned' = pinned /\ bgError' = bgError
      /\ synced' = synced /\ count' = count /\ crashes' = crashes
      /\ UNCHANGED ghosts
  BY DEF ReplayLog, background, ghosts
<1>2. /\ current # 0 /\ TypeInv /\ FilesInv /\ DiskInv
      /\ VersionInv /\ MemoryInv /\ OpeningInv /\ vs \in Versions /\ Active
  BY <1>1, ActiveFacts DEF Active
<1>3. toReplay \subseteq From(logs, vs.log) /\ \A n \in DOMAIN logs : n \in Nat
  BY <1>2 DEF MemoryInv, FilesInv
<1> DEFINE n == Min(toReplay)
<1>4. n \in toReplay /\ \A m \in toReplay : n <= m
  <2>1. toReplay \subseteq Nat
    BY <1>3 DEF From
  <2> QED
    BY <1>1, <2>1, LeastExists
<1>5. PICK k \in 0 .. Len(logs[n].recs) :
         \E keep \in {FALSE, ReuseLogs /\ toReplay = {n} /\ k = 0} : RecoverLogFile(n, k, keep)
  BY DEF ReplayLog
<1>51. PICK keep \in {FALSE, ReuseLogs /\ toReplay = {n} /\ k = 0} : RecoverLogFile(n, k, keep)
  BY <1>5
<1>6. toReplay' = toReplay \ {n}
  BY DEF ReplayLog
<1> HIDE DEF n
<1>7. n \in DOMAIN logs /\ n >= vs.log /\ n \in 0 .. MaxNumber - 1 /\ logs[n].recs \in Seq(Ups) /\ n \in Nat /\ n # 0
  BY <1>2, <1>3, <1>4 DEF From, FilesInv
<1>8. keep \in BOOLEAN /\ (keep => k = 0 /\ toReplay = {n})
  OBVIOUS
<1>9. edit \in [save : BOOLEAN, add : SUBSET Nat] /\ vs.last <= count /\ count \in Nat /\ vs.next \in Nat
      /\ vs.last \in Nat /\ vs.log \in Nat
  BY <1>2 DEF TypeInv, VersionInv, Versions
<1>52. /\ vs \in Versions /\ edit \in [save : BOOLEAN, add : SUBSET Nat] /\ vs.last <= count
       /\ count \in Nat /\ vs.next + 2 <= MaxNumber
       /\ n \in 0 .. MaxNumber - 1 /\ logs[n].recs \in Seq(Ups) /\ k \in 0 .. Len(logs[n].recs)
       /\ keep \in BOOLEAN /\ (keep => k = 0)
  BY <1>1, <1>2, <1>7, <1>8, <1>9
<1>91. Replayed(n, keep)
  BY <1>52, <1>51, ReplayFacts
<1> DEFINE R == Range(logs[n].recs)
<1>10. PICK new \in SUBSET Nat, next \in Nat, last \in Nat :
            /\ vs' = [vs EXCEPT !.next = next, !.last = last]
            /\ edit' = [save |-> edit.save \/ new # {}, add |-> edit.add \cup new]
            /\ \A m \in new : m >= vs.next /\ m < next
            /\ next >= vs.next /\ n < next /\ next <= MaxNumber
            /\ last >= vs.last /\ last <= count /\ \A u \in R : u.seq <= last
            /\ DOMAIN tables' = DOMAIN tables \cup new
            /\ \A m \in DOMAIN tables : m \notin new => tables'[m] = tables[m]
            /\ \A m \in new : tables'[m] \subseteq R
            /\ IF keep THEN new = {} /\ mem' = R /\ logfile' = n
               ELSE Held(tables', new) = R /\ mem' = mem /\ logfile' = logfile
  BY <1>91 DEF Replayed
<1>11. R \subseteq Ups /\ R \subseteq LogOf(logs, vs.log)
  <2>1. R \subseteq Ups
    BY <1>7 DEF Range
  <2>2. n \in From(logs, vs.log)
    BY <1>3, <1>4
  <2> QED
    BY <2>1, <2>2 DEF LogOf
<1> HIDE DEF R
<1>12. /\ vs'.next = next /\ vs'.last = last /\ vs'.files = vs.files /\ vs'.log = vs.log
       /\ vs'.manifest = vs.manifest /\ vs'.desc = vs.desc /\ vs' \in Versions
       /\ edit'.add = edit.add \cup new /\ edit' \in [save : BOOLEAN, add : SUBSET Nat]
       /\ (edit.save => edit'.save) /\ (~edit'.save => new = {} /\ ~edit.save)
  <2>1. edit.add \cup new \in SUBSET Nat /\ (edit.save \/ new # {}) \in BOOLEAN
    BY <1>9
  <2>2. edit'.add = edit.add \cup new /\ edit'.save = (edit.save \/ new # {})
    BY <1>10
  <2>3. edit' \in [save : BOOLEAN, add : SUBSET Nat]
    BY <1>10, <2>1
  <2>4. /\ vs'.next = next /\ vs'.last = last /\ vs'.files = vs.files /\ vs'.log = vs.log
        /\ vs'.manifest = vs.manifest /\ vs'.desc = vs.desc /\ vs' \in Versions
    BY <1>2, <1>10 DEF Versions
  <2> QED
    BY <2>2, <2>3, <2>4
<1>13. TypeInv'
  BY <1>1, <1>2, <1>12 DEF TypeInv, Ups
<1>14. FilesInv'
  <2>1. \A m \in DOMAIN tables' : m \in 0 .. MaxNumber /\ tables'[m] \subseteq Ups
    <3>1. ASSUME NEW m \in new PROVE m \in 0 .. MaxNumber /\ tables'[m] \subseteq Ups
      BY <1>9, <1>10, <1>11
    <3>2. ASSUME NEW m \in DOMAIN tables, m \notin new PROVE m \in 0 .. MaxNumber /\ tables'[m] \subseteq Ups
      BY <1>2, <1>10, <3>2 DEF FilesInv
    <3> QED
      BY <1>10, <3>1, <3>2
  <2> QED
    BY <1>1, <1>2, <2>1 DEF FilesInv, Ups
<1>15. \A m \in DOMAIN tables : m < vs.next => m \in DOMAIN tables' /\ tables'[m] = tables[m]
  <2>1. \A m \in DOMAIN tables : m \in Nat
    BY <1>2 DEF FilesInv
  <2> QED
    BY <2>1, <1>9, <1>10
<1>16. DiskInv'
  <2>1. ASSUME NEW k1 \in Readable(manifests[current]), NEW m \in FilesAt(Recs, k1)
        PROVE  m \in DOMAIN tables' /\ tables'[m] = tables[m]
    <3>1. m < Recs[Len(Recs)].next /\ m \in Nat /\ Recs[Len(Recs)].next \in Nat
      <4>1. Len(Recs) \in 1 .. Len(Recs)
        BY <1>2, DescriptorFacts
      <4> QED
        BY <1>2, <4>1, DescriptorFacts DEF Edits
    <3>2. m \in DOMAIN tables
      BY <1>2, DescriptorFacts DEF GoodNow, Good
    <3> QED
      BY <3>1, <3>2, <1>2, <1>9, <1>15 DEF VersionInv
  <2>2. current \in DOMAIN manifests
    BY <1>2 DEF DiskInv
  <2> QED
    BY <1>1, <1>2, <2>1, <2>2, DiskGrows
<1>17. IdleInv'
  BY <1>1, <1>2 DEF IInv, IdleInv
<1>18. /\ Adds = edit.add /\ Adds' = edit.add \cup new /\ Mine' = Mine \cup new /\ Recs' = Recs /\ Ids' = Ids
       /\ Mine \subseteq DOMAIN tables /\ \A m \in Mine : m < vs.next /\ m \in Nat
  <2>1. Mine \subseteq DOMAIN tables /\ \A m \in Mine : m < vs.next
    BY <1>2 DEF VersionInv
  <2>2. \A m \in DOMAIN tables : m \in Nat
    BY <1>2 DEF FilesInv
  <2> QED
    BY <1>1, <1>12, <2>1, <2>2 DEF Adds, Opening, Mine, Recs, Ids
<1>19. /\ Held(tables', Mine) = Held(tables, Mine) /\ Held(tables', Adds) = Held(tables, Adds)
       /\ Held(tables', new) \subseteq R
       /\ Held(tables', Mine') = Held(tables, Mine) \cup Held(tables', new)
       /\ Held(tables', Adds') = Held(tables, Adds) \cup Held(tables', new)
  <2>1. \A m \in Mine : tables'[m] = tables[m]
    BY <1>15, <1>18
  <2>2. Held(tables', Mine) = Held(tables, Mine)
    BY <2>1 DEF Held
  <2>3. Held(tables', Adds) = Held(tables, Adds)
    BY <2>1 DEF Held, Mine
  <2>4. Held(tables', new) \subseteq R
    BY <1>10 DEF Held
  <2>5. Held(tables', Mine \cup new) = Held(tables', Mine) \cup Held(tables', new)
    BY DEF Held
  <2>6. Held(tables', Adds \cup new) = Held(tables', Adds) \cup Held(tables', new)
    BY DEF Held
  <2> QED
    BY <1>18, <2>2, <2>3, <2>4, <2>5, <2>6
<1>20. VersionInv'
  <2>1. GoodNow(vs.files, vs.log, vs.last)'
    <3>1. Good(tables, logs, synced, Ids, vs.files, vs.log, vs.last)
      BY <1>2 DEF VersionInv, GoodNow
    <3>2. \A m \in vs.files : m \in DOMAIN tables' /\ tables'[m] = tables[m]
      BY <1>15, <1>18 DEF Mine
    <3>3. /\ \A m \in From(logs, vs.log) : m \in DOMAIN logs /\ logs[m] = logs[m]
          /\ \A m \in From(logs, vs.log) : m \in DOMAIN logs \/ Range(logs[m].recs) = {}
      BY DEF From
    <3>4. Good(tables', logs, synced, Ids, vs.files, vs.log, vs.last)
      BY <3>1, <3>2, <3>3, GoodStays
    <3>5. \A u \in Held(tables', vs.files) : u.seq <= last
      <4>1. \A u \in Held(tables', vs.files) : u.seq <= vs.last /\ u \in Ups
        <5>1. \A u \in Held(tables', vs.files) : u.seq <= vs.last
          BY <3>4 DEF Good
        <5>2. Held(tables', vs.files) \subseteq Ups
          <6>1. vs.files \subseteq DOMAIN tables
            BY <1>18 DEF Mine
          <6>2. \A m \in vs.files : tables'[m] \subseteq Ups
            BY <3>2, <6>1, <1>2 DEF FilesInv
          <6> QED
            BY <6>2 DEF Held
        <5> QED
          BY <5>1, <5>2
      <4>2. \A u \in Ups : u.seq \in Nat
        BY <1>9 DEF Ups
      <4> QED
        BY <4>1, <4>2, <1>9, <1>10
    <3>6. Good(tables', logs, synced, Ids, vs.files, vs.log, last)
      BY <3>4, <3>5 DEF Good
    <3> QED
      BY <3>6, <1>1, <1>12, <1>18 DEF GoodNow
  <2>2. Mine' \subseteq DOMAIN tables' /\ \A m \in Mine' : m < next
    <3>1. ASSUME NEW m \in Mine PROVE m \in DOMAIN tables' /\ m < next
      BY <1>9, <1>15, <1>18, <1>10
    <3> QED
      BY <3>1, <1>10, <1>18
  <2>3. /\ vs.log < next /\ vs.manifest < next /\ next <= MaxNumber + 1 /\ 0 < vs.manifest
        /\ Recs[Len(Recs)].next <= next /\ Recs[Len(Recs)].last <= last
    <3>1. Len(Recs) \in 1 .. Len(Recs)
      BY <1>2, DescriptorFacts
    <3>2. Recs[Len(Recs)] \in Edits
      BY <1>2, <3>1, DescriptorFacts
    <3>3. vs.manifest \in Nat /\ Recs[Len(Recs)].next \in Nat /\ Recs[Len(Recs)].last \in Nat
      BY <3>2, <1>2 DEF Edits, Versions
    <3>4. /\ vs.log < vs.next /\ 0 < vs.manifest /\ vs.manifest < vs.next
          /\ Recs[Len(Recs)].next <= vs.next /\ Recs[Len(Recs)].last <= vs.last
      BY <1>2 DEF VersionInv
    <3>5. next \in Nat /\ next >= vs.next /\ next <= MaxNumber /\ last \in Nat /\ last >= vs.last
      BY <1>10
    <3>6. vs.log \in Nat /\ vs.next \in Nat /\ vs.last \in Nat
      BY <1>9
    <3> QED
      BY <3>3, <3>4, <3>5, <3>6
  <2> QED
    BY <1>1, <1>10, <1>12, <1>18, <2>1, <2>2, <2>3 DEF VersionInv
<1>21. logfile = 0 /\ mem = {} /\ imm = {}
  <2>1. logfile = 0
    BY <1>1, <1>2 DEF MemoryInv
  <2> QED
    BY <1>1, <1>2, <2>1 DEF MemoryInv, IInv, IdleInv
<1>22. MemoryInv'
  <2>1. \A u \in Held(tables', Mine') \cup mem' \cup imm' : u.seq <= last
    <3>1. ASSUME NEW u \in Held(tables, Mine) PROVE u.seq <= last
      <4>1. u.seq <= vs.last
        BY <1>2 DEF MemoryInv
      <4>2. u \in Ups
        BY <1>2, <1>18 DEF Held, FilesInv
      <4>3. u.seq \in Nat
        BY <4>2, <1>9 DEF Ups
      <4> QED
        BY <4>1, <4>3, <1>9, <1>10
    <3>2. mem' \subseteq R /\ imm' = {}
      BY <1>1, <1>10, <1>21
    <3> QED
      BY <1>10, <1>19, <3>1, <3>2
  <2>2. mem' \cup imm' \cup Held(tables', Adds') \subseteq LogOf(logs', vs'.log)
    <3>1. Held(tables, Adds) \subseteq LogOf(logs, vs.log)
      BY <1>2 DEF MemoryInv
    <3>2. mem' \subseteq R /\ imm' = {}
      BY <1>1, <1>10, <1>21
    <3> QED
      BY <1>1, <1>11, <1>12, <1>19, <3>1, <3>2
  <2>3. ASSUME NEW m \in From(logs', vs'.log) \ (toReplay' \cup {logfile'})
        PROVE  Range(logs'[m].recs) \subseteq Held(tables', Mine') \cup imm'
    <3>1. m \in From(logs, vs.log)
      BY <1>1, <1>12
    <3>2. CASE m = n
      <4>1. ~keep
        BY <1>10, <3>2
      <4>2. Held(tables', new) = R
        BY <1>10, <4>1
      <4> QED
        BY <4>2, <1>1, <1>19, <3>2 DEF R
    <3>3. CASE m # n
      <4>1. m \notin toReplay
        BY <1>6, <3>3
      <4>2. m # 0
        BY <3>1, <1>2 DEF From, FilesInv
      <4>3. Range(logs[m].recs) \subseteq Held(tables, Mine) \cup imm
        BY <1>2, <1>21, <3>1, <4>1, <4>2 DEF MemoryInv
      <4> QED
        BY <4>3, <1>1, <1>19
    <3> QED
      BY <3>2, <3>3
  <2>4. toReplay' \subseteq From(logs', vs'.log)
    BY <1>1, <1>3, <1>6, <1>12
  <2>5. ASSUME NEW x \in DOMAIN logs' \ toReplay' PROVE x < next /\ \A m \in toReplay' : x < m
    <3>1. \A m \in toReplay' : n < m /\ m \in toReplay
      <4>1. \A m \in toReplay : m \in Nat
        BY <1>3 DEF From
      <4> QED
        BY <4>1, <1>4, <1>6, <1>7
    <3>2. CASE x = n
      BY <3>1, <3>2, <1>10
    <3>3. CASE x # n
      <4>1. x \in DOMAIN logs \ toReplay /\ x \in Nat
        BY <1>1, <1>3, <1>6, <3>3
      <4>2. x < vs.next /\ \A m \in toReplay : x < m
        BY <1>2, <4>1 DEF MemoryInv
      <4>3. x < next
        BY <4>1, <4>2, <1>9, <1>10
      <4> QED
        BY <4>2, <4>3, <3>1
    <3> QED
      BY <3>2, <3>3
  <2>6. CASE keep
    <3>1. logfile' = n /\ mem' = R /\ toReplay' = {} /\ n # 0
      BY <1>6, <1>7, <1>8, <1>10, <2>6
    <3>2. \A m \in DOMAIN logs' : m <= n
      <4>1. \A m \in DOMAIN logs \ toReplay : m < n
        BY <1>2, <1>4 DEF MemoryInv
      <4>2. \A m \in toReplay : m = n
        BY <1>8, <2>6
      <4> QED
        BY <4>1, <4>2, <1>1, <1>3, <1>7
    <3>3. n \in From(logs', vs'.log) /\ R = Range(logs'[n].recs)
      BY <1>1, <1>3, <1>4, <1>12 DEF R
    <3> QED
      BY <2>1, <2>2, <2>3, <2>4, <2>5, <3>1, <3>2, <3>3, <1>1, <1>12 DEF MemoryInv
  <2>7. CASE ~keep
    <3>1. logfile' = 0 /\ mem' = {}
      BY <1>10, <1>21, <2>7
    <3> QED
      BY <2>1, <2>2, <2>3, <2>4, <2>5, <3>1, <1>1, <1>12 DEF MemoryInv
  <2> QED
    BY <2>6, <2>7
<1>23. OpeningInv'
  BY <1>1, <1>2, <1>12, <1>18 DEF OpeningInv, Matches
<1>24. RunInv'
  BY <1>1, <1>20, <1>22, <1>23 DEF RunInv, RecordInv, FlushInv, CompactInv, PinnedInv, Running
<1> QED
  BY <1>13, <1>14, <1>16, <1>17, <1>24 DEF IInv

\* A log that is kept open, or a new one; with a new one nothing is replayed twice.
LEMMA NewLogKeeps == ASSUME IInv, Covered, NewLog PROVE IInv'
<1>1. /\ pc = "replay" /\ toReplay = {} /\ vs.next < MaxNumber
      /\ pc' = (IF edit.save THEN "save" ELSE "collect")
      /\ tables' = tables /\ manifests' = manifests /\ current' = current /\ toReplay' = toReplay
      /\ edit' = edit /\ mem' = mem /\ imm' = imm /\ pending' = pending /\ bg' = bg /\ comp' = comp
      /\ pinned' = pinned /\ bgError' = bgError /\ synced' = synced /\ count' = count /\ crashes' = crashes
      /\ UNCHANGED ghosts
  BY DEF NewLog, opening, background, ghosts
<1>2. /\ current # 0 /\ TypeInv /\ FilesInv /\ DiskInv /\ IdleInv
      /\ VersionInv /\ MemoryInv /\ OpeningInv /\ vs \in Versions
  BY <1>1, ActiveFacts DEF Active, IInv
<1>3. /\ vs.next \in Nat /\ vs.log \in Nat /\ vs.manifest \in Nat /\ vs.last \in Nat
      /\ vs.log < vs.next /\ \A n \in DOMAIN logs : n \in Nat /\ n # 0 /\ n < vs.next
  BY <1>1, <1>2 DEF Versions, VersionInv, MemoryInv, FilesInv
<1>4. /\ \A n \in DOMAIN logs : n \in DOMAIN logs' /\ logs'[n] = logs[n]
      /\ \A n \in DOMAIN logs' : n \in DOMAIN logs \/ Range(logs'[n].recs) = {}
      /\ logfile' # 0 /\ logfile' \in DOMAIN logs' /\ logfile' >= vs.log
      /\ mem = Range(logs'[logfile'].recs) /\ \A n \in DOMAIN logs' : n <= logfile'
      /\ vs' \in Versions /\ vs'.files = vs.files /\ vs'.log = vs.log /\ vs'.last = vs.last
      /\ vs'.manifest = vs.manifest /\ vs'.desc = vs.desc
      /\ vs.next <= vs'.next /\ vs'.next <= MaxNumber /\ logfile' < vs'.next
      /\ \A n \in DOMAIN logs' : n # logfile' => n \in DOMAIN logs /\ n # logfile
      /\ FilesInv'
  <2>1. CASE logfile = 0
    <3>1. /\ logfile' = vs.next /\ vs' = [vs EXCEPT !.next = vs.next + 1]
          /\ logs' = [m \in DOMAIN logs \cup {vs.next} |-> IF m = vs.next THEN File(<<>>, 0) ELSE logs[m]]
      BY <2>1 DEF NewLog, Put
    <3>2. File(<<>>, 0).recs = <<>> /\ File(<<>>, 0).synced = 0
      BY DEF File
    <3>3. Range(<<>>) = {} /\ <<>> \in Seq(Ups) /\ Len(<<>>) = 0
      BY DEF Range
    <3>4. vs.next \notin DOMAIN logs /\ mem = {}
      BY <1>2, <1>3, <2>1 DEF MemoryInv
    <3>5. logs'[vs.next] = File(<<>>, 0) /\ \A n \in DOMAIN logs : logs'[n] = logs[n]
      BY <3>1, <3>4
    <3>6. vs' \in Versions /\ vs'.files = vs.files /\ vs'.log = vs.log /\ vs'.last = vs.last
          /\ vs'.manifest = vs.manifest /\ vs'.desc = vs.desc /\ vs'.next = vs.next + 1
      BY <1>2, <1>3, <3>1 DEF Versions
    <3>7. \A n \in DOMAIN logs' : n \in DOMAIN logs \/ n = vs.next
      BY <3>1
    <3>8. FilesInv'
      <4>1. \A n \in DOMAIN logs' : /\ n \in 1 .. MaxNumber - 1 /\ logs'[n].recs \in Seq(Ups)
                                    /\ logs'[n].synced \in 0 .. Len(logs'[n].recs)
        <5>1. /\ vs.next \in 1 .. MaxNumber - 1 /\ logs'[vs.next].recs \in Seq(Ups)
              /\ logs'[vs.next].synced \in 0 .. Len(logs'[vs.next].recs)
          <6>1. vs.next \in 1 .. MaxNumber - 1
            BY <1>1, <1>3
          <6>2. logs'[vs.next].recs = <<>> /\ logs'[vs.next].synced = 0
            BY <3>2, <3>5
          <6> QED
            BY <6>1, <6>2, <3>3
        <5> QED
          BY <1>2, <3>5, <3>7, <5>1 DEF FilesInv
      <4> QED
        BY <1>1, <1>2, <4>1 DEF FilesInv, Ups
    <3> QED
      BY <1>1, <1>3, <2>1, <3>1, <3>2, <3>3, <3>4, <3>5, <3>6, <3>7, <3>8
  <2>2. CASE logfile # 0
    <3>1. logfile' = logfile /\ logs' = logs /\ vs' = vs
      BY <2>2 DEF NewLog
    <3>2. FilesInv'
      BY <1>1, <1>2, <3>1 DEF FilesInv, Ups
    <3>3. /\ logfile \in From(logs, vs.log) /\ mem = Range(logs[logfile].recs)
          /\ \A n \in DOMAIN logs : n <= logfile
      BY <1>2, <2>2 DEF MemoryInv
    <3> QED
      BY <1>1, <1>2, <1>3, <2>2, <3>1, <3>2, <3>3 DEF From
  <2> QED
    BY <2>1, <2>2
<1>5. TypeInv'
  BY <1>1, <1>2, <1>4 DEF TypeInv, Ups, Pcs
<1>6. \A k \in Readable(manifests[current]) : FilesAt(Recs, k) \subseteq DOMAIN tables
  BY <1>2, DescriptorFacts DEF GoodNow, Good
<1>7. DiskInv'
  <2>1. current \in DOMAIN manifests
    BY <1>2 DEF DiskInv
  <2> QED
    BY <1>1, <1>2, <1>4, <1>6, <2>1, DiskGrows
<1>8. IdleInv'
  BY <1>1, <1>2 DEF IdleInv
<1>9. Adds' = Adds /\ Mine' = Mine /\ Recs' = Recs /\ Ids' = Ids
  <2>1. CASE edit.save
    BY <1>1, <1>4, <2>1 DEF Adds, Opening, Mine, Recs, Ids
  <2>2. CASE ~edit.save
    <3>1. edit.add = {}
      BY <1>1, <1>2, <2>2 DEF OpeningInv
    <3> QED
      BY <1>1, <1>4, <2>2, <3>1 DEF Adds, Opening, Mine, Recs, Ids
  <2> QED
    BY <2>1, <2>2
<1>10. Good(tables, logs', synced, Ids, vs.files, vs.log, vs.last) /\ LogOf(logs', vs.log) = LogOf(logs, vs.log)
  <2>1. Good(tables, logs, synced, Ids, vs.files, vs.log, vs.last)
    BY <1>2 DEF VersionInv, GoodNow
  <2>2. \A m \in vs.files : m \in DOMAIN tables /\ tables[m] = tables[m]
    BY <2>1 DEF Good
  <2>3. /\ \A m \in From(logs, vs.log) : m \in DOMAIN logs' /\ logs'[m] = logs[m]
        /\ \A m \in From(logs', vs.log) : m \in DOMAIN logs \/ Range(logs'[m].recs) = {}
    BY <1>4 DEF From
  <2> QED
    BY <2>1, <2>2, <2>3, GoodStays
<1>11. VersionInv'
  <2>1. GoodNow(vs.files, vs.log, vs.last)'
    BY <1>1, <1>4, <1>9, <1>10 DEF GoodNow
  <2>2. Len(Recs) \in 1 .. Len(Recs)
    BY <1>2, DescriptorFacts
  <2>3. Recs[Len(Recs)].next \in Nat /\ Recs[Len(Recs)].next <= vs.next /\ Recs[Len(Recs)].last <= vs.last
    BY <1>2, <2>2, DescriptorFacts DEF Edits, VersionInv
  <2>4. \A n \in Mine : n \in Nat /\ n < vs.next
    <3>1. \A n \in DOMAIN tables : n \in Nat
      BY <1>2 DEF FilesInv
    <3> QED
      BY <3>1, <1>2 DEF VersionInv
  <2>5. vs.last <= count /\ 0 < vs.manifest /\ vs.manifest < vs.next /\ Mine \subseteq DOMAIN tables
    BY <1>2 DEF VersionInv
  <2>6. vs'.next \in Nat
    BY <1>4 DEF Versions
  <2>7. vs'.next <= MaxNumber + 1 /\ vs.log < vs'.next /\ vs.manifest < vs'.next /\ Recs[Len(Recs)].next <= vs'.next
    BY <1>3, <1>4, <2>3, <2>5, <2>6
  <2>8. \A n \in Mine : n < vs'.next
    BY <1>3, <1>4, <2>4, <2>6
  <2> QED
    BY <1>1, <1>4, <1>9, <2>1, <2>3, <2>5, <2>7, <2>8 DEF VersionInv
<1>12. MemoryInv'
  <2>1. /\ \A u \in Held(tables, Mine) \cup mem \cup imm : u.seq <= vs.last
        /\ mem \cup imm \cup Held(tables, Adds) \subseteq LogOf(logs', vs.log)
    BY <1>2, <1>10 DEF MemoryInv
  <2>2. ASSUME NEW n \in From(logs', vs.log) \ {logfile'}
        PROVE  Range(logs'[n].recs) \subseteq Held(tables, Mine) \cup imm
    <3>1. n \in From(logs, vs.log) /\ logs'[n] = logs[n] /\ n # logfile
      BY <1>4 DEF From
    <3> QED
      BY <1>1, <1>2, <3>1 DEF MemoryInv
  <2>3. \A n \in DOMAIN logs' : n < vs'.next
    <3>1. vs'.next \in Nat
      BY <1>4 DEF Versions
    <3> QED
      BY <3>1, <1>3, <1>4
  <2>4. logfile' \in From(logs', vs.log)
    BY <1>4 DEF From
  <2> QED
    BY <1>1, <1>4, <1>9, <2>1, <2>2, <2>3, <2>4 DEF MemoryInv
<1>13. OpeningInv'
  <2>1. /\ Matches(Len(Recs), vs.files, vs.log)'
        /\ vs.desc => ReuseLogs /\ vs.manifest = current
        /\ ~vs.desc => vs.manifest # current /\ edit.save
        /\ ~edit.save => edit.add = {}
    BY <1>1, <1>2, <1>4, <1>9 DEF OpeningInv, Matches
  <2>2. ~edit.save => vs.manifest = current /\ Settled'
    BY <1>1, <2>1, <1>2 DEF Covered, Settled, Versions
  <2> QED
    BY <1>1, <1>4, <1>9, <2>1, <2>2 DEF OpeningInv
<1>14. RunInv'
  BY <1>1, <1>11, <1>12, <1>13 DEF RunInv, RecordInv, FlushInv, CompactInv, PinnedInv, Running
<1> QED
  BY <1>5, <1>4, <1>7, <1>8, <1>14 DEF IInv

\* The version that a flush, or the end of a recovery, makes: what the older logs
\* held is in tables.
LEMMA NewerVersion ==
  ASSUME FilesInv, VersionInv, MemoryInv, vs \in Versions, toReplay = {}, logfile # 0,
         NEW G, G \subseteq DOMAIN tables, Held(tables, G) = Held(tables, Mine) \cup imm
  PROVE  GoodNow(G, logfile, vs.last)
<1>1. Good(tables, logs, synced, Ids, vs.files, vs.log, vs.last)
  BY DEF VersionInv, GoodNow
<1>2. /\ logfile \in From(logs, vs.log) /\ logfile >= vs.log /\ logfile \in DOMAIN logs
      /\ vs.log \in Nat /\ logfile \in Nat /\ \A n \in DOMAIN logs : n \in Nat
  BY DEF MemoryInv, From, FilesInv, Versions
<1>3. From(logs, logfile) \subseteq From(logs, vs.log) /\ logfile \in From(logs, logfile)
  BY <1>2 DEF From
<1>4. LogOf(logs, logfile) \subseteq LogOf(logs, vs.log)
  BY <1>3 DEF LogOf
<1>5. Held(tables, vs.files) \subseteq Held(tables, Mine)
      /\ Held(tables, Mine) = Held(tables, vs.files) \cup Held(tables, Adds)
  BY DEF Held, Mine
<1>6. mem \cup imm \cup Held(tables, Adds) \subseteq LogOf(logs, vs.log)
  BY DEF MemoryInv
<1>7. Held(tables, G) \cup LogOf(logs, logfile) \subseteq Held(tables, vs.files) \cup LogOf(logs, vs.log)
  BY <1>4, <1>5, <1>6
<1>8. \A n \in From(logs, vs.log) : n # logfile => Range(logs[n].recs) \subseteq Held(tables, G)
  BY DEF MemoryInv
<1>9. Range(logs[logfile].recs) \subseteq LogOf(logs, logfile) /\ Sure(logs[logfile]) \subseteq SureOf(logs, logfile)
  BY <1>3 DEF LogOf, SureOf
<1>10. LogOf(logs, vs.log) \subseteq Held(tables, G) \cup LogOf(logs, logfile)
  BY <1>8, <1>9 DEF LogOf
<1>11. \A n \in DOMAIN logs : Sure(logs[n]) \subseteq Range(logs[n].recs)
  BY DEF FilesInv, Sure, Range
<1>12. \A n \in From(logs, vs.log) : n \in DOMAIN logs
  BY DEF From
<1>13. SureOf(logs, vs.log) \subseteq Held(tables, G) \cup SureOf(logs, logfile)
  BY <1>8, <1>9, <1>11, <1>12 DEF SureOf
<1>14. \A u \in Held(tables, G) : u.seq <= vs.last
  BY DEF MemoryInv
<1>15. Held(tables, vs.files) \cup LogOf(logs, vs.log) \subseteq Held(tables, G) \cup LogOf(logs, logfile)
  BY <1>5, <1>10
<1>16. Held(tables, vs.files) \cup SureOf(logs, vs.log) \subseteq Held(tables, G) \cup SureOf(logs, logfile)
  BY <1>5, <1>13
<1>17. Good(tables, logs, synced, Ids, G, logfile, vs.last)
  BY <1>1, <1>7, <1>14, <1>15, <1>16, GoodShift
<1> QED
  BY <1>17 DEF GoodNow

\* A record that is appended to the descriptor.
LEMMA NumberedAppended ==
  ASSUME NEW cur \in Nat, NEW recs \in Seq(Edits), Len(recs) > 0, Numbered(cur, recs), count \in Nat,
         NEW e \in Edits, recs[Len(recs)].next <= e.next,
         \A n \in e.add : n < e.next, e.log < e.next, e.next <= MaxNumber, e.last <= count
  PROVE  Numbered(cur, Append(recs, e))
<1> DEFINE r == Append(recs, e)
           len == Len(recs)
<1>1. len \in Nat /\ Len(r) = len + 1 /\ r[len + 1] = e /\ len > 0
      /\ \A i \in 1 .. len : r[i] = recs[i] /\ recs[i] \in Edits
  OBVIOUS
<1> HIDE DEF r
<1>2. len \in 1 .. len
  BY <1>1
<1>3. recs[len].next \in Nat /\ e.next \in Nat /\ cur < recs[len].next
  BY <1>1, <1>2 DEF Edits, Numbered
<1>4. ASSUME NEW i \in 1 .. len, NEW n \in recs[i].add PROVE n < e.next
  <2>1. n < recs[len].next
    BY <1>2 DEF Numbered
  <2>2. n \in Nat
    BY <1>1 DEF Edits
  <2> QED
    BY <2>1, <2>2, <1>3
<1> SUFFICES ASSUME NEW k \in 1 .. len + 1
             PROVE  /\ \A i \in 1 .. k : \A n \in r[i].add : n < r[k].next
                    /\ r[k].log < r[k].next /\ cur < r[k].next /\ r[k].next <= MaxNumber
                    /\ r[k].last <= count
  BY <1>1 DEF Numbered, r
<1>5. CASE k = len + 1
  <2>1. \A i \in 1 .. k : \A n \in r[i].add : n < e.next
    BY <1>1, <1>4, <1>5
  <2> QED
    BY <2>1, <1>1, <1>3, <1>5
<1>6. CASE k \in 1 .. len
  <2>1. \A i \in 1 .. k : i \in 1 .. len
    BY <1>1, <1>6
  <2> QED
    BY <1>1, <1>6, <2>1 DEF Numbered
<1> QED
  BY <1>1, <1>5, <1>6

LEMMA RecordAppended ==
  ASSUME FilesInv, DiskInv, TypeInv, current # 0, NEW e \in Edits,
         tables' = tables, logs' = logs, current' = current, UNCHANGED ghosts,
         DOMAIN manifests' = DOMAIN manifests, \A n \in DOMAIN manifests \ {current} : manifests'[n] = manifests[n],
         manifests'[current].recs = Append(Recs, e),
         manifests'[current].synced \in {Len(Recs) + 1, manifests[current].synced},
         Recs[Len(Recs)].next <= e.next, \A n \in e.add : n < e.next, e.log < e.next,
         e.next <= MaxNumber, e.last <= count,
         GoodNow((FilesAt(Recs, Len(Recs)) \ e.del) \cup e.add, e.log, e.last)
  PROVE  /\ FilesInv' /\ DiskInv'
         /\ Recs' = Append(Recs, e) /\ Len(Recs') = Len(Recs) + 1 /\ Recs'[Len(Recs) + 1] = e
         /\ \A k \in 1 .. Len(Recs) : Recs'[k] = Recs[k] /\ FilesAt(Recs', k) = FilesAt(Recs, k)
         /\ FilesAt(Recs', Len(Recs) + 1) = (FilesAt(Recs, Len(Recs)) \ e.del) \cup e.add
<1>1. /\ Recs \in Seq(Edits) /\ Len(Recs) \in Nat /\ Len(Recs) > 0 /\ current \in DOMAIN manifests
      /\ current \in Nat /\ manifests[current].synced \in 0 .. Len(Recs)
      /\ \A k \in Readable(manifests[current]) : GoodNow(FilesAt(Recs, k), Recs[k].log, Recs[k].last)
  BY DescriptorFacts
<1>2. synced' = synced /\ count' = count /\ crashes' = crashes /\ Ids' = Ids
  BY DEF ghosts, Ids
<1> DEFINE r == Append(Recs, e)
<1>3. /\ r \in Seq(Edits) /\ Len(r) = Len(Recs) + 1 /\ r[Len(Recs) + 1] = e
      /\ \A i \in 1 .. Len(Recs) : r[i] = Recs[i]
  BY <1>1
<1>4. /\ FilesAt(r, Len(Recs) + 1) = (FilesAt(Recs, Len(Recs)) \ e.del) \cup e.add
      /\ \A k \in 1 .. Len(Recs) : FilesAt(r, k) = FilesAt(Recs, k)
  BY <1>1, FilesAtAppend
<1>5. Numbered(current, Recs) /\ (current # 1 => manifests[current].synced > 0) /\ manifests[current].recs = Recs
  BY DEF DiskInv, Descriptor, Recs
<1>6. Numbered(current, r)
  BY <1>1, <1>5, NumberedAppended DEF TypeInv
<1> HIDE DEF r
<1>7. Recs' = r /\ manifests'[current].recs = r
  BY DEF Recs, r
<1>8. FilesInv'
  <2>1. manifests'[current].synced \in 0 .. Len(r)
    BY <1>1, <1>3
  <2>2. \A n \in DOMAIN manifests : /\ n \in 0 .. MaxNumber /\ manifests'[n].recs \in Seq(Edits)
                                    /\ manifests'[n].synced \in 0 .. Len(manifests'[n].recs)
    BY <1>3, <1>7, <2>1 DEF FilesInv
  <2> QED
    BY <1>2, <2>2 DEF FilesInv, Ups
<1>9. ASSUME NEW k \in 1 .. Len(r),
             IF MaxCrashes = 0 THEN k = Len(r) ELSE k >= manifests'[current].synced
      PROVE  Good(tables, logs, synced, Ids, FilesAt(r, k), r[k].log, r[k].last)
  <2>1. CASE k = Len(Recs) + 1
    BY <1>3, <1>4, <2>1 DEF GoodNow
  <2>2. CASE k \in 1 .. Len(Recs)
    <3>1. MaxCrashes # 0 /\ k >= manifests[current].synced
      BY <1>1, <1>3, <1>9, <2>2
    <3>2. k \in Readable(manifests[current])
      BY <1>5, <2>2, <3>1 DEF Readable
    <3> QED
      BY <1>1, <1>3, <1>4, <2>2, <3>2 DEF GoodNow
  <2> QED
    BY <1>1, <1>3, <2>1, <2>2
<1>10. Numbered(current, Recs)'
  BY <1>2, <1>6, <1>7 DEF Numbered
<1>11. Descriptor(manifests[current])'
  <2>1. Len(r) > 0 /\ (current # 1 => manifests'[current].synced > 0)
    BY <1>1, <1>3, <1>5
  <2>2. \A k \in Readable(manifests[current])' : Good(tables, logs, synced, Ids, FilesAt(r, k), r[k].log, r[k].last)
    BY <1>7, <1>9 DEF Readable
  <2> QED
    BY <1>2, <1>7, <1>10, <2>1, <2>2 DEF Descriptor, GoodNow, Recs
<1>12. DiskInv'
  BY <1>1, <1>11 DEF DiskInv
<1> QED
  BY <1>3, <1>4, <1>7, <1>8, <1>12 DEF r

\* LogAndApply in Open, to the descriptor that was read or to a new one.
LEMMA SaveManifestKeeps == ASSUME IInv, Covered, SaveManifest PROVE IInv'
<1> DEFINE e == EditOf(vs.files \cup edit.add, {}, logfile)
           f == EditOf(edit.add, {}, logfile)
<1>1. /\ pc = "save" /\ tables' = tables /\ logs' = logs /\ current' = current /\ vs' = vs
      /\ toReplay' = toReplay /\ edit' = edit /\ mem' = mem /\ imm' = imm /\ logfile' = logfile
      /\ pending' = pending /\ bg' = bg /\ comp' = comp /\ pinned' = pinned /\ bgError' = bgError
      /\ synced' = synced /\ count' = count /\ crashes' = crashes /\ UNCHANGED ghosts
  BY DEF SaveManifest, opening, memory, background, ghosts
<1>2. /\ current # 0 /\ TypeInv /\ FilesInv /\ DiskInv /\ IdleInv
      /\ VersionInv /\ MemoryInv /\ OpeningInv /\ vs \in Versions
  BY <1>1, ActiveFacts DEF Active, IInv
<1>3. /\ vs.desc \in BOOLEAN /\ vs.files \in SUBSET Nat /\ edit.add \in SUBSET Nat /\ imm = {}
      /\ vs.next \in Nat /\ vs.last \in Nat /\ vs.manifest \in Nat /\ logfile # 0
  BY <1>1, <1>2 DEF Versions, TypeInv, IdleInv, MemoryInv
<1>4. /\ logfile \in Nat /\ toReplay = {} /\ logfile < vs.next /\ vs.next <= MaxNumber /\ vs.last <= count
      /\ Mine = vs.files \cup edit.add /\ Mine \subseteq DOMAIN tables /\ \A n \in Mine : n < vs.next
      /\ vs.files = FilesAt(Recs, Len(Recs)) /\ Recs[Len(Recs)].next <= vs.next
  BY <1>1, <1>2, <1>3 DEF MemoryInv, VersionInv, Mine, Adds, Opening, FilesInv, OpeningInv, Matches, From
<1>5. /\ e \in Edits /\ e.add = vs.files \cup edit.add /\ e.del = {} /\ e.log = logfile
      /\ e.next = vs.next /\ e.last = vs.last
      /\ f \in Edits /\ f.add = edit.add /\ f.del = {} /\ f.log = logfile
      /\ f.next = vs.next /\ f.last = vs.last
  BY <1>3, <1>4 DEF EditOf, Edits
<1> HIDE DEF e, f
<1>6. GoodNow(Mine, logfile, vs.last)
  BY <1>2, <1>3, <1>4, NewerVersion
<1>7. TypeInv' /\ pc' \in {"install", "setcurrent"}
  <2>1. pc' = "install" \/ pc' = "setcurrent"
    BY DEF SaveManifest
  <2> QED
    BY <1>1, <1>2, <2>1 DEF TypeInv, Ups, Pcs
<1>8. IdleInv'
  BY <1>1, <1>2, <1>7 DEF IdleInv
<1>9. Adds' = Adds /\ Mine' = Mine /\ Ids' = Ids
  BY <1>1, <1>7 DEF Adds, Opening, Mine, Ids
<1>10. MemoryInv'
  BY <1>1, <1>2, <1>3, <1>7, <1>9 DEF MemoryInv
<1>11. ASSUME Recs'[Len(Recs')].next <= vs.next, Recs'[Len(Recs')].last <= vs.last PROVE VersionInv'
  BY <1>1, <1>2, <1>4, <1>7, <1>9, <1>11 DEF VersionInv, GoodNow
<1>12. CASE vs.desc
  <2>1. MaxCrashes = 0 /\ vs.manifest = current
    BY <1>1, <1>2, <1>12 DEF OpeningInv, Covered
  <2>2. /\ manifests' = [manifests EXCEPT ![current] = Append1(manifests[current], f)] /\ pc' = "install"
    BY <1>12, <2>1 DEF SaveManifest, f
  <2>3. /\ current \in DOMAIN manifests
        /\ manifests'[current].recs = Append(Recs, f) /\ manifests'[current].synced = Len(Recs) + 1
        /\ DOMAIN manifests' = DOMAIN manifests
        /\ \A n \in DOMAIN manifests \ {current} : manifests'[n] = manifests[n]
    BY <1>2, <2>2 DEF DiskInv, Append1, File, Recs
  <2>4. (FilesAt(Recs, Len(Recs)) \ f.del) \cup f.add = Mine
    BY <1>4, <1>5
  <2>5. /\ FilesInv' /\ DiskInv'
        /\ Recs' = Append(Recs, f) /\ Len(Recs') = Len(Recs) + 1 /\ Recs'[Len(Recs) + 1] = f
        /\ FilesAt(Recs', Len(Recs) + 1) = Mine
    BY <1>1, <1>2, <1>4, <1>5, <1>6, <2>3, <2>4, RecordAppended DEF Mine
  <2>6. VersionInv'
    BY <1>3, <1>5, <1>11, <2>5
  <2>7. OpeningInv'
    BY <1>1, <1>5, <1>9, <2>1, <2>2, <2>5 DEF OpeningInv, Settled, Matches
  <2>8. RunInv'
    BY <1>10, <2>2, <2>6, <2>7 DEF RunInv, RecordInv, FlushInv, CompactInv, PinnedInv, Running
  <2> QED
    BY <1>7, <1>8, <2>5, <2>8 DEF IInv
<1>13. CASE ~vs.desc
  <2>1. vs.manifest # current /\ vs.manifest < vs.next
    BY <1>1, <1>2, <1>13 DEF OpeningInv, VersionInv
  <2>2. /\ manifests' = [m \in DOMAIN manifests \cup {vs.manifest} |->
                            IF m = vs.manifest THEN File(<<e>>, 1) ELSE manifests[m]]
        /\ pc' = "setcurrent"
    BY <1>13 DEF SaveManifest, Put, e
  <2>3. current \in DOMAIN manifests /\ current \in DOMAIN manifests' /\ manifests'[current] = manifests[current]
        /\ Recs' = Recs
    BY <1>1, <1>2, <2>1, <2>2 DEF DiskInv, Recs
  <2>4. FilesInv'
    <3>1. <<e>> \in Seq(Edits) /\ Len(<<e>>) = 1
      BY <1>5
    <3>2. File(<<e>>, 1).recs = <<e>> /\ File(<<e>>, 1).synced = 1
      BY DEF File
    <3>3. vs.manifest \in 0 .. MaxNumber
      BY <1>3, <1>4, <2>1
    <3>4. \A n \in DOMAIN manifests' : n = vs.manifest \/ (n \in DOMAIN manifests /\ manifests'[n] = manifests[n])
      BY <2>2
    <3>5. manifests'[vs.manifest] = File(<<e>>, 1)
      BY <2>2
    <3>51. manifests'[vs.manifest].recs \in Seq(Edits) /\ manifests'[vs.manifest].synced \in 0 .. Len(manifests'[vs.manifest].recs)
      <4>1. manifests'[vs.manifest].recs = <<e>> /\ manifests'[vs.manifest].synced = 1
        BY <3>2, <3>5
      <4> QED
        BY <3>1, <4>1
    <3>6. \A n \in DOMAIN manifests' : /\ n \in 0 .. MaxNumber /\ manifests'[n].recs \in Seq(Edits)
                                       /\ manifests'[n].synced \in 0 .. Len(manifests'[n].recs)
      BY <1>2, <3>3, <3>4, <3>51 DEF FilesInv
    <3> QED
      BY <1>1, <1>2, <3>6 DEF FilesInv, Ups
  <2>5. DiskInv'
    <3>1. \A k \in Readable(manifests[current]) : FilesAt(Recs, k) \subseteq DOMAIN tables
      BY <1>2, DescriptorFacts DEF GoodNow, Good
    <3> QED
      BY <1>1, <1>2, <2>3, <3>1, DiskGrows
  <2>6. VersionInv'
    BY <1>2, <1>11, <2>3 DEF VersionInv
  <2>7. OpeningInv'
    <3>1. (EditOf(vs.files \cup edit.add, {}, logfile))' = e
      BY <1>1 DEF EditOf, e
    <3>2. manifests'[vs.manifest] = File(<<e>>, 1) /\ vs.manifest \in DOMAIN manifests'
      BY <2>2
    <3>3. /\ Matches(Len(Recs), vs.files, vs.log)' /\ edit.save
      BY <1>1, <1>2, <1>13, <2>3 DEF OpeningInv, Matches
    <3> QED
      BY <1>1, <1>13, <2>1, <2>2, <3>1, <3>2, <3>3 DEF OpeningInv
  <2>8. RunInv'
    BY <1>10, <2>2, <2>6, <2>7 DEF RunInv, RecordInv, FlushInv, CompactInv, PinnedInv, Running
  <2> QED
    BY <1>7, <1>8, <2>4, <2>5, <2>8 DEF IInv
<1> QED
  BY <1>3, <1>12, <1>13

\* CURRENT names the new descriptor, whose one record lists all the tables.
LEMMA PointCurrentKeeps == ASSUME IInv, PointCurrent PROVE IInv'
<1> DEFINE e == EditOf(vs.files \cup edit.add, {}, logfile)
           recs == <<e>>
<1>1. /\ pc = "setcurrent" /\ pc' = "install" /\ current' = vs.manifest
      /\ tables' = tables /\ logs' = logs /\ manifests' = manifests /\ vs' = vs
      /\ toReplay' = toReplay /\ edit' = edit /\ mem' = mem /\ imm' = imm /\ logfile' = logfile
      /\ pending' = pending /\ bg' = bg /\ comp' = comp /\ pinned' = pinned /\ bgError' = bgError
      /\ synced' = synced /\ count' = count /\ crashes' = crashes
  BY DEF PointCurrent, opening, memory, background, ghosts
<1>2. /\ current # 0 /\ TypeInv /\ FilesInv /\ DiskInv /\ IdleInv
      /\ VersionInv /\ MemoryInv /\ OpeningInv /\ vs \in Versions
  BY <1>1, ActiveFacts DEF Active, IInv
<1>3. /\ vs.files \in SUBSET Nat /\ edit.add \in SUBSET Nat /\ imm = {}
      /\ vs.next \in Nat /\ vs.last \in Nat /\ vs.manifest \in Nat /\ logfile # 0
  BY <1>1, <1>2 DEF Versions, TypeInv, IdleInv, MemoryInv
<1>4. /\ logfile \in Nat /\ toReplay = {} /\ logfile < vs.next /\ vs.next <= MaxNumber /\ vs.last <= count
      /\ Mine = vs.files \cup edit.add /\ Mine \subseteq DOMAIN tables /\ \A n \in Mine : n < vs.next
      /\ 0 < vs.manifest /\ vs.manifest < vs.next /\ vs.manifest \in DOMAIN manifests
      /\ manifests[vs.manifest] = File(recs, 1)
  BY <1>1, <1>2, <1>3 DEF MemoryInv, VersionInv, Mine, Adds, Opening, FilesInv, OpeningInv, Matches, From
<1>5. e.add = Mine /\ e.log = logfile /\ e.next = vs.next /\ e.last = vs.last
  BY <1>4 DEF EditOf
<1>6. Len(recs) = 1 /\ recs[1] = e /\ FilesAt(recs, 1) = Mine
  BY <1>5, FilesAtFirst
<1> HIDE DEF e, recs
<1>7. GoodNow(Mine, logfile, vs.last)
  BY <1>2, <1>3, <1>4, NewerVersion
<1>8. manifests[vs.manifest].recs = recs /\ manifests[vs.manifest].synced = 1
  BY <1>4 DEF File
<1>9. TypeInv'
  BY <1>1, <1>2 DEF TypeInv, Ups, Pcs
<1>10. FilesInv'
  BY <1>1, <1>2 DEF FilesInv, Ups
<1>11. IdleInv'
  BY <1>1, <1>2, <1>3, <1>4 DEF IdleInv
<1>12. Adds' = Adds /\ Mine' = Mine /\ Ids' = Ids /\ Recs' = recs
  BY <1>1, <1>8 DEF Adds, Opening, Mine, Ids, Recs
<1>13. \A k \in 1 .. Len(recs) : k = 1
  BY <1>6
<1>14. DiskInv'
  <2>1. Numbered(vs.manifest, recs)
    <3> SUFFICES ASSUME NEW k \in 1 .. Len(recs)
                 PROVE  /\ \A i \in 1 .. k : \A n \in recs[i].add : n < recs[k].next
                        /\ recs[k].log < recs[k].next /\ vs.manifest < recs[k].next /\ recs[k].next <= MaxNumber
                        /\ recs[k].last <= count
      BY DEF Numbered
    <3>1. k = 1
      BY <1>13
    <3>2. \A i \in 1 .. 1 : i = 1
      OBVIOUS
    <3> QED
      BY <1>4, <1>5, <1>6, <3>1, <3>2
  <2>2. Numbered(current, manifests[current].recs)'
    BY <2>1, <1>1, <1>8 DEF Numbered
  <2>3. \A k \in Readable(manifests[vs.manifest]) : k = 1
    BY <1>8, <1>13 DEF Readable
  <2>4. Good(tables, logs, synced, Ids, FilesAt(recs, 1), recs[1].log, recs[1].last)
    BY <1>5, <1>6, <1>7 DEF GoodNow
  <2>5. Descriptor(manifests[current])'
    <3>1. /\ manifests'[current'].recs = recs /\ manifests'[current'].synced = 1 /\ Len(recs) > 0
          /\ manifests'[current'] = manifests[vs.manifest]
      BY <1>1, <1>6, <1>8
    <3>2. \A k \in Readable(manifests'[current']) : k = 1
      BY <2>3, <3>1
    <3>3. Good(tables', logs', synced', Ids', FilesAt(recs, 1), recs[1].log, recs[1].last)
      BY <1>1, <1>12, <2>4
    <3> QED
      BY <2>2, <3>1, <3>2, <3>3 DEF Descriptor, GoodNow
  <2> QED
    BY <1>1, <1>3, <1>4, <2>5 DEF DiskInv
<1>15. VersionInv'
  <2>1. Recs'[Len(Recs')].next = vs.next /\ Recs'[Len(Recs')].last = vs.last
    BY <1>5, <1>6, <1>12
  <2>2. vs.next <= vs.next /\ vs.last <= vs.last
    BY <1>3
  <2>3. GoodNow(vs.files, vs.log, vs.last)'
    BY <1>1, <1>2, <1>12 DEF VersionInv, GoodNow
  <2> QED
    BY <1>1, <1>2, <1>4, <1>12, <2>1, <2>2, <2>3 DEF VersionInv
<1>16. MemoryInv'
  BY <1>1, <1>2, <1>3, <1>12 DEF MemoryInv
<1>17. OpeningInv'
  BY <1>1, <1>5, <1>6, <1>8, <1>12 DEF OpeningInv, Settled, Matches
<1>18. RunInv'
  BY <1>1, <1>15, <1>16, <1>17 DEF RunInv, RecordInv, FlushInv, CompactInv, PinnedInv, Running
<1> QED
  BY <1>9, <1>10, <1>11, <1>14, <1>18 DEF IInv

LEMMA InstallKeeps == ASSUME IInv, Install PROVE IInv'
<1>1. /\ pc = "install" /\ pc' = "collect" /\ UNCHANGED <<disk, ghosts>>
      /\ vs' = [vs EXCEPT !.files = vs.files \cup edit.add, !.log = logfile, !.desc = TRUE]
      /\ current' = current
      /\ tables' = tables /\ logs' = logs /\ manifests' = manifests
      /\ toReplay' = toReplay /\ edit' = edit /\ mem' = mem /\ imm' = imm /\ logfile' = logfile
      /\ pending' = pending /\ bg' = bg /\ comp' = comp /\ pinned' = pinned /\ bgError' = bgError
      /\ synced' = synced /\ count' = count /\ crashes' = crashes
  BY DEF Install, disk, opening, memory, background, ghosts
<1>2. /\ current # 0 /\ TypeInv /\ FilesInv /\ DiskInv /\ IdleInv
      /\ VersionInv /\ MemoryInv /\ OpeningInv /\ vs \in Versions
  BY <1>1, ActiveFacts DEF Active, IInv
<1>3. imm = {} /\ logfile # 0 /\ edit.add \in SUBSET Nat /\ vs.files \in SUBSET Nat /\ vs.log \in Nat
  BY <1>1, <1>2 DEF TypeInv, IdleInv, MemoryInv, Versions
<1>4. /\ logfile \in Nat /\ toReplay = {} /\ logfile < vs.next
      /\ Mine = vs.files \cup edit.add /\ Mine \subseteq DOMAIN tables
      /\ vs.manifest = current /\ Settled /\ Matches(Len(Recs), Mine, logfile)
      /\ logfile \in DOMAIN logs /\ logfile >= vs.log /\ mem = Range(logs[logfile].recs)
      /\ \A n \in DOMAIN logs : n <= logfile /\ n \in Nat
  BY <1>1, <1>2, <1>3 DEF MemoryInv, VersionInv, Mine, Adds, Opening, FilesInv, OpeningInv, From
<1>5. GoodNow(Mine, logfile, vs.last)
  BY <1>2, <1>3, <1>4, NewerVersion
<1>6. /\ vs' \in Versions /\ vs'.files = Mine /\ vs'.log = logfile /\ vs'.next = vs.next
      /\ vs'.last = vs.last /\ vs'.manifest = vs.manifest
  <2>1. vs.files \cup edit.add \in SUBSET Nat
    BY <1>3
  <2> QED
    BY <1>1, <1>2, <1>4, <2>1 DEF Versions
<1>7. TypeInv'
  BY <1>1, <1>2, <1>6 DEF TypeInv, Ups, Pcs
<1>8. FilesInv' /\ DiskInv'
  BY <1>1, <1>2, DiskSame
<1>9. IdleInv'
  BY <1>1, <1>2 DEF IdleInv
<1>10. Adds' = {} /\ Mine' = Mine /\ Ids' = Ids /\ Recs' = Recs
  BY <1>1, <1>6 DEF Adds, Opening, Mine, Ids, Recs
<1>11. VersionInv'
  BY <1>1, <1>2, <1>4, <1>5, <1>6, <1>10 DEF VersionInv, GoodNow
<1>12. MemoryInv'
  <2>1. From(logs, logfile) = {logfile}
    <3>1. ASSUME NEW n \in From(logs, logfile) PROVE n = logfile
      <4>1. n \in Nat /\ n <= logfile /\ n >= logfile
        BY <1>4 DEF From
      <4> QED
        BY <4>1, <1>4
    <3> QED
      BY <3>1, <1>4 DEF From
  <2>2. mem \subseteq LogOf(logs, logfile)
    BY <1>4, <2>1 DEF LogOf
  <2>3. Held(tables, {}) = {}
    BY DEF Held
  <2>4. \A u \in Held(tables, Mine) \cup mem \cup imm : u.seq <= vs.last
    BY <1>2 DEF MemoryInv
  <2>5. \A n \in DOMAIN logs : n < vs.next
    BY <1>2, <1>4 DEF MemoryInv
  <2>6. \A n \in From(logs, logfile) \ (toReplay \cup {logfile}) :
            Range(logs[n].recs) \subseteq Held(tables, Mine) \cup imm
    BY <2>1
  <2> QED
    BY <1>1, <1>3, <1>4, <1>6, <1>10, <2>1, <2>2, <2>3, <2>4, <2>5, <2>6 DEF MemoryInv
<1>13. OpeningInv'
  BY <1>1, <1>4, <1>6, <1>10 DEF OpeningInv, Settled, Matches
<1>14. RunInv'
  BY <1>1, <1>11, <1>12, <1>13 DEF RunInv, RecordInv, FlushInv, CompactInv, PinnedInv, Running
<1> QED
  BY <1>7, <1>8, <1>9, <1>14 DEF IInv

\* Obsolete files are deleted when only the record of the version can be read.
Deletion(F, P, l, mans) ==
    /\ current' = current /\ UNCHANGED ghosts /\ vs.manifest = current
    /\ DeleteObsoleteFiles(F, P, l, mans, FALSE)
    /\ DOMAIN mans = DOMAIN manifests /\ \A n \in DOMAIN manifests \ {current} : mans[n] = manifests[n]
    /\ mans[current].recs = Recs
    /\ mans[current].synced = manifests[current].synced \/ mans[current].synced = Len(Recs)
    /\ MaxCrashes = 0 \/ mans[current].synced = Len(Recs)
    /\ FilesAt(Recs, Len(Recs)) = F /\ Recs[Len(Recs)].log = l

LEMMA ObsoleteDeleted ==
  ASSUME FilesInv, DiskInv, current # 0, NEW F, NEW P, NEW l \in Nat, NEW mans, Deletion(F, P, l, mans)
  PROVE  /\ FilesInv' /\ DiskInv' /\ Recs' = Recs /\ Settled'
         /\ DOMAIN tables' = DOMAIN tables \cap LiveFiles(F, P) /\ \A n \in DOMAIN tables' : tables'[n] = tables[n]
         /\ DOMAIN logs' = From(logs, l) /\ \A n \in DOMAIN logs' : logs'[n] = logs[n]
<1> USE DEF Deletion
<1>1. /\ Recs \in Seq(Edits) /\ Len(Recs) \in Nat /\ Len(Recs) > 0 /\ current \in DOMAIN manifests
      /\ current \in Nat /\ manifests[current].synced \in 0 .. Len(Recs)
      /\ Len(Recs) \in Readable(manifests[current])
      /\ \A k \in Readable(manifests[current]) : GoodNow(FilesAt(Recs, k), Recs[k].log, Recs[k].last)
  BY DescriptorFacts
<1>2. synced' = synced /\ count' = count /\ crashes' = crashes /\ Ids' = Ids
  BY DEF ghosts, Ids
<1>3. /\ tables' = [n \in DOMAIN tables \cap LiveFiles(F, P) |-> tables[n]]
      /\ logs' = [n \in {m \in DOMAIN logs : m >= l} |-> logs[n]]
      /\ manifests' = [n \in {m \in DOMAIN mans : m >= vs.manifest} |-> mans[n]]
  BY DEF DeleteObsoleteFiles, Restrict
<1>4. /\ DOMAIN tables' = DOMAIN tables \cap LiveFiles(F, P) /\ \A n \in DOMAIN tables' : tables'[n] = tables[n]
      /\ DOMAIN logs' = From(logs, l) /\ \A n \in DOMAIN logs' : logs'[n] = logs[n]
      /\ \A n \in DOMAIN logs' : n \in DOMAIN logs
  BY <1>3 DEF From
<1>5. current \in DOMAIN manifests' /\ manifests'[current] = mans[current]
      /\ \A n \in DOMAIN manifests' : n \in DOMAIN manifests /\ manifests'[n] = mans[n]
  BY <1>1, <1>3
<1>6. Recs' = Recs /\ Settled'
  BY <1>5 DEF Recs, Settled
<1>7. FilesInv'
  <2>1. mans[current].synced \in 0 .. Len(Recs)
    BY <1>1
  <2>2. \A n \in DOMAIN manifests : /\ n \in 0 .. MaxNumber /\ mans[n].recs \in Seq(Edits)
                                    /\ mans[n].synced \in 0 .. Len(mans[n].recs)
    BY <1>1, <2>1 DEF FilesInv
  <2>3. \A n \in DOMAIN tables' : n \in DOMAIN tables
    BY <1>4
  <2> QED
    BY <1>2, <1>4, <1>5, <2>2, <2>3 DEF FilesInv, Ups
<1>8. Good(tables', logs', synced, Ids, F, l, Recs[Len(Recs)].last)
  <2>1. Good(tables, logs, synced, Ids, F, l, Recs[Len(Recs)].last)
    BY <1>1 DEF GoodNow
  <2>2. \A n \in F : n \in DOMAIN tables' /\ tables'[n] = tables[n]
    BY <1>4, <2>1 DEF Good, LiveFiles
  <2>3. \A n \in From(logs, l) : n \in DOMAIN logs' /\ logs'[n] = logs[n]
    BY <1>4
  <2>4. \A n \in From(logs', l) : n \in DOMAIN logs
    BY <1>4 DEF From
  <2> QED
    BY <2>1, <2>2, <2>3, <2>4, GoodStays
<1>9. DiskInv'
  <2>1. /\ Numbered(current, Recs) /\ (current # 1 => manifests[current].synced > 0)
    BY DEF DiskInv, Descriptor, Recs
  <2>2. Numbered(current, Recs)'
    BY <1>2, <1>6, <2>1 DEF Numbered
  <2>3. \A k \in Readable(manifests[current])' : k = Len(Recs)
    <3>1. manifests'[current].recs = Recs
      BY <1>5
    <3> QED
      BY <1>1, <1>5, <3>1 DEF Readable
  <2>4. current # 1 => manifests'[current].synced > 0
    BY <1>1, <1>5, <2>1
  <2>5. Descriptor(manifests[current])'
    <3>1. manifests'[current].recs = Recs
      BY <1>5
    <3> QED
      BY <1>1, <1>2, <1>6, <1>8, <2>2, <2>3, <2>4, <3>1 DEF Descriptor, GoodNow, Recs
  <2> QED
    BY <1>1, <1>5, <2>5 DEF DiskInv
<1> QED
  BY <1>4, <1>6, <1>7, <1>9

LEMMA OpenedKeeps == ASSUME IInv, Opened PROVE IInv'
<1>1. /\ pc = "collect" /\ pc' = "open" /\ current' = current /\ vs' = vs
      /\ DeleteObsoleteFiles(vs.files, pending, vs.log, manifests, bgError)
      /\ toReplay' = toReplay /\ edit' = edit /\ mem' = mem /\ imm' = imm /\ logfile' = logfile
      /\ pending' = pending /\ bg' = bg /\ comp' = comp /\ pinned' = pinned /\ bgError' = bgError
      /\ synced' = synced /\ count' = count /\ crashes' = crashes /\ UNCHANGED ghosts
  BY DEF Opened, opening, memory, background, ghosts
<1>2. /\ current # 0 /\ TypeInv /\ FilesInv /\ DiskInv /\ IdleInv
      /\ VersionInv /\ MemoryInv /\ OpeningInv /\ vs \in Versions
  BY <1>1, ActiveFacts DEF Active, IInv
<1>3. /\ imm = {} /\ logfile # 0 /\ bg = NoEdit /\ comp = NoEdit /\ pinned = <<>> /\ pending = {}
      /\ bgError = FALSE /\ vs.log \in Nat
  BY <1>1, <1>2 DEF IdleInv, MemoryInv, Versions
<1>4. vs.manifest = current /\ Settled /\ Matches(Len(Recs), vs.files, vs.log)
  BY <1>1, <1>2 DEF OpeningInv
<1>5. /\ FilesInv' /\ DiskInv' /\ Recs' = Recs /\ Settled'
      /\ DOMAIN tables' = DOMAIN tables \cap LiveFiles(vs.files, pending)
      /\ \A n \in DOMAIN tables' : tables'[n] = tables[n]
      /\ DOMAIN logs' = From(logs, vs.log) /\ \A n \in DOMAIN logs' : logs'[n] = logs[n]
  <2>1. manifests[current].recs = Recs
    BY DEF Recs
  <2> QED
    <3>1. Deletion(vs.files, pending, vs.log, manifests)
      BY <1>1, <1>3, <1>4, <2>1 DEF Settled, Matches, Deletion
    <3> QED
      BY <1>2, <1>3, <3>1, ObsoleteDeleted
<1>6. TypeInv'
  BY <1>1, <1>2 DEF TypeInv, Ups, Pcs
<1>7. IdleInv'
  BY <1>1, <1>2 DEF IdleInv
<1>8. Adds' = {} /\ Adds = {} /\ Mine' = vs.files /\ Mine = vs.files /\ Ids' = Ids
  BY <1>1 DEF Adds, Opening, Mine, Ids
<1>9. /\ \A n \in vs.files : n \in DOMAIN tables' /\ tables'[n] = tables[n]
      /\ From(logs', vs.log) = From(logs, vs.log) /\ From(logs, vs.log) \subseteq DOMAIN logs
  <2>1. vs.files \subseteq DOMAIN tables
    BY <1>2, <1>8 DEF VersionInv
  <2> QED
    BY <1>5, <2>1 DEF LiveFiles, From
<1>10. /\ Good(tables', logs', synced, Ids, vs.files, vs.log, vs.last)
       /\ Held(tables', vs.files) = Held(tables, vs.files) /\ LogOf(logs', vs.log) = LogOf(logs, vs.log)
  <2>1. Good(tables, logs, synced, Ids, vs.files, vs.log, vs.last)
    BY <1>2 DEF VersionInv, GoodNow
  <2>2. /\ \A m \in From(logs, vs.log) : m \in DOMAIN logs' /\ logs'[m] = logs[m]
        /\ \A m \in From(logs', vs.log) : m \in DOMAIN logs
    BY <1>5, <1>9
  <2> QED
    BY <1>9, <2>1, <2>2, GoodStays
<1>11. VersionInv'
  <2>1. GoodNow(vs.files, vs.log, vs.last)'
    BY <1>1, <1>8, <1>10 DEF GoodNow
  <2> QED
    BY <1>1, <1>2, <1>5, <1>8, <1>9, <2>1 DEF VersionInv
<1>12. MemoryInv'
  <2>1. Held(tables', {}) = {} /\ Held(tables, {}) = {}
    BY DEF Held
  <2>2. \A n \in DOMAIN logs' : n \in DOMAIN logs /\ logs'[n] = logs[n]
    BY <1>5, <1>9
  <2>3. logfile \in From(logs, vs.log) /\ mem = Range(logs[logfile].recs) /\ toReplay = {}
        /\ \A n \in DOMAIN logs : n <= logfile /\ n < vs.next
    BY <1>2, <1>3 DEF MemoryInv
  <2>4. \A n \in From(logs', vs.log) \ (toReplay \cup {logfile}) :
            Range(logs'[n].recs) \subseteq Held(tables, vs.files) \cup imm
    BY <1>2, <1>5, <1>8, <1>9 DEF MemoryInv
  <2>5. /\ \A u \in Held(tables, vs.files) \cup mem \cup imm : u.seq <= vs.last
        /\ mem \cup imm \subseteq LogOf(logs, vs.log)
    BY <1>2, <1>8 DEF MemoryInv
  <2> QED
    BY <1>1, <1>3, <1>5, <1>8, <1>9, <1>10, <2>1, <2>2, <2>3, <2>4, <2>5 DEF MemoryInv
<1>13. OpeningInv'
  BY <1>1, <1>4 DEF OpeningInv
<1>14. RecordInv'
  BY <1>1, <1>3, <1>4, <1>5 DEF RecordInv, Matches
<1>15. FlushInv' /\ CompactInv'
  BY <1>1, <1>3 DEF FlushInv, CompactInv
<1>16. PinnedInv'
  <2>1. DOMAIN pinned' = {}
    BY <1>1, <1>3
  <2> QED
    BY <2>1 DEF PinnedInv
<1>17. RunInv'
  BY <1>11, <1>12, <1>13, <1>14, <1>15, <1>16 DEF RunInv
<1> QED
  BY <1>5, <1>6, <1>7, <1>17 DEF IInv

-----------------------------------------------------------------------------
(* The open database *)

LEMMA OpenFacts ==
  ASSUME IInv, pc = "open"
  PROVE  /\ current # 0 /\ TypeInv /\ FilesInv /\ DiskInv /\ IdleInv
         /\ VersionInv /\ MemoryInv /\ OpeningInv /\ RecordInv /\ FlushInv /\ CompactInv /\ PinnedInv
         /\ vs \in Versions /\ vs.next \in Nat /\ vs.last \in Nat /\ vs.log \in Nat /\ vs.files \in SUBSET Nat
         /\ vs.manifest = current /\ vs.next <= MaxNumber /\ vs.last <= count /\ count \in Nat
         /\ Adds = {} /\ Mine = vs.files /\ toReplay = {} /\ logfile # 0
         /\ logfile \in Nat /\ logfile \in DOMAIN logs /\ logfile \in From(logs, vs.log) /\ logfile >= vs.log
         /\ logfile < vs.next /\ mem = Range(logs[logfile].recs)
         /\ \A n \in DOMAIN logs : n <= logfile /\ n < vs.next /\ n \in Nat
         /\ vs.files \subseteq DOMAIN tables /\ \A n \in DOMAIN tables : n \in Nat
         /\ current \in DOMAIN manifests
<1>1. /\ current # 0 /\ TypeInv /\ FilesInv /\ DiskInv /\ IdleInv
      /\ VersionInv /\ MemoryInv /\ OpeningInv /\ RecordInv /\ FlushInv /\ CompactInv /\ PinnedInv
      /\ vs \in Versions
  BY ActiveFacts DEF Active, IInv
<1>2. Adds = {} /\ Mine = vs.files
  BY DEF Adds, Opening, Mine
<1>3. /\ vs.next \in Nat /\ vs.last \in Nat /\ vs.log \in Nat /\ vs.files \in SUBSET Nat
      /\ vs.manifest = current /\ vs.next <= MaxNumber /\ vs.last <= count /\ count \in Nat
  BY <1>1 DEF Versions, OpeningInv, VersionInv, TypeInv
<1>4. logfile # 0 /\ \A n \in DOMAIN logs : n \in Nat
  BY <1>1 DEF MemoryInv, FilesInv
<1>5. /\ toReplay = {} /\ logfile \in From(logs, vs.log) /\ mem = Range(logs[logfile].recs)
      /\ \A n \in DOMAIN logs : n <= logfile
  BY <1>1, <1>4 DEF MemoryInv
<1>6. \A n \in DOMAIN logs : n < vs.next
  BY <1>1, <1>5 DEF MemoryInv
<1>7. vs.files \subseteq DOMAIN tables /\ \A n \in DOMAIN tables : n \in Nat
  BY <1>1, <1>2 DEF VersionInv, FilesInv
<1>8. current \in DOMAIN manifests
  BY <1>1 DEF DiskInv
<1>9. logfile \in DOMAIN logs /\ logfile >= vs.log /\ logfile \in Nat /\ logfile < vs.next
  BY <1>4, <1>5, <1>6 DEF From
<1> QED
  BY <1>1, <1>2, <1>3, <1>4, <1>5, <1>6, <1>7, <1>8, <1>9

\* What the descriptor may be found to describe while the database is running.
LEMMA RunningRecords ==
  ASSUME IInv, Running, NEW k \in Readable(manifests[current])
  PROVE  /\ k \in 1 .. Len(Recs)
         /\ Good(tables, logs, synced, Ids, FilesAt(Recs, k), Recs[k].log, Recs[k].last)
         /\ vs.log <= Recs[k].log /\ Recs[k].log <= logfile /\ Recs[k].last <= vs.last
         /\ Recs[k].log \in Nat /\ Recs[k].last \in Nat
         /\ bg = NoEdit \/ ~bg.logged => k = Len(Recs) /\ FilesAt(Recs, k) = vs.files /\ Recs[k].log = vs.log
         /\ FilesAt(Recs, k) \subseteq DOMAIN tables /\ \A n \in FilesAt(Recs, k) : n < vs.next
<1>1. pc = "open" /\ bgError = FALSE
  BY DEF Running, IInv, TypeInv
<1>2. /\ current # 0 /\ FilesInv /\ DiskInv /\ VersionInv /\ RecordInv /\ FlushInv /\ CompactInv /\ TypeInv
      /\ vs.log \in Nat /\ logfile \in Nat /\ logfile >= vs.log /\ vs.next \in Nat
  BY <1>1, OpenFacts
<1>3. /\ k \in 1 .. Len(Recs) /\ Len(Recs) \in Nat /\ Recs[k] \in Edits
      /\ GoodNow(FilesAt(Recs, k), Recs[k].log, Recs[k].last)
      /\ \A n \in FilesAt(Recs, k) : n \in Nat /\ n < Recs[Len(Recs)].next
      /\ Recs[Len(Recs)] \in Edits
  <2>1. k \in 1 .. Len(Recs) /\ Len(Recs) \in 1 .. Len(Recs) /\ Len(Recs) \in Nat
    BY <1>2, DescriptorFacts
  <2> QED
    BY <1>2, <2>1, DescriptorFacts
<1>4. Recs[k].log \in Nat /\ Recs[k].last \in Nat /\ Recs[Len(Recs)].next \in Nat
  BY <1>3 DEF Edits
<1>5. FilesAt(Recs, k) \subseteq DOMAIN tables /\ \A n \in FilesAt(Recs, k) : n < vs.next
  <2>1. Recs[Len(Recs)].next <= vs.next
    BY <1>2 DEF VersionInv
  <2> QED
    BY <1>2, <1>3, <1>4, <2>1 DEF GoodNow, Good
<1>6. manifests[current].recs = Recs /\ (MaxCrashes # 0 => k >= manifests[current].synced)
      /\ (MaxCrashes = 0 => k = Len(Recs))
  BY DEF Readable, Recs
<1>7. Recs[Len(Recs)].last <= vs.last
  BY <1>2 DEF VersionInv
<1>8. CASE bg = NoEdit \/ ~bg.logged
  <2>1. Settled /\ Matches(Len(Recs), vs.files, vs.log)
    BY <1>2, <1>8 DEF RecordInv
  <2>2. k = Len(Recs)
    BY <1>3, <1>6, <2>1 DEF Settled
  <2> QED
    BY <1>2, <1>3, <1>4, <1>5, <1>7, <2>1, <2>2 DEF Matches, GoodNow
<1>9. CASE bg # NoEdit /\ bg.logged
  <2>1. /\ Matches(Len(Recs) - 1, vs.files, vs.log) /\ Matches(Len(Recs), AfterEditFiles, bg.log)
        /\ Recs[Len(Recs) - 1].last <= vs.last
        /\ MaxCrashes = 0 \/ manifests[current].synced = Len(Recs) - 1
    BY <1>2, <1>9 DEF RecordInv
  <2>2. k = Len(Recs) \/ k = Len(Recs) - 1
    BY <1>3, <1>6, <2>1
  <2>3. vs.log <= bg.log /\ bg.log <= logfile
    <3>1. bg.kind = "flush" \/ bg.kind = "compact"
      BY <1>2, <1>9 DEF TypeInv, Background
    <3>2. bg.log = logfile \/ bg.log = vs.log
      BY <1>2, <1>9, <3>1 DEF FlushInv, CompactInv
    <3> QED
      BY <1>2, <3>2
  <2>4. Recs[k].log = vs.log \/ Recs[k].log = bg.log
    BY <2>1, <2>2 DEF Matches
  <2>5. Recs[k].last <= vs.last
    BY <1>7, <2>1, <2>2
  <2> QED
    BY <1>2, <1>3, <1>4, <1>5, <1>9, <2>3, <2>4, <2>5 DEF GoodNow
<1> QED
  BY <1>8, <1>9

\* What a version's logs hold is not numbered above last_sequence_.
LEMMA LogsNumbered ==
  ASSUME IInv, pc = "open", NEW l \in Nat, vs.log <= l
  PROVE  \A u \in LogOf(logs, l) : u.seq <= vs.last
<1>1. /\ MemoryInv /\ Mine = vs.files /\ toReplay = {} /\ mem = Range(logs[logfile].recs)
      /\ vs.log \in Nat /\ \A n \in DOMAIN logs : n \in Nat
  BY OpenFacts
<1>2. From(logs, l) \subseteq From(logs, vs.log)
  BY <1>1 DEF From
<1>3. \A n \in From(logs, l) : Range(logs[n].recs) \subseteq Held(tables, Mine) \cup mem \cup imm
  BY <1>1, <1>2 DEF MemoryInv
<1>4. LogOf(logs, l) \subseteq Held(tables, Mine) \cup mem \cup imm
  BY <1>3 DEF LogOf
<1> QED
  BY <1>1, <1>4 DEF MemoryInv

LEMMA WriteKeeps == ASSUME IInv, NEW sync \in BOOLEAN, Write(sync) PROVE IInv'
<1> DEFINE u == [id |-> count + 1, seq |-> vs.last + 1]
           log == logs[logfile]
           new == File(Append(log.recs, u), IF sync THEN Len(log.recs) + 1 ELSE log.synced)
<1>1. /\ Running /\ count < MaxWrites /\ logs' = [logs EXCEPT ![logfile] = new] /\ mem' = mem \cup {u}
      /\ vs' = [vs EXCEPT !.last = u.seq] /\ count' = u.id
      /\ synced' = (IF sync THEN synced \cup {u} ELSE synced)
      /\ tables' = tables /\ manifests' = manifests /\ current' = current /\ pc' = pc
      /\ toReplay' = toReplay /\ edit' = edit /\ imm' = imm /\ logfile' = logfile
      /\ pending' = pending /\ bg' = bg /\ comp' = comp /\ pinned' = pinned /\ bgError' = bgError
      /\ crashes' = crashes
  BY DEF Write, opening, background
<1>2. pc = "open" /\ bgError = FALSE
  BY <1>1 DEF Running, IInv, TypeInv
<1>3. /\ current # 0 /\ TypeInv /\ FilesInv /\ DiskInv /\ IdleInv
      /\ VersionInv /\ MemoryInv /\ OpeningInv /\ RecordInv /\ FlushInv /\ CompactInv /\ PinnedInv
      /\ vs \in Versions /\ vs.next \in Nat /\ vs.last \in Nat /\ vs.log \in Nat /\ vs.files \in SUBSET Nat
      /\ vs.manifest = current /\ vs.next <= MaxNumber /\ vs.last <= count /\ count \in Nat
      /\ Adds = {} /\ Mine = vs.files /\ toReplay = {} /\ logfile # 0
      /\ logfile \in Nat /\ logfile \in DOMAIN logs /\ logfile \in From(logs, vs.log) /\ logfile >= vs.log
      /\ mem = Range(logs[logfile].recs) /\ vs.files \subseteq DOMAIN tables
      /\ current \in DOMAIN manifests
  BY <1>2, OpenFacts
<1>4. /\ log.recs \in Seq(Ups) /\ log.synced \in 0 .. Len(log.recs) /\ Len(log.recs) \in Nat
  BY <1>3 DEF FilesInv
<1>5. u.id = count + 1 /\ u.seq = vs.last + 1 /\ count' = count + 1
  BY <1>1
<1>6. Ups \subseteq Ups' /\ u \in Ups'
  <2>1. 1 .. count \subseteq 1 .. count + 1 /\ vs.last + 1 \in 1 .. count + 1 /\ count + 1 \in 1 .. count + 1
    BY <1>3
  <2> QED
    BY <1>5, <2>1 DEF Ups
<1> HIDE DEF u
<1>7. /\ Append(log.recs, u) \in Seq(Ups') /\ Len(Append(log.recs, u)) = Len(log.recs) + 1
      /\ Range(Append(log.recs, u)) = Range(log.recs) \cup {u}
      /\ \A i \in 1 .. Len(log.recs) : Append(log.recs, u)[i] = log.recs[i]
      /\ Append(log.recs, u)[Len(log.recs) + 1] = u
  <2>1. log.recs \in Seq(Ups')
    BY <1>4, <1>6
  <2> HIDE DEF log
  <2> QED
    BY <1>6, <2>1, RangeAppended
<1>8. /\ new.recs = Append(log.recs, u)
      /\ new.synced = (IF sync THEN Len(log.recs) + 1 ELSE log.synced)
  BY DEF File
<1>9. Range(new.recs) = Range(log.recs) \cup {u} /\ Sure(log) \subseteq Sure(new) /\ (sync => u \in Sure(new))
      /\ new.recs \in Seq(Ups') /\ new.synced \in 0 .. Len(new.recs)
  <2>1. \A i \in 1 .. log.synced : i \in 1 .. new.synced /\ new.recs[i] = log.recs[i]
    BY <1>4, <1>7, <1>8
  <2>2. Sure(log) \subseteq Sure(new)
    BY <2>1 DEF Sure
  <2>3. ASSUME sync PROVE u \in Sure(new)
    <3>1. Len(log.recs) + 1 \in 1 .. new.synced /\ new.recs[Len(log.recs) + 1] = u
      BY <1>4, <1>7, <1>8, <2>3
    <3> QED
      BY <3>1 DEF Sure
  <2>4. new.synced \in 0 .. Len(new.recs)
    BY <1>4, <1>7, <1>8
  <2> QED
    BY <1>7, <1>8, <2>2, <2>3, <2>4
<1> HIDE DEF new, log
<1>10. DOMAIN logs' = DOMAIN logs /\ logs'[logfile] = new /\ \A n \in DOMAIN logs \ {logfile} : logs'[n] = logs[n]
  BY <1>1, <1>3
<1>11. /\ vs' \in Versions /\ vs'.last = vs.last + 1 /\ vs'.files = vs.files /\ vs'.log = vs.log
       /\ vs'.next = vs.next /\ vs'.manifest = vs.manifest /\ vs'.desc = vs.desc
  BY <1>1, <1>3, <1>5 DEF Versions
<1>12. TypeInv'
  <2>1. synced' \subseteq Ups'
    BY <1>1, <1>3, <1>6 DEF TypeInv
  <2>2. count' \in 0 .. MaxWrites
    BY <1>1, <1>3, <1>5
  <2> QED
    BY <1>1, <1>3, <1>11, <2>1, <2>2 DEF TypeInv
<1>13. FilesInv'
  <2>1. \A n \in DOMAIN tables : n \in 0 .. MaxNumber /\ tables[n] \subseteq Ups'
    BY <1>3, <1>6 DEF FilesInv
  <2>2. ASSUME NEW n \in DOMAIN logs
        PROVE  /\ n \in 1 .. MaxNumber - 1 /\ logs'[n].recs \in Seq(Ups')
               /\ logs'[n].synced \in 0 .. Len(logs'[n].recs)
    <3>1. n \in 1 .. MaxNumber - 1 /\ logs[n].recs \in Seq(Ups) /\ logs[n].synced \in 0 .. Len(logs[n].recs)
      BY <1>3 DEF FilesInv
    <3>2. logs[n].recs \in Seq(Ups')
      BY <1>6, <3>1
    <3> QED
      BY <1>9, <1>10, <3>1, <3>2
  <2> QED
    BY <1>1, <1>3, <1>10, <2>1, <2>2 DEF FilesInv
<1>14. synced' = synced \/ (synced' = synced \cup {u} /\ u \in Sure(logs'[logfile]))
  BY <1>1, <1>9, <1>10
<1>15. Ids' \subseteq Ids \cup {u.id}
  <2>1. 1 .. count + 1 \subseteq (1 .. count) \cup {count + 1}
    BY <1>3
  <2> QED
    BY <1>1, <1>5, <2>1 DEF Ids
<1>16. ASSUME NEW F, NEW l \in Nat, NEW a \in Nat, Good(tables, logs, synced, Ids, F, l, a),
              vs.log <= l, l <= logfile, a <= vs.last, F \subseteq DOMAIN tables
       PROVE  Good(tables, logs', synced', Ids', F, l, a) /\ LogOf(logs', l) = LogOf(logs, l) \cup {u}
  <2>1. \A v \in LogOf(logs, l) : v.seq <= vs.last
    BY <1>2, <1>16, LogsNumbered
  <2>2. LogOf(logs, l) \subseteq Ups
    BY <1>3 DEF LogOf, From, FilesInv, Range
  <2>3. Held(tables, F) \subseteq Ups
    BY <1>3, <1>16 DEF Held, FilesInv
  <2>4. \A v \in Held(tables, F) : v.seq <= a
    BY <1>16 DEF Good
  <2>5. \A v \in Ups : v.seq \in Nat
    BY <1>3 DEF Ups
  <2>6. \A v \in Held(tables, F) \cup LogOf(logs, l) : v.seq # u.seq
    BY <1>3, <1>5, <1>16, <2>1, <2>2, <2>3, <2>4, <2>5
  <2>7. logfile \in From(logs, l)
    BY <1>3, <1>16 DEF From
  <2>8. Range(logs'[logfile].recs) = Range(logs[logfile].recs) \cup {u} /\ Sure(logs[logfile]) \subseteq Sure(logs'[logfile])
    BY <1>9, <1>10 DEF log
  <2> QED
    BY <1>10, <1>14, <1>15, <1>16, <2>6, <2>7, <2>8, GoodWritten
<1>17. Recs' = Recs /\ Adds' = {} /\ Mine' = vs.files
  BY <1>1, <1>2, <1>11 DEF Recs, Adds, Opening, Mine
<1>18. DiskInv'
  <2>1. /\ Numbered(current, Recs) /\ (current # 1 => manifests[current].synced > 0) /\ Len(Recs) > 0
        /\ \A k \in 1 .. Len(Recs) : Recs[k] \in Edits
    BY <1>3, DescriptorFacts DEF DiskInv, Descriptor, Recs
  <2>2. \A k \in 1 .. Len(Recs) : Recs[k].last \in Nat
    BY <2>1 DEF Edits
  <2>3. Numbered(current, Recs)'
    <3>1. \A k \in 1 .. Len(Recs) : Recs[k].last <= count + 1
      BY <1>3, <2>1, <2>2 DEF Numbered
    <3> QED
      BY <1>1, <1>5, <1>17, <2>1, <3>1 DEF Numbered
  <2>4. ASSUME NEW k \in Readable(manifests[current])
        PROVE  Good(tables, logs', synced', Ids', FilesAt(Recs, k), Recs[k].log, Recs[k].last)
    BY <1>1, <1>16, RunningRecords
  <2>5. Descriptor(manifests[current])'
    BY <1>1, <1>17, <2>1, <2>3, <2>4 DEF Descriptor, GoodNow, Recs
  <2> QED
    BY <1>1, <1>3, <2>5 DEF DiskInv
<1>19. IdleInv'
  BY <1>1, <1>2, <1>3 DEF IdleInv
<1>20. Good(tables, logs', synced', Ids', vs.files, vs.log, vs.last) /\ LogOf(logs', vs.log) = LogOf(logs, vs.log) \cup {u}
  <2>1. Good(tables, logs, synced, Ids, vs.files, vs.log, vs.last)
    BY <1>3 DEF VersionInv, GoodNow
  <2> QED
    BY <1>3, <1>16, <2>1
<1>21. \A v \in Held(tables, vs.files) \cup mem \cup imm : v.seq <= vs.last + 1 /\ v.seq <= vs.last
  <2>1. \A v \in Held(tables, vs.files) \cup mem \cup imm : v.seq <= vs.last
    BY <1>3 DEF MemoryInv
  <2>2. LogOf(logs, vs.log) \subseteq Ups
    BY <1>3 DEF LogOf, From, FilesInv, Range
  <2>3. Held(tables, vs.files) \subseteq Ups
    BY <1>3 DEF Held, FilesInv
  <2>4. mem \cup imm \subseteq Ups
    BY <1>3, <2>2 DEF MemoryInv
  <2>5. \A v \in Ups : v.seq \in Nat
    BY <1>3 DEF Ups
  <2>6. \A v \in Held(tables, vs.files) \cup mem \cup imm : v.seq \in Nat
    BY <2>3, <2>4, <2>5
  <2> QED
    BY <1>3, <2>1, <2>6
<1>22. VersionInv'
  <2>1. Good(tables, logs', synced', Ids', vs.files, vs.log, vs.last + 1)
    BY <1>20, <1>21 DEF Good
  <2>2. GoodNow(vs.files, vs.log, vs.last)'
    BY <1>1, <1>11, <2>1 DEF GoodNow
  <2>3. Recs[Len(Recs)].last \in Nat /\ Len(Recs) \in 1 .. Len(Recs)
    <3>1. Len(Recs) \in 1 .. Len(Recs)
      BY <1>3, DescriptorFacts
    <3> QED
      BY <1>3, <3>1, DescriptorFacts DEF Edits
  <2>4. Recs[Len(Recs)].last <= vs.last + 1 /\ vs.last + 1 <= count + 1
    BY <1>3, <2>3 DEF VersionInv
  <2> QED
    BY <1>1, <1>3, <1>5, <1>11, <1>17, <2>2, <2>4 DEF VersionInv
<1>23. MemoryInv'
  <2>1. \A v \in Held(tables, vs.files) \cup (mem \cup {u}) \cup imm : v.seq <= vs.last + 1
    <3>1. u.seq <= vs.last + 1
      BY <1>3, <1>5
    <3> QED
      BY <1>21, <3>1
  <2>2. (mem \cup {u}) \cup imm \cup Held(tables, {}) \subseteq LogOf(logs', vs.log)
    BY <1>3, <1>20 DEF MemoryInv
  <2>3. From(logs', vs.log) = From(logs, vs.log)
    BY <1>10 DEF From
  <2>4. \A n \in From(logs', vs.log) \ (toReplay \cup {logfile}) :
            Range(logs'[n].recs) \subseteq Held(tables, vs.files) \cup imm
    <3>1. \A n \in From(logs, vs.log) : n \in DOMAIN logs
      BY DEF From
    <3> QED
      BY <1>3, <1>10, <2>3, <3>1 DEF MemoryInv
  <2>5. mem \cup {u} = Range(logs'[logfile].recs)
    BY <1>3, <1>9, <1>10 DEF log
  <2>6. \A n \in DOMAIN logs' : n <= logfile /\ n < vs.next
    BY <1>3, <1>10, <1>2, OpenFacts
  <2> QED
    BY <1>1, <1>3, <1>10, <1>11, <1>17, <2>1, <2>2, <2>3, <2>4, <2>5, <2>6 DEF MemoryInv
<1>24. OpeningInv'
  BY <1>1, <1>2, <1>3, <1>11 DEF OpeningInv
<1>25. RecordInv'
  <2>1. Recs[Len(Recs) - 1].last <= vs.last /\ Len(Recs) > 1 => Recs[Len(Recs) - 1].last <= vs.last + 1
    <3>1. Len(Recs) > 1 => Len(Recs) - 1 \in 1 .. Len(Recs)
      BY <1>3, DescriptorFacts
    <3>2. Len(Recs) > 1 => Recs[Len(Recs) - 1].last \in Nat
      BY <1>3, <3>1, DescriptorFacts DEF Edits
    <3> QED
      BY <1>3, <3>2
  <2> QED
    BY <1>1, <1>3, <1>11, <1>17, <2>1 DEF RecordInv, Running, Settled, Matches, AfterEditFiles
<1>26. FlushInv' /\ CompactInv' /\ PinnedInv'
  BY <1>1, <1>3, <1>11 DEF FlushInv, CompactInv, PinnedInv, Running
<1>27. RunInv'
  BY <1>22, <1>23, <1>24, <1>25, <1>26 DEF RunInv
<1> QED
  BY <1>12, <1>13, <1>18, <1>19, <1>27 DEF IInv

\* A table with a number that no version knows is made or filled.
Making(x, U, N) ==
    /\ N \in Nat /\ vs.next <= N /\ N <= MaxNumber /\ vs' = [vs EXCEPT !.next = N]
    /\ x \in 0 .. MaxNumber /\ x \notin vs.files /\ x \notin DOMAIN pinned /\ U \in SUBSET Ups
    /\ DOMAIN tables' = DOMAIN tables \cup {x} /\ tables'[x] = U
    /\ \A n \in DOMAIN tables \ {x} : tables'[n] = tables[n]
    /\ logs' = logs /\ manifests' = manifests /\ current' = current /\ pc' = pc /\ toReplay' = toReplay
    /\ edit' = edit /\ mem' = mem /\ imm' = imm /\ logfile' = logfile /\ pinned' = pinned
    /\ bgError' = bgError /\ UNCHANGED ghosts

\* No version is worse for it.
LEMMA TableMade ==
  ASSUME IInv, Running, bg = NoEdit, NEW x, NEW U, NEW N, Making(x, U, N)
  PROVE  /\ FilesInv' /\ DiskInv' /\ VersionInv' /\ MemoryInv' /\ OpeningInv' /\ PinnedInv'
         /\ Settled' /\ Matches(Len(Recs), vs.files, vs.log)'
         /\ vs' \in Versions /\ vs'.next = N /\ vs'.files = vs.files /\ vs'.log = vs.log
         /\ Held(tables', vs.files) = Held(tables, vs.files)
<1>0. /\ N \in Nat /\ vs.next <= N /\ N <= MaxNumber /\ vs' = [vs EXCEPT !.next = N]
      /\ x \in 0 .. MaxNumber /\ x \notin vs.files /\ x \notin DOMAIN pinned /\ U \in SUBSET Ups
      /\ DOMAIN tables' = DOMAIN tables \cup {x} /\ tables'[x] = U
      /\ \A n \in DOMAIN tables \ {x} : tables'[n] = tables[n]
      /\ logs' = logs /\ manifests' = manifests /\ current' = current /\ pc' = pc /\ toReplay' = toReplay
      /\ edit' = edit /\ mem' = mem /\ imm' = imm /\ logfile' = logfile /\ pinned' = pinned
      /\ bgError' = bgError /\ UNCHANGED ghosts
  BY DEF Making
<1>1. pc = "open" /\ bgError = FALSE
  BY DEF Running, IInv, TypeInv
<1>2. /\ current # 0 /\ TypeInv /\ FilesInv /\ DiskInv
      /\ VersionInv /\ MemoryInv /\ OpeningInv /\ RecordInv /\ PinnedInv
      /\ vs \in Versions /\ vs.next \in Nat /\ vs.last \in Nat /\ vs.log \in Nat /\ vs.files \in SUBSET Nat
      /\ vs.manifest = current /\ Mine = vs.files /\ Adds = {} /\ toReplay = {}
      /\ vs.files \subseteq DOMAIN tables /\ current \in DOMAIN manifests
      /\ \A n \in DOMAIN logs : n < vs.next /\ n \in Nat
  BY <1>1, OpenFacts
<1>3. /\ vs' \in Versions /\ vs'.next = N /\ vs'.files = vs.files /\ vs'.log = vs.log
      /\ vs'.last = vs.last /\ vs'.manifest = vs.manifest
  BY <1>0, <1>2 DEF Versions
<1>4. synced' = synced /\ count' = count /\ crashes' = crashes /\ Ids' = Ids /\ Ups' = Ups
  BY <1>0 DEF ghosts, Ids, Ups
<1>5. Recs' = Recs /\ Adds' = {} /\ Mine' = vs.files
  BY <1>0, <1>1, <1>3 DEF Recs, Adds, Opening, Mine
<1>6. \A n \in vs.files : n \in DOMAIN tables' /\ tables'[n] = tables[n]
  BY <1>0, <1>2
<1>7. FilesInv'
  BY <1>0, <1>2, <1>4 DEF FilesInv
<1>8. DiskInv'
  <2>1. ASSUME NEW k \in Readable(manifests[current]), NEW n \in FilesAt(Recs, k)
        PROVE  n \in DOMAIN tables' /\ tables'[n] = tables[n]
    <3>1. FilesAt(Recs, k) = vs.files
      BY RunningRecords
    <3> QED
      BY <1>0, <3>1, <1>6
  <2> QED
    BY <1>0, <1>2, <2>1, DiskGrows
<1>9. /\ Good(tables', logs, synced, Ids, vs.files, vs.log, vs.last)
      /\ Held(tables', vs.files) = Held(tables, vs.files)
  <2>1. Good(tables, logs, synced, Ids, vs.files, vs.log, vs.last)
    BY <1>0, <1>2 DEF VersionInv, GoodNow
  <2>2. \A n \in From(logs, vs.log) : n \in DOMAIN logs
    BY DEF From
  <2> QED
    BY <1>6, <2>1, <2>2, GoodStays
<1>10. VersionInv'
  <2>1. GoodNow(vs.files, vs.log, vs.last)'
    BY <1>0, <1>3, <1>4, <1>9 DEF GoodNow
  <2>2. Recs[Len(Recs)].next \in Nat /\ Recs[Len(Recs)].next <= vs.next
    <3>1. Len(Recs) \in 1 .. Len(Recs)
      BY <1>0, <1>2, DescriptorFacts
    <3> QED
      BY <1>0, <1>2, <3>1, DescriptorFacts DEF Edits, VersionInv
  <2>3. Recs[Len(Recs)].next <= N /\ vs.log < N /\ 0 < vs.manifest /\ vs.manifest < N /\ N <= MaxNumber + 1
    BY <1>0, <1>2, <2>2 DEF VersionInv, Versions
  <2>4. \A n \in vs.files : n \in DOMAIN tables' /\ n < N
    BY <1>0, <1>2, <1>6 DEF VersionInv
  <2>5. vs.last <= count /\ Recs[Len(Recs)].last <= vs.last
    BY <1>0, <1>2 DEF VersionInv
  <2> QED
    BY <1>0, <1>3, <1>4, <1>5, <2>1, <2>3, <2>4, <2>5 DEF VersionInv
<1>11. MemoryInv'
  <2>1. Held(tables', {}) = {} /\ Held(tables, {}) = {}
    BY DEF Held
  <2>2. \A n \in DOMAIN logs : n < N
    BY <1>0, <1>2
  <2> QED
    BY <1>0, <1>1, <1>2, <1>3, <1>5, <1>9, <2>1, <2>2 DEF MemoryInv
<1>12. OpeningInv'
  BY <1>0, <1>1, <1>2, <1>3 DEF OpeningInv
<1>13. PinnedInv'
  <2>1. \A n \in DOMAIN pinned : n \in DOMAIN tables /\ n # x /\ n < N
    <3>1. \A n \in DOMAIN pinned : n \in Nat
      BY <1>0, <1>1, <1>2 DEF PinnedInv, FilesInv
    <3> QED
      BY <1>0, <1>1, <1>2, <3>1 DEF PinnedInv
  <2> QED
    BY <1>0, <1>1, <1>2, <1>3, <2>1 DEF PinnedInv
<1>14. Settled' /\ Matches(Len(Recs), vs.files, vs.log)'
  BY <1>0, <1>2, <1>3, <1>5 DEF RecordInv, Settled, Matches
<1> QED
  BY <1>0, <1>3, <1>7, <1>8, <1>9, <1>10, <1>11, <1>12, <1>13, <1>14

LEMMA WriteLevel0TableKeeps == ASSUME IInv, WriteLevel0Table PROVE IInv'
<1>1. /\ Running /\ imm # {} /\ bg = NoEdit /\ vs.next < MaxNumber
      /\ tables' = [m \in DOMAIN tables \cup {vs.next} |-> IF m = vs.next THEN imm ELSE tables[m]]
      /\ vs' = [vs EXCEPT !.next = vs.next + 1]
      /\ bg' = [kind |-> "flush", add |-> {vs.next}, del |-> {}, log |-> logfile, logged |-> FALSE]
      /\ logs' = logs /\ manifests' = manifests /\ current' = current /\ pc' = pc /\ toReplay' = toReplay
      /\ edit' = edit /\ mem' = mem /\ imm' = imm /\ logfile' = logfile /\ pending' = pending
      /\ comp' = comp /\ pinned' = pinned /\ bgError' = bgError /\ UNCHANGED ghosts
      /\ synced' = synced /\ count' = count /\ crashes' = crashes
  BY DEF WriteLevel0Table, Put, opening, memory, ghosts
<1>2. pc = "open" /\ bgError = FALSE
  BY <1>1 DEF Running, IInv, TypeInv
<1>3. /\ current # 0 /\ TypeInv /\ FilesInv /\ IdleInv /\ CompactInv /\ VersionInv /\ PinnedInv /\ MemoryInv
      /\ vs.next \in Nat /\ Mine = vs.files /\ logfile \in Nat
  BY <1>2, OpenFacts
<1>4. vs.next \in 0 .. MaxNumber /\ vs.next + 1 \in Nat /\ vs.next <= vs.next + 1 /\ vs.next + 1 <= MaxNumber
  BY <1>1, <1>3
<1>5. vs.next \notin vs.files /\ vs.next \notin DOMAIN pinned
  BY <1>2, <1>3 DEF VersionInv, PinnedInv
<1>6. imm \in SUBSET Ups
  BY <1>3 DEF MemoryInv, LogOf, From, FilesInv, Range
<1>7. /\ DOMAIN tables' = DOMAIN tables \cup {vs.next} /\ tables'[vs.next] = imm
      /\ \A n \in DOMAIN tables \ {vs.next} : tables'[n] = tables[n]
  BY <1>1
<1>8. /\ FilesInv' /\ DiskInv' /\ VersionInv' /\ MemoryInv' /\ OpeningInv' /\ PinnedInv'
      /\ Settled' /\ Matches(Len(Recs), vs.files, vs.log)'
      /\ vs' \in Versions /\ vs'.next = vs.next + 1 /\ vs'.files = vs.files
  <2>1. Making(vs.next, imm, vs.next + 1)
    BY <1>1, <1>4, <1>5, <1>6, <1>7 DEF Making
  <2> QED
    BY <1>1, <2>1, TableMade
<1>9. /\ bg'.kind = "flush" /\ bg'.add = {vs.next} /\ bg'.del = {} /\ bg'.log = logfile /\ bg'.logged = FALSE
      /\ bg' \in Background
  <2>1. {vs.next} \in SUBSET Nat
    BY <1>3
  <2> QED
    BY <1>1, <1>3, <2>1 DEF Background
<1>10. TypeInv'
  BY <1>1, <1>3, <1>8, <1>9 DEF TypeInv, Ups, Pcs
<1>11. IdleInv'
  BY <1>1, <1>2, <1>3 DEF IdleInv
<1>12. RecordInv'
  BY <1>8, <1>9 DEF RecordInv
<1>13. ASSUME comp # NoEdit
       PROVE  /\ comp.inputs \subseteq vs.files /\ comp.out \in pending /\ comp.out \in DOMAIN tables
              /\ comp.out < vs.next /\ comp.out # vs.next /\ comp.out < vs.next + 1
              /\ comp.out \notin vs.files /\ comp.out \notin DOMAIN pinned
  <2>1. comp.out \in DOMAIN tables /\ comp.out < vs.next
    BY <1>1, <1>3, <1>13 DEF CompactInv
  <2>2. comp.out \in Nat
    BY <1>3, <2>1 DEF FilesInv
  <2> QED
    BY <1>1, <1>3, <1>13, <2>1, <2>2 DEF CompactInv
<1>14. FlushInv'
  <2>1. Held(tables', {vs.next}) = imm
    BY <1>7 DEF Held
  <2>2. vs.next \in DOMAIN tables' /\ vs.next < vs.next + 1
    BY <1>3, <1>7
  <2> QED
    BY <1>1, <1>8, <1>9, <1>13, <2>1, <2>2 DEF FlushInv
<1>15. CompactInv'
  BY <1>1, <1>7, <1>8, <1>9, <1>13 DEF CompactInv
<1>16. RunInv'
  BY <1>8, <1>12, <1>14, <1>15 DEF RunInv
<1> QED
  BY <1>8, <1>10, <1>11, <1>16 DEF IInv

LEMMA OpenCompactionOutputFileKeeps ==
  ASSUME IInv, NEW inputs \in SUBSET vs.files, OpenCompactionOutputFile(inputs)
  PROVE  IInv'
<1>1. /\ Running /\ bg = NoEdit /\ comp = NoEdit /\ vs.next < MaxNumber
      /\ tables' = [m \in DOMAIN tables \cup {vs.next} |-> IF m = vs.next THEN {} ELSE tables[m]]
      /\ vs' = [vs EXCEPT !.next = vs.next + 1]
      /\ comp' = [kind |-> "run", inputs |-> inputs, out |-> vs.next]
      /\ pending' = pending \cup {vs.next} /\ bg' = bg
      /\ logs' = logs /\ manifests' = manifests /\ current' = current /\ pc' = pc /\ toReplay' = toReplay
      /\ edit' = edit /\ mem' = mem /\ imm' = imm /\ logfile' = logfile
      /\ pinned' = pinned /\ bgError' = bgError /\ UNCHANGED ghosts
      /\ synced' = synced /\ count' = count /\ crashes' = crashes
  BY DEF OpenCompactionOutputFile, Put, opening, memory, ghosts
<1>2. pc = "open" /\ bgError = FALSE
  BY <1>1 DEF Running, IInv, TypeInv
<1>3. /\ current # 0 /\ TypeInv /\ FilesInv /\ IdleInv /\ VersionInv /\ PinnedInv
      /\ vs.next \in Nat /\ Mine = vs.files /\ vs.files \in SUBSET Nat
  BY <1>2, OpenFacts
<1>4. vs.next \in 0 .. MaxNumber /\ vs.next + 1 \in Nat /\ vs.next <= vs.next + 1 /\ vs.next + 1 <= MaxNumber
      /\ vs.next < vs.next + 1
  BY <1>1, <1>3
<1>5. vs.next \notin vs.files /\ vs.next \notin DOMAIN pinned
  BY <1>2, <1>3 DEF VersionInv, PinnedInv
<1>6. {} \in SUBSET Ups
  OBVIOUS
<1>7. /\ DOMAIN tables' = DOMAIN tables \cup {vs.next} /\ tables'[vs.next] = {}
      /\ \A n \in DOMAIN tables \ {vs.next} : tables'[n] = tables[n]
  BY <1>1
<1>8. /\ FilesInv' /\ DiskInv' /\ VersionInv' /\ MemoryInv' /\ OpeningInv' /\ PinnedInv'
      /\ Settled' /\ Matches(Len(Recs), vs.files, vs.log)'
      /\ vs' \in Versions /\ vs'.next = vs.next + 1 /\ vs'.files = vs.files
  <2>1. Making(vs.next, {}, vs.next + 1)
    BY <1>1, <1>4, <1>5, <1>6, <1>7 DEF Making
  <2> QED
    BY <1>1, <2>1, TableMade
<1>9. comp' \in [kind : {"run"}, inputs : SUBSET Nat, out : Nat]
      /\ comp'.inputs = inputs /\ comp'.out = vs.next
  <2>1. inputs \in SUBSET Nat
    BY <1>3
  <2> QED
    BY <1>1, <1>3, <2>1
<1>10. TypeInv'
  BY <1>1, <1>3, <1>4, <1>8, <1>9 DEF TypeInv, Ups, Pcs
<1>11. IdleInv'
  BY <1>1, <1>2, <1>3 DEF IdleInv
<1>12. RecordInv' /\ FlushInv'
  BY <1>1, <1>8 DEF RecordInv, FlushInv
<1>13. CompactInv'
  BY <1>1, <1>4, <1>5, <1>7, <1>8, <1>9 DEF CompactInv
<1>14. RunInv'
  BY <1>8, <1>12, <1>13 DEF RunInv
<1> QED
  BY <1>8, <1>10, <1>11, <1>14 DEF IInv

LEMMA FinishCompactionOutputFileKeeps == ASSUME IInv, FinishCompactionOutputFile PROVE IInv'
<1>1. /\ Running /\ bg = NoEdit /\ comp # NoEdit
      /\ tables' = [tables EXCEPT ![comp.out] = Held(tables, comp.inputs)]
      /\ bg' = [kind |-> "compact", add |-> {comp.out}, del |-> comp.inputs, log |-> vs.log, logged |-> FALSE]
      /\ logs' = logs /\ manifests' = manifests /\ current' = current /\ pc' = pc /\ vs' = vs
      /\ toReplay' = toReplay
      /\ edit' = edit /\ mem' = mem /\ imm' = imm /\ logfile' = logfile /\ pending' = pending
      /\ comp' = comp /\ pinned' = pinned /\ bgError' = bgError /\ UNCHANGED ghosts
      /\ synced' = synced /\ count' = count /\ crashes' = crashes
  BY DEF FinishCompactionOutputFile, Held, opening, memory, ghosts
<1>2. pc = "open" /\ bgError = FALSE
  BY <1>1 DEF Running, IInv, TypeInv
<1>3. /\ current # 0 /\ TypeInv /\ FilesInv /\ IdleInv /\ CompactInv
      /\ vs \in Versions /\ vs.next \in Nat /\ vs.next <= MaxNumber /\ vs.log \in Nat
      /\ vs.files \subseteq DOMAIN tables
  BY <1>2, OpenFacts
<1>4. /\ comp.inputs \subseteq vs.files /\ comp.out \in pending /\ comp.out \in DOMAIN tables
      /\ comp.out < vs.next /\ comp.out \notin vs.files /\ comp.out \notin DOMAIN pinned
      /\ comp.out \in Nat /\ comp.inputs \in SUBSET Nat
  BY <1>1, <1>3 DEF CompactInv, TypeInv
<1>5. Held(tables, comp.inputs) \in SUBSET Ups
  BY <1>3, <1>4 DEF Held, FilesInv
<1>6. /\ DOMAIN tables' = DOMAIN tables \cup {comp.out} /\ tables'[comp.out] = Held(tables, comp.inputs)
      /\ \A n \in DOMAIN tables \ {comp.out} : tables'[n] = tables[n]
  BY <1>1, <1>4
<1>7. vs' = [vs EXCEPT !.next = vs.next] /\ vs.next <= vs.next
  BY <1>1, <1>3 DEF Versions
<1>8. comp.out \in 0 .. MaxNumber
  BY <1>3, <1>4
<1>9. /\ FilesInv' /\ DiskInv' /\ VersionInv' /\ MemoryInv' /\ OpeningInv' /\ PinnedInv'
      /\ Settled' /\ Matches(Len(Recs), vs.files, vs.log)'
  <2>1. Making(comp.out, Held(tables, comp.inputs), vs.next)
    BY <1>1, <1>3, <1>4, <1>5, <1>6, <1>7, <1>8 DEF Making
  <2> QED
    BY <1>1, <2>1, TableMade
<1>10. /\ bg'.kind = "compact" /\ bg'.add = {comp.out} /\ bg'.del = comp.inputs /\ bg'.log = vs.log
       /\ bg'.logged = FALSE /\ bg' \in Background
  <2>1. {comp.out} \in SUBSET Nat
    BY <1>4
  <2> QED
    BY <1>1, <1>3, <1>4, <2>1 DEF Background
<1>11. TypeInv'
  BY <1>1, <1>3, <1>10 DEF TypeInv, Ups, Pcs
<1>12. IdleInv'
  BY <1>1, <1>2, <1>3 DEF IdleInv
<1>13. RecordInv' /\ FlushInv'
  BY <1>9, <1>10 DEF RecordInv, FlushInv
<1>14. CompactInv'
  <2>1. Held(tables', comp.inputs) = Held(tables, comp.inputs)
    <3>1. \A n \in comp.inputs : tables'[n] = tables[n]
      BY <1>3, <1>4, <1>6
    <3> QED
      BY <3>1 DEF Held
  <2> QED
    BY <1>1, <1>4, <1>6, <1>10, <2>1 DEF CompactInv
<1>15. RunInv'
  BY <1>9, <1>13, <1>14 DEF RunInv
<1> QED
  BY <1>9, <1>11, <1>12, <1>15 DEF IInv

\* The version that the background thread's edit makes is as good as the one it
\* replaces, and better: a flush no longer needs the log of the table it made.
LEMMA AfterEditGood ==
  ASSUME IInv, Running, bg # NoEdit
  PROVE  /\ GoodNow(AfterEditFiles, bg.log, vs.last)
         /\ AfterEditFiles \in SUBSET Nat /\ AfterEditFiles \subseteq DOMAIN tables
         /\ \A n \in AfterEditFiles : n < vs.next
         /\ \A n \in bg.add : n < vs.next
         /\ bg \in Background /\ (bg.kind = "flush" \/ bg.kind = "compact")
         /\ (bg.kind = "flush" => bg.log = logfile /\ bg.del = {})
         /\ (bg.kind = "compact" => bg.log = vs.log)
         /\ Held(tables, AfterEditFiles) = Held(tables, vs.files) \cup (IF bg.kind = "flush" THEN imm ELSE {})
         /\ bg.log \in Nat /\ bg.log < vs.next /\ vs.log <= bg.log /\ bg.log <= logfile
<1>1. pc = "open" /\ bgError = FALSE
  BY DEF Running, IInv, TypeInv
<1>2. /\ current # 0 /\ TypeInv /\ FilesInv /\ VersionInv /\ MemoryInv /\ FlushInv /\ CompactInv
      /\ vs \in Versions /\ vs.next \in Nat /\ vs.last \in Nat /\ vs.log \in Nat /\ vs.files \in SUBSET Nat
      /\ Mine = vs.files /\ toReplay = {} /\ logfile # 0 /\ logfile \in Nat /\ logfile >= vs.log
      /\ logfile < vs.next /\ vs.files \subseteq DOMAIN tables
      /\ \A n \in DOMAIN tables : n \in Nat
  BY <1>1, OpenFacts
<1>3. /\ bg \in Background /\ (bg.kind = "flush" \/ bg.kind = "compact") /\ bg.add \in SUBSET Nat
  BY <1>2 DEF TypeInv, Background
<1>4. /\ \A n \in vs.files : n < vs.next
      /\ \A u \in Held(tables, vs.files) : u.seq <= vs.last
      /\ Good(tables, logs, synced, Ids, vs.files, vs.log, vs.last)
  BY <1>2 DEF VersionInv, MemoryInv, GoodNow
<1>5. CASE bg.kind = "flush"
  <2>1. /\ bg.log = logfile /\ bg.del = {} /\ bg.add \subseteq DOMAIN tables
        /\ \A n \in bg.add : n < vs.next
        /\ Held(tables, bg.add) = imm
    BY <1>5, <1>2 DEF FlushInv
  <2>2. AfterEditFiles = vs.files \cup bg.add
    BY <2>1 DEF AfterEditFiles
  <2>3. Held(tables, AfterEditFiles) = Held(tables, vs.files) \cup imm
    BY <2>1, <2>2 DEF Held
  <2>4. AfterEditFiles \subseteq DOMAIN tables
    BY <1>2, <2>1, <2>2
  <2>5. GoodNow(AfterEditFiles, logfile, vs.last)
    BY <1>2, <2>3, <2>4, NewerVersion
  <2>6. \A n \in AfterEditFiles : n < vs.next
    BY <1>4, <2>1, <2>2
  <2>7. AfterEditFiles \in SUBSET Nat
    BY <1>2, <2>4
  <2> QED
    BY <1>2, <1>3, <1>5, <2>1, <2>3, <2>4, <2>5, <2>6, <2>7
<1>6. CASE bg.kind = "compact"
  <2>1. /\ comp # NoEdit /\ bg.add = {comp.out} /\ bg.del = comp.inputs /\ bg.log = vs.log
        /\ tables[comp.out] = Held(tables, comp.inputs)
        /\ comp.inputs \subseteq vs.files /\ comp.out \in DOMAIN tables /\ comp.out < vs.next
        /\ comp.out \notin vs.files
    BY <1>6, <1>2 DEF CompactInv
  <2>2. AfterEditFiles = (vs.files \ comp.inputs) \cup {comp.out}
    BY <2>1 DEF AfterEditFiles
  <2>3. Held(tables, AfterEditFiles) = Held(tables, vs.files \ comp.inputs) \cup Held(tables, comp.inputs)
    BY <2>1, <2>2 DEF Held
  <2>4. Held(tables, vs.files) = Held(tables, vs.files \ comp.inputs) \cup Held(tables, comp.inputs)
    BY <2>1 DEF Held
  <2>5. AfterEditFiles \subseteq DOMAIN tables
    BY <1>2, <2>1, <2>2
  <2>6. Good(tables, logs, synced, Ids, AfterEditFiles, vs.log, vs.last)
    BY <1>4, <2>3, <2>4, <2>5, GoodShift
  <2>7. \A n \in AfterEditFiles : n < vs.next
    BY <1>4, <2>1, <2>2
  <2>8. AfterEditFiles \in SUBSET Nat
    BY <1>2, <2>5
  <2>9. vs.log < vs.next
    BY <1>2 DEF VersionInv
  <2> QED
    BY <1>2, <1>3, <1>6, <2>1, <2>3, <2>4, <2>5, <2>6, <2>7, <2>8, <2>9 DEF GoodNow
<1> QED
  BY <1>3, <1>5, <1>6

LEMMA LogEditKeeps == ASSUME IInv, LogEdit PROVE IInv'
<1> DEFINE e == EditOf(bg.add, bg.del, bg.log)
<1>1. /\ Running /\ bg # NoEdit /\ ~bg.logged /\ bg' = [bg EXCEPT !.logged = TRUE]
      /\ manifests' = [manifests EXCEPT ![vs.manifest] =
                          File(Append(manifests[vs.manifest].recs, e), manifests[vs.manifest].synced)]
      /\ tables' = tables /\ logs' = logs /\ current' = current /\ pc' = pc /\ vs' = vs /\ toReplay' = toReplay
      /\ edit' = edit /\ mem' = mem /\ imm' = imm /\ logfile' = logfile /\ pending' = pending
      /\ comp' = comp /\ pinned' = pinned /\ bgError' = bgError /\ UNCHANGED ghosts
      /\ synced' = synced /\ count' = count /\ crashes' = crashes
  BY DEF LogEdit, opening, memory, ghosts
<1>2. pc = "open" /\ bgError = FALSE
  BY <1>1 DEF Running, IInv, TypeInv
<1>3. /\ current # 0 /\ TypeInv /\ FilesInv /\ DiskInv /\ IdleInv
      /\ VersionInv /\ MemoryInv /\ OpeningInv /\ RecordInv /\ FlushInv /\ CompactInv /\ PinnedInv
      /\ vs \in Versions /\ vs.next \in Nat /\ vs.last \in Nat /\ vs.log \in Nat /\ vs.files \in SUBSET Nat
      /\ vs.manifest = current /\ vs.next <= MaxNumber /\ vs.last <= count /\ count \in Nat
      /\ Mine = vs.files /\ current \in DOMAIN manifests
  BY <1>2, OpenFacts
<1>4. /\ GoodNow(AfterEditFiles, bg.log, vs.last)
      /\ \A n \in bg.add : n < vs.next
      /\ bg \in Background /\ bg.log \in Nat /\ bg.log < vs.next
  BY <1>1, AfterEditGood
<1>5. Settled /\ Matches(Len(Recs), vs.files, vs.log)
  BY <1>1, <1>3 DEF RecordInv
<1>6. /\ e \in Edits /\ e.add = bg.add /\ e.del = bg.del /\ e.log = bg.log /\ e.next = vs.next /\ e.last = vs.last
  BY <1>3, <1>4 DEF EditOf, Edits, Background
<1> HIDE DEF e
<1>7. /\ manifests'[current] = File(Append(Recs, e), manifests[current].synced)
      /\ DOMAIN manifests' = DOMAIN manifests /\ \A n \in DOMAIN manifests \ {current} : manifests'[n] = manifests[n]
  BY <1>1, <1>3 DEF Recs
<1>8. manifests'[current].recs = Append(Recs, e) /\ manifests'[current].synced = manifests[current].synced
  BY <1>7 DEF File
<1>9. (FilesAt(Recs, Len(Recs)) \ e.del) \cup e.add = AfterEditFiles
  BY <1>5, <1>6 DEF Matches, AfterEditFiles
<1>10. /\ FilesInv' /\ DiskInv'
       /\ Recs' = Append(Recs, e) /\ Len(Recs') = Len(Recs) + 1 /\ Recs'[Len(Recs) + 1] = e
       /\ \A k \in 1 .. Len(Recs) : Recs'[k] = Recs[k] /\ FilesAt(Recs', k) = FilesAt(Recs, k)
       /\ FilesAt(Recs', Len(Recs) + 1) = AfterEditFiles
  <2>1. Recs[Len(Recs)].next <= e.next
    BY <1>3, <1>6 DEF VersionInv
  <2>2. /\ \A n \in e.add : n < e.next
        /\ e.log < e.next /\ e.next <= MaxNumber /\ e.last <= count
    BY <1>3, <1>4, <1>6
  <2>3. GoodNow((FilesAt(Recs, Len(Recs)) \ e.del) \cup e.add, e.log, e.last)
    BY <1>4, <1>6, <1>9
  <2>4. manifests'[current].synced \in {Len(Recs) + 1, manifests[current].synced}
    BY <1>8
  <2> QED
    BY <1>1, <1>3, <1>6, <1>7, <1>8, <1>9, <2>1, <2>2, <2>3, <2>4, RecordAppended
<1>11. /\ bg'.kind = bg.kind /\ bg'.add = bg.add /\ bg'.del = bg.del /\ bg'.log = bg.log /\ bg'.logged = TRUE
       /\ bg' \in Background
  BY <1>1, <1>4 DEF Background
<1>12. AfterEditFiles' = AfterEditFiles /\ Mine' = vs.files /\ Adds' = Adds /\ Ids' = Ids
  BY <1>1, <1>2, <1>11 DEF AfterEditFiles, Mine, Adds, Opening, Ids
<1>13. Len(Recs) \in Nat /\ Len(Recs) > 0 /\ Len(Recs) \in 1 .. Len(Recs)
  BY <1>3, DescriptorFacts
<1>14. TypeInv'
  BY <1>1, <1>3, <1>11 DEF TypeInv, Ups
<1>15. IdleInv'
  BY <1>1, <1>2, <1>3 DEF IdleInv
<1>16. VersionInv'
  <2>1. Recs'[Len(Recs')].next = vs.next /\ Recs'[Len(Recs')].last = vs.last
    BY <1>6, <1>10
  <2>2. vs.next <= vs.next /\ vs.last <= vs.last
    BY <1>3
  <2>3. GoodNow(vs.files, vs.log, vs.last)'
    BY <1>1, <1>3, <1>12 DEF VersionInv, GoodNow
  <2> QED
    BY <1>1, <1>3, <1>12, <2>1, <2>2, <2>3 DEF VersionInv
<1>17. MemoryInv'
  BY <1>1, <1>3, <1>12 DEF MemoryInv
<1>18. OpeningInv'
  BY <1>1, <1>2, <1>3 DEF OpeningInv
<1>19. RecordInv'
  <2>1. Len(Recs') > 1 /\ Len(Recs') - 1 = Len(Recs)
    BY <1>10, <1>13
  <2>2. Matches(Len(Recs) - 1, vs.files, vs.log)'
    BY <1>1, <1>5, <1>10, <1>13, <2>1 DEF Matches
  <2>3. Matches(Len(Recs), AfterEditFiles, bg.log)'
    BY <1>6, <1>10, <1>11, <1>12 DEF Matches
  <2>4. Recs'[Len(Recs') - 1].last <= vs.last
    BY <1>3, <1>10, <1>13, <2>1 DEF VersionInv
  <2>5. MaxCrashes = 0 \/ manifests'[current].synced = Len(Recs') - 1
    BY <1>5, <1>8, <2>1 DEF Settled
  <2>6. ~(bg' = NoEdit \/ ~bg'.logged)
    BY <1>11 DEF NoEdit, Background
  <2> QED
    BY <1>1, <2>1, <2>2, <2>3, <2>4, <2>5, <2>6 DEF RecordInv
<1>20. FlushInv' /\ CompactInv' /\ PinnedInv'
  BY <1>1, <1>3, <1>11 DEF FlushInv, CompactInv, PinnedInv, Running
<1>21. RunInv'
  BY <1>16, <1>17, <1>18, <1>19, <1>20 DEF RunInv
<1> QED
  BY <1>10, <1>14, <1>15, <1>21 DEF IInv

LEMMA CommitEditKeeps == ASSUME IInv, CommitEdit PROVE IInv'
<1> DEFINE F == AfterEditFiles
           P == Outputs(bg.kind)
           mans == [manifests EXCEPT ![vs.manifest] = File(manifests[vs.manifest].recs,
                                                           Len(manifests[vs.manifest].recs))]
<1>1. /\ Running /\ bg # NoEdit /\ bg.logged
      /\ vs' = [vs EXCEPT !.files = F, !.log = bg.log]
      /\ DeleteObsoleteFiles(F, P, bg.log, mans, FALSE)
      /\ imm' = (IF bg.kind = "flush" THEN {} ELSE imm)
      /\ bg' = NoEdit /\ pending' = P /\ comp' = (IF bg.kind = "compact" THEN NoEdit ELSE comp)
      /\ current' = current /\ pc' = pc /\ toReplay' = toReplay /\ edit' = edit /\ mem' = mem
      /\ logfile' = logfile /\ pinned' = pinned /\ bgError' = bgError /\ UNCHANGED ghosts
      /\ synced' = synced /\ count' = count /\ crashes' = crashes
  BY DEF CommitEdit, AfterEdit, AfterEditFiles, opening, ghosts
<1>2. pc = "open" /\ bgError = FALSE
  BY <1>1 DEF Running, IInv, TypeInv
<1>3. /\ current # 0 /\ TypeInv /\ FilesInv /\ DiskInv /\ IdleInv
      /\ VersionInv /\ MemoryInv /\ OpeningInv /\ RecordInv /\ FlushInv /\ CompactInv /\ PinnedInv
      /\ vs \in Versions /\ vs.next \in Nat /\ vs.last \in Nat /\ vs.log \in Nat /\ vs.files \in SUBSET Nat
      /\ vs.manifest = current /\ vs.next <= MaxNumber /\ vs.last <= count /\ count \in Nat
      /\ Mine = vs.files /\ Adds = {} /\ toReplay = {} /\ logfile # 0 /\ logfile \in Nat
      /\ logfile \in DOMAIN logs /\ mem = Range(logs[logfile].recs)
      /\ \A n \in DOMAIN logs : n <= logfile /\ n < vs.next /\ n \in Nat
      /\ current \in DOMAIN manifests
  BY <1>2, OpenFacts
<1>4. /\ GoodNow(F, bg.log, vs.last)
      /\ F \in SUBSET Nat /\ F \subseteq DOMAIN tables
      /\ \A n \in F : n < vs.next
      /\ bg \in Background /\ (bg.kind = "flush" \/ bg.kind = "compact")
      /\ (bg.kind = "flush" => bg.log = logfile /\ bg.del = {})
      /\ (bg.kind = "compact" => bg.log = vs.log)
      /\ Held(tables, F) = Held(tables, vs.files) \cup (IF bg.kind = "flush" THEN imm ELSE {})
      /\ bg.log \in Nat /\ bg.log < vs.next /\ vs.log <= bg.log /\ bg.log <= logfile
  BY <1>1, AfterEditGood
<1>5. Matches(Len(Recs), F, bg.log)
  BY <1>1, <1>3 DEF RecordInv
<1>6. P \subseteq pending /\ (bg.kind = "flush" => P = pending)
  BY DEF Outputs
<1> HIDE DEF F, P
<1>7. /\ FilesInv' /\ DiskInv' /\ Recs' = Recs /\ Settled'
      /\ DOMAIN tables' = DOMAIN tables \cap LiveFiles(F, P) /\ \A n \in DOMAIN tables' : tables'[n] = tables[n]
      /\ DOMAIN logs' = From(logs, bg.log) /\ \A n \in DOMAIN logs' : logs'[n] = logs[n]
  <2>1. /\ DOMAIN mans = DOMAIN manifests /\ \A n \in DOMAIN manifests \ {current} : mans[n] = manifests[n]
        /\ mans[current].recs = Recs /\ mans[current].synced = Len(Recs)
    BY <1>3 DEF File, Recs
  <2>2. FilesAt(Recs, Len(Recs)) = F /\ Recs[Len(Recs)].log = bg.log
    BY <1>5 DEF Matches
  <2> HIDE DEF mans
  <2>3. Deletion(F, P, bg.log, mans)
    BY <1>1, <1>3, <2>1, <2>2 DEF Deletion
  <2> QED
    BY <1>3, <1>4, <2>3, ObsoleteDeleted
<1> HIDE DEF mans
<1>8. /\ vs' \in Versions /\ vs'.files = F /\ vs'.log = bg.log /\ vs'.next = vs.next
      /\ vs'.last = vs.last /\ vs'.manifest = vs.manifest
  BY <1>1, <1>3, <1>4 DEF Versions
<1>9. Adds' = {} /\ Mine' = F /\ Ids' = Ids
  BY <1>1, <1>2, <1>8 DEF Adds, Opening, Mine, Ids
<1>10. TypeInv'
  <2>1. comp' \in {NoEdit} \cup [kind : {"run"}, inputs : SUBSET Nat, out : Nat]
    BY <1>1, <1>3 DEF TypeInv
  <2>2. pending' \subseteq 0 .. MaxNumber
    BY <1>1, <1>3, <1>6 DEF TypeInv
  <2> QED
    BY <1>1, <1>3, <1>8, <2>1, <2>2 DEF TypeInv, Ups
<1>11. IdleInv'
  BY <1>1, <1>2, <1>3 DEF IdleInv
<1>12. \A n \in F \cup P \cup DOMAIN pinned : n \in DOMAIN tables => n \in DOMAIN tables' /\ tables'[n] = tables[n]
  BY <1>7 DEF LiveFiles
<1>13. /\ From(logs', bg.log) = From(logs, bg.log) /\ From(logs, bg.log) \subseteq From(logs, vs.log)
       /\ \A n \in From(logs, bg.log) : n \in DOMAIN logs /\ n \in DOMAIN logs' /\ logs'[n] = logs[n]
  <2>1. From(logs, bg.log) \subseteq From(logs, vs.log)
    BY <1>3, <1>4 DEF From
  <2> QED
    BY <1>7, <2>1 DEF From
<1>14. /\ Good(tables', logs', synced, Ids, F, bg.log, vs.last)
       /\ Held(tables', F) = Held(tables, F) /\ LogOf(logs', bg.log) = LogOf(logs, bg.log)
  <2>1. Good(tables, logs, synced, Ids, F, bg.log, vs.last)
    BY <1>4 DEF GoodNow
  <2>2. \A n \in F : n \in DOMAIN tables' /\ tables'[n] = tables[n]
    BY <1>4, <1>12
  <2>3. \A n \in From(logs', bg.log) : n \in DOMAIN logs
    BY <1>13
  <2>4. \A n \in From(logs, bg.log) : n \in DOMAIN logs' /\ logs'[n] = logs[n]
    BY <1>13
  <2> QED
    BY <2>1, <2>2, <2>3, <2>4, GoodStays
<1>15. VersionInv'
  <2>1. GoodNow(vs.files, vs.log, vs.last)'
    BY <1>1, <1>8, <1>9, <1>14 DEF GoodNow
  <2>2. F \subseteq DOMAIN tables'
    BY <1>4, <1>12
  <2> QED
    BY <1>1, <1>3, <1>4, <1>7, <1>8, <1>9, <2>1, <2>2 DEF VersionInv
<1>16. MemoryInv'
  <2>1. /\ \A u \in Held(tables, vs.files) \cup mem \cup imm : u.seq <= vs.last
        /\ mem \cup imm \subseteq LogOf(logs, vs.log)
        /\ \A n \in From(logs, vs.log) \ {logfile} : Range(logs[n].recs) \subseteq Held(tables, vs.files) \cup imm
    BY <1>3 DEF MemoryInv
  <2>2. \A u \in Held(tables', F) \cup mem \cup imm' : u.seq <= vs.last
    BY <1>1, <1>4, <1>14, <2>1
  <2>3. logfile \in From(logs, bg.log) /\ mem \subseteq LogOf(logs, bg.log)
    <3>1. logfile \in From(logs, bg.log)
      BY <1>3, <1>4 DEF From
    <3> QED
      BY <1>3, <3>1 DEF LogOf
  <2>4. mem \cup imm' \cup Held(tables', {}) \subseteq LogOf(logs', bg.log)
    <3>1. imm' \subseteq LogOf(logs, bg.log)
      BY <1>1, <1>4, <2>1
    <3>2. Held(tables', {}) = {}
      BY DEF Held
    <3> QED
      BY <1>14, <2>3, <3>1, <3>2
  <2>5. \A n \in From(logs', bg.log) \ {logfile} : Range(logs'[n].recs) \subseteq Held(tables', F) \cup imm'
    BY <1>1, <1>4, <1>13, <1>14, <2>1
  <2>6. logfile \in From(logs', bg.log) /\ logs'[logfile] = logs[logfile]
    BY <1>13, <2>3
  <2>7. \A n \in DOMAIN logs' : n < vs.next /\ n <= logfile
    BY <1>3, <1>7 DEF From
  <2> QED
    BY <1>1, <1>3, <1>8, <1>9, <2>2, <2>4, <2>5, <2>6, <2>7 DEF MemoryInv
<1>17. OpeningInv'
  BY <1>1, <1>2, <1>3, <1>8 DEF OpeningInv
<1>18. RecordInv'
  BY <1>1, <1>5, <1>7, <1>8 DEF RecordInv, Matches
<1>19. FlushInv'
  BY <1>1 DEF FlushInv
<1>20. CompactInv'
  <2>1. ASSUME comp' # NoEdit
        PROVE  /\ comp' = comp /\ comp.inputs \subseteq F /\ comp.out \in P /\ comp.out \in DOMAIN tables'
               /\ comp.out < vs.next /\ comp.out \notin F /\ comp.out \notin DOMAIN pinned
    <3>1. comp' = comp /\ comp # NoEdit /\ bg.kind = "flush"
      BY <1>1, <1>4, <2>1
    <3>2. /\ comp.inputs \subseteq vs.files /\ comp.out \in pending /\ comp.out \in DOMAIN tables
          /\ comp.out < vs.next /\ comp.out \notin vs.files /\ comp.out \notin DOMAIN pinned
      BY <1>1, <1>3, <3>1 DEF CompactInv
    <3>3. comp.out \notin bg.add
      BY <1>1, <1>3, <3>1 DEF FlushInv
    <3>4. F = vs.files \cup bg.add
      BY <1>4, <3>1 DEF F, AfterEditFiles
    <3> QED
      BY <1>6, <1>12, <3>1, <3>2, <3>3, <3>4
  <2> QED
    BY <1>1, <1>8, <2>1 DEF CompactInv
<1>21. PinnedInv'
  BY <1>1, <1>2, <1>3, <1>8, <1>12 DEF PinnedInv
<1>22. RunInv'
  BY <1>15, <1>16, <1>17, <1>18, <1>19, <1>20, <1>21 DEF RunInv
<1> QED
  BY <1>7, <1>10, <1>11, <1>22 DEF IInv

LEMMA FailEditKeeps == ASSUME IInv, FailEdit PROVE IInv'
<1>1. /\ Running /\ bg # NoEdit /\ bgError' = TRUE
      /\ tables' = tables /\ logs' = logs /\ manifests' = manifests /\ vs' = vs /\ imm' = imm
      /\ bg' = NoEdit /\ pending' = Outputs(bg.kind) /\ comp' = (IF bg.kind = "compact" THEN NoEdit ELSE comp)
      /\ current' = current /\ pc' = pc /\ toReplay' = toReplay /\ edit' = edit /\ mem' = mem
      /\ logfile' = logfile /\ pinned' = pinned /\ UNCHANGED ghosts
      /\ synced' = synced /\ count' = count /\ crashes' = crashes
  BY DEF FailEdit, AfterEdit, DeleteObsoleteFiles, opening, ghosts
<1>2. pc = "open"
  BY <1>1 DEF Running
<1>3. /\ current # 0 /\ TypeInv /\ FilesInv /\ DiskInv /\ IdleInv
      /\ VersionInv /\ MemoryInv /\ OpeningInv /\ PinnedInv
  BY <1>2, OpenFacts
<1>4. TypeInv'
  <2>1. comp' \in {NoEdit} \cup [kind : {"run"}, inputs : SUBSET Nat, out : Nat]
    BY <1>1, <1>3 DEF TypeInv
  <2>2. pending' \subseteq 0 .. MaxNumber
    BY <1>1, <1>3 DEF TypeInv, Outputs
  <2> QED
    BY <1>1, <1>3, <2>1, <2>2 DEF TypeInv, Ups
<1>5. FilesInv' /\ DiskInv'
  <2>1. UNCHANGED <<disk, ghosts>>
    BY <1>1 DEF disk, ghosts
  <2> QED
    BY <1>3, <2>1, DiskSame
<1>6. IdleInv'
  BY <1>1, <1>2, <1>3 DEF IdleInv
<1>7. Recs' = Recs /\ Adds' = Adds /\ Mine' = Mine /\ Ids' = Ids
  BY <1>1 DEF Recs, Adds, Opening, Mine, Ids
<1>8. VersionInv' /\ MemoryInv'
  BY <1>1, <1>3, <1>7 DEF VersionInv, GoodNow, MemoryInv
<1>9. OpeningInv' /\ PinnedInv'
  BY <1>1, <1>2, <1>3 DEF OpeningInv, PinnedInv
<1>10. RecordInv' /\ FlushInv' /\ CompactInv'
  BY <1>1 DEF RecordInv, FlushInv, CompactInv, Running
<1>11. RunInv'
  BY <1>8, <1>9, <1>10 DEF RunInv
<1> QED
  BY <1>4, <1>5, <1>6, <1>11 DEF IInv

LEMMA IteratorKeeps == ASSUME IInv, NewIterator \/ CleanupIteratorState PROVE IInv'
<1>1. /\ pc = "open" /\ UNCHANGED <<disk, ghosts>>
      /\ pinned' = [n \in vs.files |-> tables[n]] \/ pinned' = <<>>
      /\ tables' = tables /\ logs' = logs /\ manifests' = manifests /\ vs' = vs /\ imm' = imm
      /\ bg' = bg /\ pending' = pending /\ comp' = comp /\ bgError' = bgError
      /\ current' = current /\ pc' = pc /\ toReplay' = toReplay /\ edit' = edit /\ mem' = mem
      /\ logfile' = logfile /\ synced' = synced /\ count' = count /\ crashes' = crashes
  BY DEF NewIterator, CleanupIteratorState, IInv, IdleInv, opening, memory, disk, ghosts
<1>2. /\ current # 0 /\ TypeInv /\ FilesInv /\ DiskInv /\ IdleInv
      /\ VersionInv /\ MemoryInv /\ OpeningInv /\ RecordInv /\ FlushInv /\ CompactInv /\ PinnedInv
      /\ Mine = vs.files
  BY <1>1, OpenFacts
<1>3. DOMAIN pinned' \subseteq vs.files /\ \A n \in DOMAIN pinned' : pinned'[n] = tables[n]
  <2>1. DOMAIN <<>> = {}
    OBVIOUS
  <2> QED
    BY <1>1, <2>1
<1>4. TypeInv'
  BY <1>1, <1>2 DEF TypeInv, Ups
<1>5. FilesInv' /\ DiskInv'
  BY <1>1, <1>2, DiskSame
<1>6. IdleInv'
  BY <1>1, <1>2 DEF IdleInv
<1>7. Recs' = Recs /\ Adds' = Adds /\ Mine' = Mine /\ Ids' = Ids
  BY <1>1 DEF Recs, Adds, Opening, Mine, Ids
<1>8. VersionInv' /\ MemoryInv' /\ OpeningInv'
  BY <1>1, <1>2, <1>7 DEF VersionInv, GoodNow, MemoryInv, OpeningInv
<1>9. RecordInv' /\ FlushInv'
  BY <1>1, <1>2, <1>7 DEF RecordInv, FlushInv, Running, Settled, Matches, AfterEditFiles
<1>10. CompactInv'
  BY <1>1, <1>2, <1>3 DEF CompactInv, Running
<1>11. PinnedInv'
  BY <1>1, <1>2, <1>3 DEF PinnedInv, VersionInv
<1>12. RunInv'
  BY <1>8, <1>9, <1>10, <1>11 DEF RunInv
<1> QED
  BY <1>4, <1>5, <1>6, <1>12 DEF IInv

LEMMA SwitchMemTableKeeps == ASSUME IInv, SwitchMemTable PROVE IInv'
<1>1. /\ Running /\ mem # {} /\ imm = {} /\ vs.next < MaxNumber
      /\ imm' = mem /\ mem' = {} /\ logfile' = vs.next
      /\ logs' = [m \in DOMAIN logs \cup {vs.next} |-> IF m = vs.next THEN File(<<>>, 0) ELSE logs[m]]
      /\ vs' = [vs EXCEPT !.next = vs.next + 1]
      /\ tables' = tables /\ manifests' = manifests /\ current' = current /\ pc' = pc /\ toReplay' = toReplay
      /\ edit' = edit /\ pending' = pending /\ bg' = bg
      /\ comp' = comp /\ pinned' = pinned /\ bgError' = bgError /\ UNCHANGED ghosts
      /\ synced' = synced /\ count' = count /\ crashes' = crashes
  BY DEF SwitchMemTable, Put, opening, background, ghosts
<1>2. pc = "open" /\ bgError = FALSE
  BY <1>1 DEF Running, IInv, TypeInv
<1>3. /\ current # 0 /\ TypeInv /\ FilesInv /\ DiskInv /\ IdleInv
      /\ VersionInv /\ MemoryInv /\ OpeningInv /\ RecordInv /\ FlushInv /\ CompactInv /\ PinnedInv
      /\ vs \in Versions /\ vs.next \in Nat /\ vs.last \in Nat /\ vs.log \in Nat /\ vs.files \in SUBSET Nat
      /\ vs.manifest = current /\ Mine = vs.files /\ Adds = {} /\ toReplay = {} /\ logfile # 0
      /\ logfile \in DOMAIN logs /\ mem = Range(logs[logfile].recs)
      /\ \A n \in DOMAIN logs : n <= logfile /\ n < vs.next /\ n \in Nat
      /\ vs.files \subseteq DOMAIN tables /\ \A n \in DOMAIN tables : n \in Nat
      /\ current \in DOMAIN manifests
  BY <1>2, OpenFacts
<1>4. /\ vs' \in Versions /\ vs'.next = vs.next + 1 /\ vs'.files = vs.files /\ vs'.log = vs.log
      /\ vs'.last = vs.last /\ vs'.manifest = vs.manifest /\ vs.next + 1 \in Nat
  BY <1>1, <1>3 DEF Versions
<1>5. /\ \A n \in DOMAIN logs : n \in DOMAIN logs' /\ logs'[n] = logs[n]
      /\ DOMAIN logs' = DOMAIN logs \cup {vs.next}
      /\ logs'[vs.next].recs = <<>> /\ logs'[vs.next].synced = 0
      /\ vs.next \notin DOMAIN logs
  BY <1>1, <1>3 DEF File
<1>6. Range(<<>>) = {} /\ <<>> \in Seq(Ups) /\ Len(<<>>) = 0
  BY DEF Range
<1>7. TypeInv'
  BY <1>1, <1>3, <1>4 DEF TypeInv, Ups
<1>8. FilesInv'
  <2>1. vs.next \in 1 .. MaxNumber - 1
    BY <1>1, <1>3 DEF VersionInv, Versions
  <2>2. 0 \in 0 .. 0
    OBVIOUS
  <2>3. \A n \in DOMAIN logs' : /\ n \in 1 .. MaxNumber - 1 /\ logs'[n].recs \in Seq(Ups)
                                /\ logs'[n].synced \in 0 .. Len(logs'[n].recs)
    BY <1>3, <1>5, <1>6, <2>1, <2>2 DEF FilesInv
  <2> QED
    BY <1>1, <1>3, <2>3 DEF FilesInv, Ups
<1>9. DiskInv'
  <2>1. \A k \in Readable(manifests[current]) : \A n \in FilesAt(Recs, k) :
            n \in DOMAIN tables' /\ tables'[n] = tables[n]
    BY <1>1, RunningRecords
  <2>2. \A n \in DOMAIN logs' : n \in DOMAIN logs \/ Range(logs'[n].recs) = {}
    BY <1>5, <1>6
  <2> QED
    BY <1>1, <1>3, <1>5, <2>1, <2>2, DiskGrows
<1>10. IdleInv'
  BY <1>1, <1>2, <1>3 DEF IdleInv
<1>11. Recs' = Recs /\ Adds' = {} /\ Mine' = vs.files /\ Ids' = Ids
  BY <1>1, <1>2, <1>4 DEF Recs, Adds, Opening, Mine, Ids
<1>12. Good(tables, logs', synced, Ids, vs.files, vs.log, vs.last) /\ LogOf(logs', vs.log) = LogOf(logs, vs.log)
  <2>1. Good(tables, logs, synced, Ids, vs.files, vs.log, vs.last)
    BY <1>3 DEF VersionInv, GoodNow
  <2>2. \A m \in vs.files : m \in DOMAIN tables /\ tables[m] = tables[m]
    BY <1>3
  <2>3. /\ \A m \in From(logs, vs.log) : m \in DOMAIN logs' /\ logs'[m] = logs[m]
        /\ \A m \in From(logs', vs.log) : m \in DOMAIN logs \/ Range(logs'[m].recs) = {}
    BY <1>5, <1>6 DEF From
  <2> QED
    BY <2>1, <2>2, <2>3, GoodStays
<1>13. VersionInv'
  <2>1. GoodNow(vs.files, vs.log, vs.last)'
    BY <1>1, <1>4, <1>11, <1>12 DEF GoodNow
  <2>2. Len(Recs) \in 1 .. Len(Recs)
    BY <1>3, DescriptorFacts
  <2>3. Recs[Len(Recs)].next \in Nat /\ Recs[Len(Recs)].next <= vs.next /\ Recs[Len(Recs)].last <= vs.last
    BY <1>3, <2>2, DescriptorFacts DEF Edits, VersionInv
  <2>4. \A n \in vs.files : n \in Nat /\ n < vs.next + 1
    BY <1>3 DEF VersionInv
  <2>5. /\ vs.last <= count /\ 0 < vs.manifest /\ vs.manifest < vs.next + 1 /\ vs.log < vs.next + 1
        /\ Recs[Len(Recs)].next <= vs.next + 1 /\ vs.next + 1 <= MaxNumber /\ vs.next + 1 <= MaxNumber + 1
    <3>1. vs.last <= count /\ 0 < vs.manifest /\ vs.manifest < vs.next /\ vs.log < vs.next /\ vs.manifest \in Nat
      BY <1>3 DEF VersionInv, Versions
    <3> QED
      BY <1>1, <1>3, <2>3, <3>1
  <2> QED
    BY <1>1, <1>3, <1>4, <1>11, <2>1, <2>3, <2>4, <2>5 DEF VersionInv
<1>14. MemoryInv'
  <2>1. /\ \A u \in Held(tables, vs.files) \cup mem \cup imm : u.seq <= vs.last
        /\ mem \cup imm \subseteq LogOf(logs, vs.log)
        /\ \A n \in From(logs, vs.log) \ {logfile} : Range(logs[n].recs) \subseteq Held(tables, vs.files) \cup imm
    BY <1>3 DEF MemoryInv
  <2>2. vs.log < vs.next
    BY <1>3 DEF VersionInv
  <2>3. vs.next \in From(logs', vs.log)
    BY <1>3, <1>5, <2>2 DEF From
  <2>4. ASSUME NEW n \in From(logs', vs.log) \ {vs.next}
        PROVE  Range(logs'[n].recs) \subseteq Held(tables, vs.files) \cup mem
    <3>1. n \in From(logs, vs.log) /\ logs'[n] = logs[n]
      BY <1>5 DEF From
    <3> QED
      BY <1>1, <1>3, <2>1, <3>1
  <2>5. \A n \in DOMAIN logs' : n < vs.next + 1 /\ n <= vs.next
    BY <1>3, <1>5
  <2>6. Held(tables, {}) = {}
    BY DEF Held
  <2>7. vs.next # 0
    BY <1>3, <2>2
  <2>8. /\ \A u \in Held(tables', Mine') \cup mem' \cup imm' : u.seq <= vs'.last
        /\ mem' \cup imm' \cup Held(tables', Adds') \subseteq LogOf(logs', vs'.log)
    BY <1>1, <1>4, <1>11, <1>12, <2>1, <2>6
  <2>9. \A n \in From(logs', vs'.log) \ (toReplay' \cup {logfile'}) :
            Range(logs'[n].recs) \subseteq Held(tables', Mine') \cup imm'
    BY <1>1, <1>3, <1>4, <1>11, <2>4
  <2>10. /\ toReplay' = {} /\ \A n \in DOMAIN logs' : n < vs'.next /\ n <= logfile'
         /\ logfile' \in From(logs', vs'.log) /\ logfile' # 0
         /\ mem' = Range(logs'[logfile'].recs)
    BY <1>1, <1>3, <1>4, <1>5, <1>6, <2>3, <2>5, <2>7
  <2> QED
    BY <2>8, <2>9, <2>10 DEF MemoryInv
<1>15. OpeningInv'
  BY <1>1, <1>2, <1>3, <1>4 DEF OpeningInv
<1>16. RecordInv'
  BY <1>1, <1>3, <1>4, <1>11 DEF RecordInv, Running, Settled, Matches, AfterEditFiles
<1>17. FlushInv'
  BY <1>1, <1>3 DEF FlushInv, Running
<1>18. CompactInv'
  <2>1. ASSUME Running, comp # NoEdit PROVE comp.out < vs.next + 1
    BY <1>3, <2>1 DEF CompactInv
  <2> QED
    BY <1>1, <1>3, <1>4, <2>1 DEF CompactInv, Running
<1>19. PinnedInv'
  <2>1. \A n \in DOMAIN pinned : n < vs.next + 1
    BY <1>2, <1>3 DEF PinnedInv
  <2> QED
    BY <1>1, <1>2, <1>3, <1>4, <2>1 DEF PinnedInv
<1>20. RunInv'
  BY <1>13, <1>14, <1>15, <1>16, <1>17, <1>18, <1>19 DEF RunInv
<1> QED
  BY <1>7, <1>8, <1>9, <1>10, <1>20 DEF IInv

-----------------------------------------------------------------------------
(* The properties. *)

LEMMA NextKeeps == ASSUME IInv, Covered, [Next]_vars PROVE IInv'
<1>1. CASE NewDB
  BY <1>1, NewDBKeeps
<1>2. CASE SetCurrentFile
  BY <1>2, SetCurrentFileKeeps
<1>3. CASE Recover
  BY <1>3, RecoverKeeps
<1>4. CASE ReplayLog
  BY <1>4, ReplayLogKeeps
<1>5. CASE NewLog
  BY <1>5, NewLogKeeps
<1>6. CASE SaveManifest
  BY <1>6, SaveManifestKeeps
<1>7. CASE PointCurrent
  BY <1>7, PointCurrentKeeps
<1>8. CASE SaveFails
  BY <1>8, SaveFailsKeeps
<1>9. CASE Install
  BY <1>9, InstallKeeps
<1>10. CASE Opened
  BY <1>10, OpenedKeeps
<1>11. CASE \E sync \in BOOLEAN : Write(sync)
  BY <1>11, WriteKeeps
<1>12. CASE SwitchMemTable
  BY <1>12, SwitchMemTableKeeps
<1>13. CASE WriteLevel0Table
  BY <1>13, WriteLevel0TableKeeps
<1>14. CASE \E inputs \in SUBSET vs.files \ {{}} : OpenCompactionOutputFile(inputs)
  BY <1>14, OpenCompactionOutputFileKeeps
<1>15. CASE FinishCompactionOutputFile
  BY <1>15, FinishCompactionOutputFileKeeps
<1>16. CASE LogEdit
  BY <1>16, LogEditKeeps
<1>17. CASE CommitEdit
  BY <1>17, CommitEditKeeps
<1>18. CASE FailEdit
  BY <1>18, FailEditKeeps
<1>19. CASE NewIterator \/ CleanupIteratorState
  BY <1>19, IteratorKeeps
<1>20. CASE ProcessEnds
  BY <1>20, ProcessEndsKeeps
<1>21. CASE PowerLoss
  BY <1>21, PowerLossKeeps
<1>22. CASE UNCHANGED vars
  <2>1. /\ UNCHANGED <<disk, ghosts>> /\ tables' = tables /\ logs' = logs /\ manifests' = manifests /\ vs' = vs
        /\ imm' = imm /\ bg' = bg /\ pending' = pending /\ comp' = comp /\ bgError' = bgError
        /\ current' = current /\ pc' = pc /\ toReplay' = toReplay /\ edit' = edit /\ mem' = mem
        /\ logfile' = logfile /\ pinned' = pinned /\ synced' = synced /\ count' = count /\ crashes' = crashes
    BY <1>22 DEF vars, disk, opening, memory, background, ghosts
  <2>2. TypeInv' /\ IdleInv'
    BY <2>1 DEF IInv, TypeInv, IdleInv, Idle, Ups
  <2>3. FilesInv' /\ DiskInv'
    BY <2>1, DiskSame DEF IInv
  <2>4. Recs' = Recs /\ Adds' = Adds /\ Mine' = Mine /\ Ids' = Ids
    BY <2>1 DEF Recs, Adds, Opening, Mine, Ids
  <2>5. RunInv'
    <3>1. VersionInv' = VersionInv /\ MemoryInv' = MemoryInv
      BY <2>1, <2>4 DEF VersionInv, GoodNow, MemoryInv
    <3>2. OpeningInv' = OpeningInv /\ RecordInv' = RecordInv
      BY <2>1, <2>4 DEF OpeningInv, RecordInv, Settled, Matches, AfterEditFiles, Running, EditOf
    <3>3. FlushInv' = FlushInv /\ CompactInv' = CompactInv /\ PinnedInv' = PinnedInv /\ Active' = Active
      BY <2>1 DEF FlushInv, CompactInv, PinnedInv, Running, Active
    <3> QED
      BY <3>1, <3>2, <3>3 DEF IInv, RunInv
  <2> QED
    BY <2>2, <2>3, <2>5 DEF IInv
<1> QED
  BY <1>1, <1>2, <1>3, <1>4, <1>5, <1>6, <1>7, <1>8, <1>9, <1>10, <1>11, <1>12, <1>13, <1>14, <1>15,
     <1>16, <1>17, <1>18, <1>19, <1>20, <1>21, <1>22 DEF Next

LEMMA FilesIntactFollows == ASSUME IInv PROVE FilesIntact
<1>1. TypeInv /\ FilesInv /\ DiskInv /\ IdleInv /\ pc \in Pcs
  BY DEF IInv, TypeInv
<1>2. Ups \subseteq Updates /\ count \in Nat /\ count <= MaxWrites
  <2>1. count \in Nat /\ count <= MaxWrites
    BY <1>1 DEF TypeInv
  <2>2. 1 .. count \subseteq 1 .. MaxWrites
    BY <2>1
  <2> QED
    BY <2>1, <2>2 DEF Ups, Updates
<1>3. 0 .. MaxNumber \subseteq Numbers /\ 0 \in Numbers /\ 2 \in Numbers
  BY DEF Numbers
<1>4. /\ \A n \in DOMAIN tables : n \in Numbers /\ tables[n] \subseteq Updates
      /\ DOMAIN manifests \subseteq Numbers /\ current \in Numbers
  <2>1. current # 0 => current \in DOMAIN manifests
    BY <1>1 DEF DiskInv
  <2> QED
    BY <1>1, <1>2, <1>3, <2>1 DEF FilesInv
<1>5. \A n \in DOMAIN logs : n \in Numbers /\ logs[n].recs \in Seq(Updates)
  <2>1. ASSUME NEW n \in DOMAIN logs PROVE n \in Numbers /\ logs[n].recs \in Seq(Updates)
    <3>1. n \in 1 .. MaxNumber - 1 /\ logs[n].recs \in Seq(Ups)
      BY <1>1 DEF FilesInv
    <3>2. n \in 0 .. MaxNumber
      BY <3>1
    <3> QED
      BY <1>2, <1>3, <3>1, <3>2
  <2> QED
    BY <2>1
<1>6. synced \subseteq Updates /\ pending \subseteq Numbers
  BY <1>1, <1>2, <1>3 DEF TypeInv
<1>7. /\ logfile \in Numbers /\ vs.files \subseteq Numbers /\ vs.last \in 0 .. MaxWrites /\ vs.next \in Numbers
      /\ mem \cup imm \subseteq Updates
  <2>1. CASE Active
    <3>1. VersionInv /\ MemoryInv /\ vs \in Versions
      BY <2>1, ActiveFacts
    <3>2. logfile \in Numbers
      BY <1>3, <1>5, <3>1 DEF MemoryInv, From
    <3>3. vs.files \subseteq Numbers
      BY <1>4, <3>1 DEF VersionInv, Mine
    <3>4. vs.last \in 0 .. MaxWrites /\ vs.next \in Numbers
      BY <1>2, <3>1 DEF VersionInv, Versions, Numbers
    <3>5. mem \cup imm \subseteq Updates
      BY <1>1, <1>2, <3>1 DEF MemoryInv, LogOf, From, FilesInv, Range
    <3> QED
      BY <3>2, <3>3, <3>4, <3>5
  <2>2. CASE ~Active
    <3>1. Idle /\ imm = {}
      BY <1>1, <2>2 DEF IdleInv, Active, Pcs
    <3>2. vs.files = {} /\ vs.last = 0 /\ vs.next = 2 /\ logfile = 0 /\ mem = {}
      BY <3>1 DEF Idle, NoVersions
    <3> QED
      BY <1>3, <3>1, <3>2
  <2> QED
    BY <2>1, <2>2
<1>8. RecoveryTypeOK
  BY <1>4, <1>5, <1>6, <1>7 DEF RecoveryTypeOK
<1>9. NeverRefused
  BY <1>1 DEF NeverRefused, Pcs
<1>10. PinnedIntact
  <2>1. CASE pc = "open"
    BY <2>1, OpenFacts DEF PinnedInv, PinnedIntact
  <2>2. CASE pc # "open"
    <3>1. DOMAIN pinned = {}
      BY <1>1, <2>2 DEF IdleInv
    <3> QED
      BY <3>1 DEF PinnedIntact
  <2> QED
    BY <2>1, <2>2
<1> QED
  BY <1>8, <1>9, <1>10 DEF FilesIntact

LEMMA UpdatesSurviveFollows == ASSUME IInv PROVE UpdatesSurvive
<1> SUFFICES ASSUME pc = "open"
             PROVE  /\ synced \subseteq Contents
                    /\ crashes = 0 => \A i \in 1 .. count : \E u \in Contents : u.id = i
                    /\ \A u \in Contents : u.seq <= vs.last
                    /\ \A u, v \in Contents : u.seq = v.seq => u = v
  BY DEF UpdatesSurvive, SyncedSurvive, KillLosesNothing, SequencesFresh
<1>1. /\ FilesInv /\ VersionInv /\ MemoryInv /\ Mine = vs.files /\ Adds = {} /\ toReplay = {}
      /\ vs.files \subseteq DOMAIN tables /\ mem = Range(logs[logfile].recs)
  BY OpenFacts
<1>2. Contents = Held(tables, vs.files) \cup mem \cup imm
  BY <1>1 DEF Contents, Held
<1>3. Good(tables, logs, synced, Ids, vs.files, vs.log, vs.last)
  BY <1>1 DEF VersionInv, GoodNow
<1>4. Held(tables, vs.files) \cup LogOf(logs, vs.log) = Contents
  <2>1. \A n \in From(logs, vs.log) : Range(logs[n].recs) \subseteq Contents
    BY <1>1, <1>2 DEF MemoryInv
  <2>2. LogOf(logs, vs.log) \subseteq Contents
    BY <2>1 DEF LogOf
  <2>3. mem \cup imm \subseteq LogOf(logs, vs.log)
    BY <1>1 DEF MemoryInv
  <2> QED
    BY <1>2, <2>2, <2>3
<1>5. SureOf(logs, vs.log) \subseteq LogOf(logs, vs.log)
  <2>1. \A n \in From(logs, vs.log) : Sure(logs[n]) \subseteq Range(logs[n].recs)
    BY <1>1 DEF From, FilesInv, Sure, Range
  <2> QED
    BY <2>1 DEF SureOf, LogOf
<1>6. synced \subseteq Contents
  BY <1>3, <1>4, <1>5 DEF Good
<1>7. crashes = 0 => \A i \in 1 .. count : \E u \in Contents : u.id = i
  BY <1>3, <1>4 DEF Good, Ids
<1>8. \A u, v \in Contents : u.seq = v.seq => u = v
  BY <1>3, <1>4 DEF Good
<1>9. \A u \in Contents : u.seq <= vs.last
  BY <1>1, <1>2 DEF MemoryInv
<1> QED
  BY <1>6, <1>7, <1>8, <1>9

\* The inductive invariant holds of every behaviour.
LEMMA Invariance == ASSUME Covered PROVE Spec => []IInv
<1>1. Init => IInv
  BY InitIInv
<1>2. IInv /\ [Next]_vars => IInv'
  BY NextKeeps
<1> QED
  BY <1>1, <1>2, PTL DEF Spec

\* However often the process is killed or, under Covered, power fails, CURRENT
\* names a descriptor that DB::Open can read, every table it lists is there
\* (version_set.cc:907-1025), and so is every table of a version that an iterator
\* holds (db_impl.cc:218-272).
THEOREM FilesIntactHolds == ASSUME Covered PROVE Spec => []FilesIntact
<1>1. IInv => FilesIntact
  BY FilesIntactFollows
<1> QED
  BY <1>1, Invariance, PTL

\* The open database has every update that was written with sync, and every
\* update at all until power fails, and never gives a sequence number out twice
\* (db_impl.cc:284-486).
THEOREM UpdatesSurviveHolds == ASSUME Covered PROVE Spec => []UpdatesSurvive
<1>1. IInv => UpdatesSurvive
  BY UpdatesSurviveFollows
<1> QED
  BY <1>1, Invariance, PTL

-----------------------------------------------------------------------------
(* PosixFiles: the lock. *)

LockTypes ==
    /\ lockedFiles \in [Processes -> BOOLEAN] /\ osLock \in Processes \cup {None} /\ dropped \subseteq Processes
    /\ holder \in [Threads -> {"idle", "opened", "inserted", "remove", "holds", "unlocked", "removed"}]

\* The name is in a process's table exactly when one of its threads put it there.
Named(t) == holder[t] \in {"inserted", "remove", "holds", "unlocked"}
InTable ==
    /\ \A t \in Threads : Named(t) => lockedFiles[ProcessOf[t]] = TRUE
    /\ \A t, u \in Threads : Named(t) /\ Named(u) /\ ProcessOf[t] = ProcessOf[u] => t = u
    /\ \A p \in Processes : lockedFiles[p] = TRUE => \E t \in Threads : Named(t) /\ ProcessOf[t] = p

\* The system's lock is that of a thread that holds it; it is lost only by a close
\* of another thread of the process.
OsLockHeld ==
    /\ osLock # None => \E t \in Threads : holder[t] = "holds" /\ ProcessOf[t] = osLock
    /\ \A t \in Threads : holder[t] = "holds" => osLock = ProcessOf[t] \/ ProcessOf[t] \in dropped

LockInv == LockTypes /\ InTable /\ OsLockHeld

\* Every step of LockFile and UnlockFile and every exit keeps the invariant.
LEMMA LockInvKept == ASSUME LockAssumption, LockInv, [LockNext]_lockVars PROVE LockInv'
<1> USE DEF LockAssumption, LockInv
<1>0. \A t \in Threads : ProcessOf[t] \in Processes /\ ProcessOf[t] # None
  BY DEF None
<1>1. LockTypes'
  <2>1. CASE UNCHANGED lockVars
    BY <2>1 DEF LockTypes, lockVars
  <2>2. ASSUME NEW t \in Threads, OpenFile(t) \/ Insert(t) \/ HeldByProcess(t) \/ SetLock(t) \/ HeldByOther(t)
        PROVE LockTypes'
    BY <1>0, <2>2 DEF LockTypes, OpenFile, Insert, HeldByProcess, SetLock, HeldByOther, Moves, Close, CloseOther
  <2>3. ASSUME NEW t \in Threads, RemoveName(t) \/ Unlock(t) \/ UnlockRemove(t) \/ UnlockClose(t)
        PROVE LockTypes'
    BY <1>0, <2>3 DEF LockTypes, RemoveName, Unlock, UnlockRemove, UnlockClose, Moves, Close, CloseOther
  <2>4. ASSUME NEW p \in Processes, Exit(p) PROVE LockTypes'
    BY <2>4 DEF LockTypes, Exit, Close
  <2> QED
    BY <2>1, <2>2, <2>3, <2>4 DEF LockNext
<1>2. ASSUME NEW t \in Threads, NEW from, NEW to, Moves(t, from, to)
      PROVE  holder[t] = from /\ holder'[t] = to /\ \A u \in Threads \ {t} : holder'[u] = holder[u]
  BY <1>2 DEF Moves, LockTypes
<1>3. InTable'
  <2>1. CASE UNCHANGED lockVars
    BY <2>1 DEF InTable, Named, lockVars
  <2>2. ASSUME NEW t \in Threads, OpenFile(t) \/ HeldByProcess(t) \/ SetLock(t) \/ HeldByOther(t) \/ Unlock(t)
                                  \/ UnlockClose(t)
        PROVE InTable'
    <3>1. lockedFiles' = lockedFiles /\ \A u \in Threads : Named(u)' <=> Named(u)
      BY <1>2, <2>2 DEF OpenFile, HeldByProcess, SetLock, HeldByOther, Unlock, UnlockClose, Named
    <3> QED
      BY <3>1 DEF InTable
  <2>3. ASSUME NEW t \in Threads, Insert(t) PROVE InTable'
    <3>1. /\ lockedFiles[ProcessOf[t]] = FALSE /\ lockedFiles' = [lockedFiles EXCEPT ![ProcessOf[t]] = TRUE]
          /\ Named(t)' /\ \A u \in Threads \ {t} : Named(u)' <=> Named(u)
      BY <1>0, <1>2, <2>3 DEF Insert, Named, LockTypes
    <3> QED
      BY <1>0, <3>1 DEF InTable, LockTypes
  <2>4. ASSUME NEW t \in Threads, RemoveName(t) \/ UnlockRemove(t) PROVE InTable'
    <3>1. /\ Named(t) /\ lockedFiles' = [lockedFiles EXCEPT ![ProcessOf[t]] = FALSE]
          /\ ~Named(t)' /\ \A u \in Threads \ {t} : Named(u)' <=> Named(u)
      BY <1>2, <2>4 DEF RemoveName, UnlockRemove, Named
    <3> QED
      BY <1>0, <3>1 DEF InTable, LockTypes
  <2>5. ASSUME NEW p \in Processes, Exit(p) PROVE InTable'
    <3>1. /\ lockedFiles' = [lockedFiles EXCEPT ![p] = FALSE]
          /\ \A u \in Threads : Named(u)' <=> Named(u) /\ ProcessOf[u] # p
      BY <2>5 DEF Exit, Named
    <3> QED
      BY <1>0, <3>1 DEF InTable, LockTypes
  <2> QED
    BY <2>1, <2>2, <2>3, <2>4, <2>5 DEF LockNext
<1>4. OsLockHeld'
  <2>1. CASE UNCHANGED lockVars
    BY <2>1 DEF OsLockHeld, lockVars
  <2>2. ASSUME NEW t \in Threads, OpenFile(t) \/ Insert(t) \/ RemoveName(t) \/ UnlockRemove(t)
        PROVE OsLockHeld'
    <3>1. osLock' = osLock /\ dropped' = dropped /\ \A u \in Threads : holder'[u] = "holds" <=> holder[u] = "holds"
      BY <1>2, <2>2 DEF OpenFile, Insert, RemoveName, UnlockRemove
    <3> QED
      BY <3>1 DEF OsLockHeld
  <2>3. ASSUME NEW t \in Threads, HeldByProcess(t) \/ UnlockClose(t)
        PROVE OsLockHeld'
    <3>1. /\ osLock' = IF osLock = ProcessOf[t] THEN None ELSE osLock
          /\ dropped' = dropped \cup ({ProcessOf[t]} \cap {osLock})
          /\ holder[t] # "holds" /\ holder'[t] # "holds"
          /\ \A u \in Threads \ {t} : holder'[u] = holder[u]
      BY <1>2, <2>3 DEF HeldByProcess, UnlockClose, Close, CloseOther
    <3>2. osLock' # None => osLock' = osLock /\ osLock # ProcessOf[t]
      BY <3>1
    <3>3. \A u \in Threads : holder'[u] = "holds" <=> holder[u] = "holds"
      BY <3>1
    <3>4. osLock' # None => \E u \in Threads : holder'[u] = "holds" /\ ProcessOf[u] = osLock'
      BY <3>2, <3>3 DEF OsLockHeld
    <3>5. ASSUME NEW u \in Threads, holder[u] = "holds"
          PROVE  osLock' = ProcessOf[u] \/ ProcessOf[u] \in dropped'
      BY <3>1, <3>5 DEF OsLockHeld
    <3> QED
      BY <3>3, <3>4, <3>5 DEF OsLockHeld
  <2>6. ASSUME NEW t \in Threads, HeldByOther(t) \/ Unlock(t)
        PROVE OsLockHeld'
    <3>1. /\ osLock' = IF osLock = ProcessOf[t] THEN None ELSE osLock
          /\ dropped' = dropped
          /\ holder'[t] # "holds" /\ \A u \in Threads \ {t} : holder'[u] = holder[u]
      BY <1>2, <2>6 DEF HeldByOther, Unlock, Close
    <3>2. osLock = ProcessOf[t] => holder[t] = "holds"
      BY <1>2, <2>6 DEF HeldByOther, Unlock
    <3>3. ASSUME NEW u \in Threads \ {t}, holder[u] = "holds", osLock = ProcessOf[t]
          PROVE  ProcessOf[u] # ProcessOf[t]
      BY <3>2, <3>3 DEF InTable, Named
    <3>4. ASSUME osLock' # None
          PROVE  \E u \in Threads : holder'[u] = "holds" /\ ProcessOf[u] = osLock'
      <4>1. osLock' = osLock /\ osLock # ProcessOf[t]
        BY <3>1, <3>4
      <4>2. PICK u \in Threads : holder[u] = "holds" /\ ProcessOf[u] = osLock
        BY <3>4, <4>1 DEF OsLockHeld
      <4> QED
        BY <3>1, <4>1, <4>2
    <3>5. ASSUME NEW u \in Threads, holder'[u] = "holds"
          PROVE  osLock' = ProcessOf[u] \/ ProcessOf[u] \in dropped'
      <4>1. u # t /\ holder[u] = "holds"
        BY <3>1, <3>5
      <4> QED
        BY <3>1, <3>3, <4>1 DEF OsLockHeld
    <3> QED
      BY <3>4, <3>5 DEF OsLockHeld
  <2>4. ASSUME NEW t \in Threads, SetLock(t) PROVE OsLockHeld'
    <3>1. /\ osLock \in {None, ProcessOf[t]} /\ osLock' = ProcessOf[t]
          /\ dropped' = dropped \ {ProcessOf[t]}
          /\ holder'[t] = "holds" /\ \A u \in Threads \ {t} : holder'[u] = holder[u]
      BY <1>2, <2>4 DEF SetLock
    <3> QED
      BY <1>0, <3>1 DEF OsLockHeld
  <2>5. ASSUME NEW p \in Processes, Exit(p) PROVE OsLockHeld'
    BY <1>0, <2>5 DEF OsLockHeld, Exit, Close
  <2> QED
    BY <2>1, <2>2, <2>3, <2>4, <2>5, <2>6 DEF LockNext
<1> QED
  BY <1>1, <1>3, <1>4

LEMMA LockInvHolds == ASSUME LockAssumption PROVE LockSpec => []LockInv
<1>1. LockInit => LockInv
  BY DEF LockAssumption, LockInit, LockInv, LockTypes, InTable, Named, OsLockHeld, None
<1> QED
  BY <1>1, LockInvKept, PTL DEF LockSpec

\* However the threads belong to processes, no two callers hold the lock, except
\* those of two processes after another call of one of them closed the file
\* (env_posix.cc:464-496).
THEOREM OneHolderHolds == ASSUME LockAssumption PROVE LockSpec => []OneHolder
<1>1. ASSUME LockInv, NEW t \in Threads, NEW u \in Threads,
             holder[t] = "holds", holder[u] = "holds", t # u
      PROVE  ProcessOf[t] # ProcessOf[u] /\ {ProcessOf[t], ProcessOf[u]} \cap dropped # {}
  <2>1. ProcessOf[t] # ProcessOf[u]
    BY <1>1 DEF LockInv, InTable, Named
  <2>2. ProcessOf[t] \in dropped \/ ProcessOf[u] \in dropped
    BY <1>1, <2>1 DEF LockInv, OsLockHeld
  <2> QED
    BY <2>1, <2>2
<1>2. LockInv => OneHolder
  BY <1>1 DEF OneHolder
<1> QED
  BY <1>2, LockInvHolds, PTL

\* Nothing is left of a lock that was given up or refused (464-496), however the
\* threads belong to processes.
THEOREM FreeWhenIdleHolds == ASSUME LockAssumption PROVE LockSpec => []FreeWhenIdle
<1>1. LockInv => FreeWhenIdle
  BY DEF LockInv, LockTypes, InTable, Named, OsLockHeld, FreeWhenIdle
<1> QED
  BY <1>1, LockInvHolds, PTL

-----------------------------------------------------------------------------
(* The limits. *)

\* A limiter's places are free or taken by a mapping or a kept descriptor.
At(S) == {u \in Users : user[u] \in S}
States == {"none", "mmap", "pread", "mapping", "mapped", "asks", "open", "temporary", "reading"}
Mapping == {"mapping", "mapped"}
Kept == {"open"}
Mapped == {"mapped"}
Described == {"mmap", "pread", "mapping", "asks", "open", "reading"}
OpenFilesInv ==
    /\ allowed \in [Limiters -> Nat]
    /\ user \in [Users -> States]
    /\ allowed["mmap"] + Cardinality(At(Mapping)) = MaxMmaps
    /\ allowed["fd"] + Cardinality(At(Kept)) = MaxOpenFiles
    /\ maps = At(Mapped)
    /\ descriptors = At(Described)

\* A step of one user moves it from one set to another.
LEMMA Moved ==
  ASSUME LimitsAssumption, NEW u \in Users, NEW from, NEW to, NEW S, Goes(u, from, to), DOMAIN user = Users
  PROVE  /\ Cardinality(At(S)) \in Nat /\ Cardinality(At(S)') \in Nat
         /\ from \in S /\ to \in S => At(S)' = At(S)
         /\ from \notin S /\ to \notin S => At(S)' = At(S)
         /\ from \in S /\ to \notin S => At(S)' = At(S) \ {u} /\ Cardinality(At(S)') = Cardinality(At(S)) - 1
         /\ from \notin S /\ to \in S => At(S)' = At(S) \cup {u} /\ Cardinality(At(S)') = Cardinality(At(S)) + 1
<1>1. user[u] = from /\ user'[u] = to /\ \A v \in Users \ {u} : user'[v] = user[v]
  BY DEF Goes
<1>2. IsFiniteSet(At(S)) /\ IsFiniteSet(At(S)')
  BY FS_Subset DEF LimitsAssumption, At
<1>3. /\ Cardinality(At(S)) \in Nat /\ Cardinality(At(S)') \in Nat
  BY <1>2, FS_CardinalityType
<1>4. /\ from \in S /\ to \in S => At(S)' = At(S)
      /\ from \notin S /\ to \notin S => At(S)' = At(S)
      /\ from \in S /\ to \notin S => At(S)' = At(S) \ {u} /\ u \in At(S)
      /\ from \notin S /\ to \in S => At(S)' = At(S) \cup {u} /\ u \notin At(S)
  BY <1>1 DEF At
<1> QED
  BY <1>2, <1>3, <1>4, FS_AddElement, FS_RemoveElement

\* Every step of a user keeps the invariant.
LEMMA OpenFilesInvKept == ASSUME LimitsAssumption, OpenFilesInv, [FilesNext]_fileVars PROVE OpenFilesInv'
<1>1. CASE UNCHANGED fileVars
  BY <1>1 DEF OpenFilesInv, fileVars, At
<1>2. ASSUME NEW u \in Users, NEW from, NEW to \in States,
             Goes(u, from, to),
             allowed' \in [Limiters -> Nat],
             allowed'["mmap"] = allowed["mmap"] + (IF from \in Mapping THEN 1 ELSE 0) - (IF to \in Mapping THEN 1 ELSE 0),
             allowed'["fd"] = allowed["fd"] + (IF from \in Kept THEN 1 ELSE 0) - (IF to \in Kept THEN 1 ELSE 0),
             maps' = At(Mapped)', descriptors' = At(Described)'
      PROVE  OpenFilesInv'
  <2>1. DOMAIN user = Users /\ user' \in [Users -> States]
    BY <1>2 DEF OpenFilesInv, Goes
  <2>2. allowed["mmap"] \in Nat /\ allowed["fd"] \in Nat
    BY DEF OpenFilesInv, Limiters
  <2>3. allowed'["mmap"] + Cardinality(At(Mapping)') = MaxMmaps
    <3>1. Cardinality(At(Mapping)) \in Nat /\ Cardinality(At(Mapping)') \in Nat
      BY <1>2, <2>1, Moved
    <3>2. Cardinality(At(Mapping)') = Cardinality(At(Mapping)) - (IF from \in Mapping THEN 1 ELSE 0) + (IF to \in Mapping THEN 1 ELSE 0)
      BY <1>2, <2>1, <3>1, Moved
    <3> QED
      BY <1>2, <2>2, <3>1, <3>2 DEF OpenFilesInv, LimitsAssumption
  <2>4. allowed'["fd"] + Cardinality(At(Kept)') = MaxOpenFiles
    <3>1. Cardinality(At(Kept)) \in Nat /\ Cardinality(At(Kept)') \in Nat
      BY <1>2, <2>1, Moved
    <3>2. Cardinality(At(Kept)') = Cardinality(At(Kept)) - (IF from \in Kept THEN 1 ELSE 0) + (IF to \in Kept THEN 1 ELSE 0)
      BY <1>2, <2>1, <3>1, Moved
    <3> QED
      BY <1>2, <2>2, <3>1, <3>2 DEF OpenFilesInv, LimitsAssumption
  <2> QED
    BY <1>2, <2>1, <2>3, <2>4 DEF OpenFilesInv
<1>3. ASSUME NEW u \in Users, NEW from, NEW to, Goes(u, from, to), NEW S
      PROVE  /\ from \in S => u \in At(S)
             /\ from \notin S => u \notin At(S)
             /\ to \in S => At(S)' = At(S) \cup {u}
             /\ to \notin S => At(S)' = At(S) \ {u}
             /\ (from \in S <=> to \in S) => At(S)' = At(S)
  <2>1. user[u] = from /\ user'[u] = to /\ \A v \in Users \ {u} : user'[v] = user[v]
    BY <1>3 DEF Goes, OpenFilesInv
  <2> QED
    BY <2>1 DEF At
<1>4. allowed["mmap"] \in Nat /\ allowed["fd"] \in Nat /\ DOMAIN allowed = {"mmap", "fd"}
  BY DEF OpenFilesInv, Limiters
<1>5. ASSUME NEW u \in Users,
             NewRandomAccessFile(u) \/ AskForDescriptor(u) \/ ReadOpens(u) \/ ReadCloses(u) \/ DeleteTemporary(u)
      PROVE  OpenFilesInv'
  <2>1. allowed' = allowed /\ maps' = maps
    BY <1>5 DEF NewRandomAccessFile, AskForDescriptor, ReadOpens, ReadCloses, DeleteTemporary
  <2>2. PICK from \in States \ {"mapping", "mapped", "open"}, to \in States \ {"mapping", "mapped", "open"} :
            /\ Goes(u, from, to)
            /\ descriptors' = IF to \in Described THEN descriptors \cup {u} ELSE descriptors \ {u}
    <3>1. CASE NewRandomAccessFile(u)
      BY <3>1 DEF NewRandomAccessFile, States, Described
    <3>2. CASE AskForDescriptor(u)
      <4>1. descriptors = At(Described)
        BY DEF OpenFilesInv
      <4>2. CASE Allows("fd")
        <5>1. Goes(u, "pread", "asks") /\ descriptors' = descriptors
          BY <3>2, <4>2 DEF AskForDescriptor
        <5>2. "pread" \in Described /\ "asks" \in Described
          BY DEF Described
        <5>3. descriptors \cup {u} = descriptors
          BY <4>1, <5>1, <5>2, <1>3
        <5> QED
          BY <5>1, <5>2, <5>3 DEF States
      <4>3. CASE ~Allows("fd")
        BY <3>2, <4>3 DEF AskForDescriptor, States, Described
      <4> QED
        BY <4>2, <4>3
    <3>3. CASE ReadOpens(u) \/ ReadCloses(u)
      BY <3>3 DEF ReadOpens, ReadCloses, States, Described
    <3>4. CASE DeleteTemporary(u)
      <4>1. descriptors = At(Described)
        BY DEF OpenFilesInv
      <4> QED
        <5>1. Goes(u, "temporary", "none") /\ descriptors' = descriptors
          BY <3>4 DEF DeleteTemporary
        <5>2. "temporary" \notin Described /\ "none" \notin Described
          BY DEF Described
        <5>3. descriptors \ {u} = descriptors
          BY <4>1, <5>1, <5>2, <1>3
        <5> QED
          BY <5>1, <5>2, <5>3 DEF States
    <3> QED
      BY <1>5, <3>1, <3>2, <3>3, <3>4
  <2>3. /\ allowed' \in [Limiters -> Nat]
        /\ allowed'["mmap"] = allowed["mmap"] + (IF from \in Mapping THEN 1 ELSE 0) - (IF to \in Mapping THEN 1 ELSE 0)
        /\ allowed'["fd"] = allowed["fd"] + (IF from \in Kept THEN 1 ELSE 0) - (IF to \in Kept THEN 1 ELSE 0)
    BY <1>4, <2>1, <2>2 DEF OpenFilesInv, Mapping, Kept
  <2>4. maps' = At(Mapped)' /\ descriptors' = At(Described)'
    <3>1. from \notin Mapped /\ to \notin Mapped
      BY DEF Mapped
    <3>2. At(Mapped)' = At(Mapped)
      BY <1>3, <2>2, <3>1
    <3>3. At(Described)' = IF to \in Described THEN At(Described) \cup {u} ELSE At(Described) \ {u}
      BY <1>3, <2>2
    <3> QED
      BY <2>1, <2>2, <3>2, <3>3 DEF OpenFilesInv
  <2> QED
    BY <1>2, <2>2, <2>3, <2>4
<1>6. ASSUME NEW u \in Users, NEW l \in Limiters
      PROVE  /\ TakeOne(l) /\ Allows(l) =>
                  allowed' \in [Limiters -> Nat] /\ allowed'[l] = allowed[l] - 1
             /\ Release(l) => allowed' \in [Limiters -> Nat] /\ allowed'[l] = allowed[l] + 1
             /\ TakeOne(l) \/ Release(l) => \A k \in Limiters \ {l} : allowed'[k] = allowed[k]
  BY DEF OpenFilesInv, TakeOne, Release, Allows
<1>7. /\ "mmap" \in Limiters /\ "fd" \in Limiters /\ "open" \in Described /\ "asks" \in Described
      /\ "mapping" \in Described /\ "mmap" \in Described /\ "pread" \in Described /\ "mapped" \notin Described
      /\ "none" \notin Described /\ "temporary" \notin Described
      /\ "reading" \in Described
      /\ "mapped" \in Mapped /\ \A s \in States \ {"mapped"} : s \notin Mapped
      /\ descriptors = At(Described) /\ maps = At(Mapped)
      /\ allowed["mmap"] \in Nat /\ allowed["fd"] \in Nat /\ allowed \in [Limiters -> Nat]
  BY DEF Limiters, Described, OpenFilesInv, Mapped
<1>8. ASSUME NEW u \in Users, AcquireMmap(u) PROVE OpenFilesInv'
  <2>1. CASE Allows("mmap")
    <3>1. /\ Goes(u, "mmap", "mapping") /\ TakeOne("mmap")
          /\ descriptors' = descriptors /\ maps' = maps
      BY <1>8, <2>1 DEF AcquireMmap
    <3>2. At(Mapped)' = maps'
      BY <1>3, <1>7, <3>1 DEF States
    <3>3. At(Described)' = descriptors'
      BY <1>3, <1>7, <3>1
    <3>4. /\ allowed' \in [Limiters -> Nat]
          /\ allowed'["mmap"] = allowed["mmap"] - 1 /\ allowed'["fd"] = allowed["fd"]
      BY <1>6, <1>7, <3>1, <2>1
    <3> QED
      BY <1>2, <1>7, <3>1, <3>2, <3>3, <3>4 DEF States, Mapping, Kept
  <2>2. CASE ~Allows("mmap")
    <3>1. /\ Goes(u, "mmap", "pread") /\ allowed' = allowed
          /\ descriptors' = descriptors /\ maps' = maps
      BY <1>8, <2>2 DEF AcquireMmap
    <3>2. At(Mapped)' = maps'
      BY <1>3, <1>7, <3>1 DEF States
    <3>3. At(Described)' = descriptors'
      BY <1>3, <1>7, <3>1
    <3>4. /\ allowed' \in [Limiters -> Nat]
          /\ allowed'["mmap"] = allowed["mmap"] /\ allowed'["fd"] = allowed["fd"]
      BY <1>6, <1>7, <3>1, <2>2
    <3> QED
      BY <1>2, <1>7, <3>1, <3>2, <3>3, <3>4 DEF States, Mapping, Kept
  <2> QED
    BY <2>1, <2>2
<1>9. ASSUME NEW u \in Users, MapFile(u) PROVE OpenFilesInv'
  <2>1. /\ Goes(u, "mapping", "mapped") /\ allowed' = allowed
        /\ descriptors' = descriptors \ {u} /\ maps' = maps \cup {u}
    BY <1>9 DEF MapFile
  <2>2. At(Mapped)' = maps'
    BY <1>3, <1>7, <2>1 DEF States
  <2>3. At(Described)' = descriptors'
    BY <1>3, <1>7, <2>1
  <2>4. /\ allowed' \in [Limiters -> Nat]
        /\ allowed'["mmap"] = allowed["mmap"] /\ allowed'["fd"] = allowed["fd"]
    BY <1>6, <1>7, <2>1
  <2> QED
    BY <1>2, <1>7, <2>1, <2>2, <2>3, <2>4 DEF States, Mapping, Kept
<1>10. ASSUME NEW u \in Users, MapFails(u) PROVE OpenFilesInv'
  <2>1. /\ Goes(u, "mapping", "none") /\ Release("mmap")
        /\ descriptors' = descriptors \ {u} /\ maps' = maps
    BY <1>10 DEF MapFails
  <2>2. At(Mapped)' = maps'
    BY <1>3, <1>7, <2>1 DEF States
  <2>3. At(Described)' = descriptors'
    BY <1>3, <1>7, <2>1
  <2>4. /\ allowed' \in [Limiters -> Nat]
        /\ allowed'["mmap"] = allowed["mmap"] + 1 /\ allowed'["fd"] = allowed["fd"]
    BY <1>6, <1>7, <2>1
  <2> QED
    BY <1>2, <1>7, <2>1, <2>2, <2>3, <2>4 DEF States, Mapping, Kept
<1>11. ASSUME NEW u \in Users, DeleteMapped(u) PROVE OpenFilesInv'
  <2>1. /\ Goes(u, "mapped", "none") /\ Release("mmap")
        /\ descriptors' = descriptors /\ maps' = maps \ {u}
    BY <1>11 DEF DeleteMapped
  <2>2. At(Mapped)' = maps'
    BY <1>3, <1>7, <2>1 DEF States
  <2>3. At(Described)' = descriptors'
    BY <1>3, <1>7, <2>1
  <2>4. /\ allowed' \in [Limiters -> Nat]
        /\ allowed'["mmap"] = allowed["mmap"] + 1 /\ allowed'["fd"] = allowed["fd"]
    BY <1>6, <1>7, <2>1
  <2> QED
    BY <1>2, <1>7, <2>1, <2>2, <2>3, <2>4 DEF States, Mapping, Kept
<1>12. ASSUME NEW u \in Users, AcquireDescriptor(u) PROVE OpenFilesInv'
  <2>1. CASE Allows("fd")
    <3>1. /\ Goes(u, "asks", "open") /\ TakeOne("fd")
          /\ descriptors' = descriptors /\ maps' = maps
      BY <1>12, <2>1 DEF AcquireDescriptor
    <3>2. At(Mapped)' = maps'
      BY <1>3, <1>7, <3>1 DEF States
    <3>3. At(Described)' = descriptors'
      BY <1>3, <1>7, <3>1
    <3>4. /\ allowed' \in [Limiters -> Nat]
          /\ allowed'["fd"] = allowed["fd"] - 1 /\ allowed'["mmap"] = allowed["mmap"]
      BY <1>6, <1>7, <3>1, <2>1
    <3> QED
      BY <1>2, <1>7, <3>1, <3>2, <3>3, <3>4 DEF States, Mapping, Kept
  <2>2. CASE ~Allows("fd")
    <3>1. /\ Goes(u, "asks", "temporary") /\ allowed' = allowed
          /\ descriptors' = descriptors \ {u} /\ maps' = maps
      BY <1>12, <2>2 DEF AcquireDescriptor
    <3>2. At(Mapped)' = maps'
      BY <1>3, <1>7, <3>1 DEF States
    <3>3. At(Described)' = descriptors'
      BY <1>3, <1>7, <3>1
    <3>4. /\ allowed' \in [Limiters -> Nat]
          /\ allowed'["mmap"] = allowed["mmap"] /\ allowed'["fd"] = allowed["fd"]
      BY <1>6, <1>7, <3>1, <2>2
    <3> QED
      BY <1>2, <1>7, <3>1, <3>2, <3>3, <3>4 DEF States, Mapping, Kept
  <2> QED
    BY <2>1, <2>2
<1>13. ASSUME NEW u \in Users, DeleteOpen(u) PROVE OpenFilesInv'
  <2>1. /\ Goes(u, "open", "none") /\ Release("fd")
        /\ descriptors' = descriptors \ {u} /\ maps' = maps
    BY <1>13 DEF DeleteOpen
  <2>2. At(Mapped)' = maps'
    BY <1>3, <1>7, <2>1 DEF States
  <2>3. At(Described)' = descriptors'
    BY <1>3, <1>7, <2>1
  <2>4. /\ allowed' \in [Limiters -> Nat]
        /\ allowed'["fd"] = allowed["fd"] + 1 /\ allowed'["mmap"] = allowed["mmap"]
    BY <1>6, <1>7, <2>1
  <2> QED
    BY <1>2, <1>7, <2>1, <2>2, <2>3, <2>4 DEF States, Mapping, Kept
<1> QED
  BY <1>1, <1>5, <1>8, <1>9, <1>10, <1>11, <1>12, <1>13 DEF FilesNext

LEMMA OpenFilesInvHolds == ASSUME LimitsAssumption PROVE FilesSpec => []OpenFilesInv
<1>1. FilesInit => OpenFilesInv
  <2>1. SUFFICES ASSUME FilesInit PROVE OpenFilesInv
    OBVIOUS
  <2>2. /\ At(Mapping) = {} /\ At(Kept) = {} /\ At(Mapped) = {} /\ At(Described) = {}
        /\ user \in [Users -> States]
    BY <2>1 DEF FilesInit, At, Mapping, Mapped, Kept, Described, States
  <2>3. allowed = [l \in Limiters |-> Limit(l)] /\ descriptors = {} /\ maps = {} /\ Cardinality({}) = 0
    BY <2>1, FS_EmptySet DEF FilesInit
  <2>4. allowed \in [Limiters -> Nat] /\ allowed["mmap"] = MaxMmaps /\ allowed["fd"] = MaxOpenFiles
    BY <2>3 DEF Limit, Limiters, LimitsAssumption
  <2> QED
    BY <2>2, <2>3, <2>4 DEF OpenFilesInv, LimitsAssumption
<1> QED
  BY <1>1, OpenFilesInvKept, PTL DEF FilesSpec

\* No more mappings and kept descriptors than allowed, for any number of threads
\* that race in Acquire (env_posix.cc:45-73).
THEOREM LimitsHoldAlways == ASSUME LimitsAssumption PROVE FilesSpec => []LimitsHold
<1>1. OpenFilesInv => LimitsHold
  <2>1. SUFFICES ASSUME OpenFilesInv PROVE LimitsHold
    OBVIOUS
  <2>2. allowed["mmap"] \in Nat /\ allowed["fd"] \in Nat
    BY <2>1 DEF OpenFilesInv, Limiters
  <2>3. IsFiniteSet(At(Mapping)) /\ IsFiniteSet(At(Kept))
    BY FS_Subset DEF LimitsAssumption, At
  <2>4. Cardinality(At(Mapping)) \in Nat /\ Cardinality(At(Kept)) \in Nat
    BY <2>3, FS_CardinalityType
  <2>5. Cardinality(maps) \in Nat /\ Cardinality(maps) <= Cardinality(At(Mapping))
    <3>1. maps \subseteq At(Mapping)
      BY <2>1 DEF OpenFilesInv, At, Mapping, Mapped
    <3> QED
      BY <3>1, <2>3, FS_Subset, FS_CardinalityType
  <2>6. At(Kept) = {u \in Users : user[u] = "open"}
    BY DEF At, Kept
  <2> QED
    BY <2>1, <2>2, <2>4, <2>5, <2>6 DEF OpenFilesInv, LimitsHold, LimitsAssumption
<1> QED
  BY <1>1, OpenFilesInvHolds, PTL

\* When no file is open, the limiters allow what they did at the start (134-195,
\* 347-371).
THEOREM NothingLeaksEver == ASSUME LimitsAssumption PROVE FilesSpec => []NothingLeaks
<1>1. OpenFilesInv => NothingLeaks
  <2>1. SUFFICES ASSUME OpenFilesInv, \A u \in Users : user[u] = "none"
                 PROVE  descriptors = {} /\ maps = {} /\ allowed = [l \in Limiters |-> Limit(l)]
    BY DEF NothingLeaks
  <2>2. At(Mapping) = {} /\ At(Kept) = {} /\ At(Mapped) = {} /\ At(Described) = {}
    BY <2>1 DEF At, Mapping, Mapped, Kept, Described
  <2>3. Cardinality({}) = 0
    BY FS_EmptySet
  <2>4. allowed["mmap"] = MaxMmaps /\ allowed["fd"] = MaxOpenFiles /\ allowed \in [Limiters -> Nat]
    BY <2>1, <2>2, <2>3 DEF OpenFilesInv, Limiters, LimitsAssumption
  <2>5. \A l \in Limiters : allowed[l] = Limit(l)
    BY <2>4 DEF Limiters, Limit
  <2> QED
    BY <2>1, <2>2, <2>4, <2>5 DEF OpenFilesInv
<1> QED
  BY <1>1, OpenFilesInvHolds, PTL
=============================================================================
