-------------------------- MODULE TableCacheProofs --------------------------
(***************************************************************************)
(* The cache's structures are consistent, and readers of the table cache   *)
(* get and keep the table of their file, for any memory, keys, charges,    *)
(* capacity and readers.                                                   *)
(*                                                                         *)
(* The lists are reasoned about with the pointers n and p, the idle        *)
(* entries s and the list l[x] each node belongs on as arguments: the      *)
(* removal of an entry and its addition to a list keep them threaded, and  *)
(* a step of the cache does one, the other or both.                        *)
(***************************************************************************)
EXTENDS TableCache, FiniteSetTheorems, TLAPS

\* The neighbours of a node belong on its list and point back to it.
LinkedIn(n, p, l) ==
    \A x \in Nodes : l[x] # Nil => /\ l[n[x]] = l[x] /\ p[n[x]] = x
                                   /\ l[p[x]] = l[x] /\ n[p[x]] = x

\* The places of the list of idle entries, its head before the first and after
\* the last one.
At(s, i) == IF i = 0 \/ i = Len(s) + 1 THEN Lru ELSE s[i]

Threaded(n, p, s, l) ==
    /\ n \in [Nodes -> Nodes] /\ p \in [Nodes -> Nodes] /\ s \in Seq(Handles)
    /\ l \in [Nodes -> {Lru, InUse, Nil}] /\ l[Lru] = Lru /\ l[InUse] = InUse
    /\ LinkedIn(n, p, l)
    /\ \A h \in Handles : l[h] = Lru <=> \E i \in DOMAIN s : s[i] = h
    /\ \A i, j \in DOMAIN s : s[i] = s[j] => i = j
    /\ \A i \in 0 .. Len(s) : n[At(s, i)] = At(s, i + 1)

\* LRU_Remove on pointers.
LEMMA RemoveLinked ==
  ASSUME NEW n \in [Nodes -> Nodes], NEW p \in [Nodes -> Nodes],
         NEW l \in [Nodes -> {Lru, InUse, Nil}], LinkedIn(n, p, l),
         NEW e \in Handles, l[e] # Nil
  PROVE  LinkedIn([n EXCEPT ![p[e]] = n[e]], [p EXCEPT ![n[e]] = p[e]], [l EXCEPT ![e] = Nil])
<1> DEFINE m == [n EXCEPT ![p[e]] = n[e]]
           q == [p EXCEPT ![n[e]] = p[e]]
           k == [l EXCEPT ![e] = Nil]
<1>1. e \in Nodes /\ n[e] \in Nodes /\ p[e] \in Nodes
  BY DEF Nodes
<1>2. ASSUME NEW x \in Nodes, k[x] # Nil
      PROVE  /\ k[m[x]] = k[x] /\ q[m[x]] = x
             /\ k[q[x]] = k[x] /\ m[q[x]] = x
  <2>1. x # e /\ k[x] = l[x] /\ l[x] # Nil
    BY <1>1, <1>2
  <2>2. n[x] \in Nodes /\ p[x] \in Nodes /\ p[n[x]] = x /\ n[p[x]] = x /\ l[n[x]] = l[x] /\ l[p[x]] = l[x]
    BY <2>1 DEF LinkedIn
  <2>3. p[n[e]] = e /\ n[p[e]] = e /\ l[n[e]] = l[e] /\ l[p[e]] = l[e]
    BY <1>1 DEF LinkedIn
  <2>4. k[m[x]] = k[x] /\ q[m[x]] = x
    <3>1. CASE x = p[e]
      <4>1. n[e] # e
        BY <3>1, <2>1, <2>3
      <4> QED
        BY <4>1, <3>1, <2>1, <2>3, <1>1
    <3>2. CASE x # p[e]
      <4>1. m[x] = n[x] /\ n[x] # e
        BY <3>2, <2>2, <1>1
      <4>2. n[x] # n[e]
        BY <2>1, <2>2, <2>3
      <4> QED
        BY <4>1, <4>2, <2>1, <2>2, <1>1
    <3> QED
      BY <3>1, <3>2
  <2>5. k[q[x]] = k[x] /\ m[q[x]] = x
    <3>1. CASE x = n[e]
      <4>1. p[e] # e
        BY <3>1, <2>1, <2>3
      <4> QED
        BY <4>1, <3>1, <2>1, <2>3, <1>1
    <3>2. CASE x # n[e]
      <4>1. q[x] = p[x] /\ p[x] # e
        BY <3>2, <2>2, <1>1
      <4>2. p[x] # p[e]
        BY <2>1, <2>2, <2>3
      <4> QED
        BY <4>1, <4>2, <2>1, <2>2, <1>1
    <3> QED
      BY <3>1, <3>2
  <2> QED
    BY <2>4, <2>5
<1> QED
  BY <1>2 DEF LinkedIn

\* LRU_Append on pointers.
LEMMA AppendLinked ==
  ASSUME NEW n \in [Nodes -> Nodes], NEW p \in [Nodes -> Nodes],
         NEW l \in [Nodes -> {Lru, InUse, Nil}], LinkedIn(n, p, l),
         NEW e \in Handles, l[e] = Nil, NEW a \in {Lru, InUse}, l[a] = a
  PROVE  LinkedIn([n EXCEPT ![e] = a, ![p[a]] = e], [p EXCEPT ![e] = p[a], ![a] = e], [l EXCEPT ![e] = a])
<1> DEFINE m == [n EXCEPT ![e] = a, ![p[a]] = e]
           q == [p EXCEPT ![e] = p[a], ![a] = e]
           k == [l EXCEPT ![e] = a]
<1>1. e \in Nodes /\ a \in Nodes /\ p[a] \in Nodes /\ a # Nil /\ e # a
  BY CacheAssumption DEF Nodes
<1>2. n[p[a]] = a /\ l[p[a]] = a /\ p[a] # e
  BY <1>1 DEF LinkedIn
<1>3. ASSUME NEW x \in Nodes, k[x] # Nil
      PROVE  /\ k[m[x]] = k[x] /\ q[m[x]] = x
             /\ k[q[x]] = k[x] /\ m[q[x]] = x
  <2>1. CASE x = e
    BY <2>1, <1>1, <1>2
  <2>2. CASE x # e
    <3>1. k[x] = l[x] /\ l[x] # Nil
      BY <2>2, <1>3
    <3>2. n[x] \in Nodes /\ p[x] \in Nodes /\ p[n[x]] = x /\ n[p[x]] = x /\ l[n[x]] = l[x] /\ l[p[x]] = l[x]
      BY <3>1 DEF LinkedIn
    <3>3. n[x] # e /\ p[x] # e
      BY <3>1, <3>2
    <3>4. k[m[x]] = k[x] /\ q[m[x]] = x
      <4>1. CASE x = p[a]
        BY <4>1, <3>1, <3>2, <2>2, <1>1, <1>2
      <4>2. CASE x # p[a]
        <5>1. m[x] = n[x] /\ n[x] # a
          BY <4>2, <2>2, <3>2, <1>1
        <5> QED
          BY <5>1, <3>1, <3>2, <3>3, <1>1
      <4> QED
        BY <4>1, <4>2
    <3>5. k[q[x]] = k[x] /\ m[q[x]] = x
      <4>1. CASE x = a
        BY <4>1, <3>1, <3>2, <2>2, <1>1, <1>2
      <4>2. CASE x # a
        <5>1. q[x] = p[x] /\ p[x] # p[a]
          BY <4>2, <2>2, <3>2, <1>1, <1>2
        <5> QED
          BY <5>1, <3>1, <3>2, <3>3, <1>1
      <4> QED
        BY <4>1, <4>2
    <3> QED
      BY <3>4, <3>5
  <2> QED
    BY <2>1, <2>2
<1> QED
  BY <1>3 DEF LinkedIn

\* Without takes one place out, the one where the entry is.
LEMMA WithoutIs ==
  ASSUME NEW s \in Seq(Handles), NEW h \in Handles,
         \A i, j \in DOMAIN s : s[i] = s[j] => i = j
  PROVE  \/ (\A i \in DOMAIN s : s[i] # h) /\ Without(s, h) = s
         \/ \E j \in 1 .. Len(s) :
              /\ s[j] = h
              /\ Without(s, h) = [i \in 1 .. Len(s) - 1 |-> s[IF i < j THEN i ELSE i + 1]]
<1>1. Len(s) \in Nat /\ DOMAIN s = 1 .. Len(s)
  OBVIOUS
<1>2. CASE \A i \in DOMAIN s : s[i] # h
  BY <1>2 DEF Without
<1>3. CASE ~ \A i \in DOMAIN s : s[i] # h
  <2> DEFINE j == CHOOSE i \in DOMAIN s : s[i] = h
  <2>1. j \in DOMAIN s /\ s[j] = h
    BY <1>3
  <2>2. Without(s, h) = [i \in 1 .. Len(s) - 1 |-> s[IF i < j THEN i ELSE i + 1]]
    BY <1>3 DEF Without
  <2> HIDE DEF j
  <2> QED
    BY <2>1, <2>2, <1>1
<1> QED
  BY <1>2, <1>3

\* The places of the list without the entry at j.
LEMMA AtRemoved ==
  ASSUME NEW s \in Seq(Handles), NEW j \in 1 .. Len(s), NEW t,
         t = [i \in 1 .. Len(s) - 1 |-> s[IF i < j THEN i ELSE i + 1]]
  PROVE  /\ t \in Seq(Handles) /\ Len(t) = Len(s) - 1
         /\ \A i \in 0 .. Len(s) : At(t, i) = IF i < j THEN At(s, i) ELSE At(s, i + 1)
<1>1. Len(s) \in Nat /\ Len(s) - 1 \in Nat /\ j \in Nat /\ DOMAIN s = 1 .. Len(s)
  OBVIOUS
<1>2. \A i \in 1 .. Len(s) - 1 : s[IF i < j THEN i ELSE i + 1] \in Handles
  BY <1>1
<1>3. t \in Seq(Handles) /\ Len(t) = Len(s) - 1
  BY <1>1, <1>2
<1>4. ASSUME NEW i \in 0 .. Len(s)
      PROVE  At(t, i) = IF i < j THEN At(s, i) ELSE At(s, i + 1)
  <2>1. CASE i = 0
    BY <2>1, <1>1 DEF At
  <2>2. CASE i = Len(s)
    BY <2>2, <1>1, <1>3 DEF At
  <2>3. CASE i # 0 /\ i # Len(s)
    <3> DEFINE b == Len(s)
    <3>1. /\ b \in Nat /\ i \in 0 .. b /\ i # 0 /\ i # b
          /\ Len(t) + 1 = b
      <4>1. i # 0
        BY <2>3
      <4>2. i # b
        BY <2>3
      <4>3. b \in Nat
        BY <1>1
      <4>4. i \in 0 .. b
        OBVIOUS
      <4>5. Len(t) + 1 = b
        BY <1>3, <1>1
      <4> QED
        BY <4>1, <4>2, <4>3, <4>4, <4>5
    <3> HIDE DEF b
    <3>2. i \in 1 .. b - 1 /\ i # 0 /\ i + 1 # 0 /\ i + 1 # b + 1 /\ i # b + 1 /\ i # Len(t) + 1
      BY <3>1
    <3> USE DEF b
    <3>3. At(t, i) = t[i]
      BY <3>2 DEF At
    <3>4. At(s, i) = s[i]
      BY <3>2 DEF At
    <3>5. At(s, i + 1) = s[i + 1]
      BY <3>2 DEF At
    <3>6. t[i] = s[IF i < j THEN i ELSE i + 1]
      BY <3>2
    <3> QED
      BY <3>3, <3>4, <3>5, <3>6
  <2> QED
    BY <2>1, <2>2, <2>3
<1> QED
  BY <1>3, <1>4

\* No two places hold the same node.
LEMMA AtInjective ==
  ASSUME NEW s \in Seq(Handles), \A i, j \in DOMAIN s : s[i] = s[j] => i = j
  PROVE  /\ \A i, j \in 0 .. Len(s) : At(s, i) = At(s, j) => i = j
         /\ \A i \in 1 .. Len(s) : At(s, i) = s[i] /\ s[i] \in Handles
         /\ At(s, 0) = Lru /\ At(s, Len(s) + 1) = Lru
<1>1. Len(s) \in Nat /\ DOMAIN s = 1 .. Len(s) /\ Lru \notin Handles
  BY CacheAssumption
<1>2. \A i \in 1 .. Len(s) : At(s, i) = s[i] /\ s[i] \in Handles
  BY <1>1 DEF At
<1>3. At(s, 0) = Lru /\ At(s, Len(s) + 1) = Lru
  BY <1>1 DEF At
<1>4. ASSUME NEW i \in 0 .. Len(s), NEW j \in 0 .. Len(s), At(s, i) = At(s, j)
      PROVE  i = j
  <2>1. (i = 0 \/ i \in 1 .. Len(s)) /\ (j = 0 \/ j \in 1 .. Len(s))
    BY <1>1
  <2> QED
    BY <2>1, <1>1, <1>2, <1>3, <1>4
<1> QED
  BY <1>2, <1>3, <1>4

\* LRU_Remove: an entry of either list leaves it, and its place among the idle.
LEMMA RemoveThreaded ==
  ASSUME NEW n, NEW p, NEW s, NEW l, Threaded(n, p, s, l), NEW e \in Handles, l[e] # Nil
  PROVE  Threaded([n EXCEPT ![p[e]] = n[e]], [p EXCEPT ![n[e]] = p[e]], Without(s, e), [l EXCEPT ![e] = Nil])
<1> DEFINE m == [n EXCEPT ![p[e]] = n[e]]
           q == [p EXCEPT ![n[e]] = p[e]]
           k == [l EXCEPT ![e] = Nil]
           t == Without(s, e)
<1>1. /\ n \in [Nodes -> Nodes] /\ p \in [Nodes -> Nodes] /\ s \in Seq(Handles)
      /\ l \in [Nodes -> {Lru, InUse, Nil}] /\ l[Lru] = Lru /\ l[InUse] = InUse
      /\ LinkedIn(n, p, l)
      /\ \A h \in Handles : l[h] = Lru <=> \E i \in DOMAIN s : s[i] = h
      /\ \A i, j \in DOMAIN s : s[i] = s[j] => i = j
      /\ \A i \in 0 .. Len(s) : n[At(s, i)] = At(s, i + 1)
  BY DEF Threaded
<1>2. e \in Nodes /\ n[e] \in Nodes /\ p[e] \in Nodes /\ Lru \in Nodes /\ e # Lru /\ e # InUse /\ Lru # Nil
  BY <1>1, CacheAssumption DEF Nodes
<1>3. p[n[e]] = e /\ n[p[e]] = e /\ l[n[e]] = l[e] /\ l[p[e]] = l[e]
  BY <1>1, <1>2 DEF LinkedIn
<1>4. m \in [Nodes -> Nodes] /\ q \in [Nodes -> Nodes]
  BY <1>1, <1>2
<1>5. k \in [Nodes -> {Lru, InUse, Nil}] /\ k[Lru] = Lru /\ k[InUse] = InUse
      /\ \A x \in Nodes : k[x] = IF x = e THEN Nil ELSE l[x]
  BY <1>1, <1>2
<1>6. LinkedIn(m, q, k)
  BY <1>1, RemoveLinked
<1>7. Handles \subseteq Nodes
  BY DEF Nodes
<1>8. /\ \A i, j \in 0 .. Len(s) : At(s, i) = At(s, j) => i = j
      /\ \A i \in 1 .. Len(s) : At(s, i) = s[i] /\ s[i] \in Handles
      /\ At(s, 0) = Lru /\ At(s, Len(s) + 1) = Lru
  BY <1>1, AtInjective
<1>9. Len(s) \in Nat /\ DOMAIN s = 1 .. Len(s)
  BY <1>1
<1>10. \A x \in Nodes : m[x] = IF x = p[e] THEN n[e] ELSE n[x]
  BY <1>1, <1>2
<1>11. CASE (\A i \in DOMAIN s : s[i] # e) /\ t = s
  <2>1. l[e] # Lru
    BY <1>1, <1>11
  <2>2. ASSUME NEW i \in 0 .. Len(s) PROVE At(s, i) \in Nodes /\ l[At(s, i)] = Lru
    <3>1. i = 0 \/ i \in 1 .. Len(s)
      BY <1>9
    <3> QED
      BY <3>1, <1>1, <1>2, <1>7, <1>8, <1>9
  <2>3. \A i \in 0 .. Len(t) : m[At(t, i)] = At(t, i + 1)
    BY <2>1, <2>2, <1>1, <1>3, <1>10, <1>11
  <2>4. \A h \in Handles : k[h] = Lru <=> \E i \in DOMAIN t : t[i] = h
    BY <2>1, <1>1, <1>2, <1>5, <1>7, <1>11
  <2> QED
    BY <2>3, <2>4, <1>1, <1>4, <1>5, <1>6, <1>11 DEF Threaded
<1>12. ASSUME NEW j \in 1 .. Len(s), s[j] = e,
              t = [i \in 1 .. Len(s) - 1 |-> s[IF i < j THEN i ELSE i + 1]]
       PROVE  Threaded(m, q, t, k)
  <2> HIDE DEF t, m, q, k
  <2>1. /\ t \in Seq(Handles) /\ Len(t) = Len(s) - 1
        /\ \A i \in 0 .. Len(s) : At(t, i) = IF i < j THEN At(s, i) ELSE At(s, i + 1)
    BY <1>1, <1>12, AtRemoved, SMTT(60)
  <2>2. DOMAIN t = 1 .. Len(s) - 1 /\ \A i \in DOMAIN t : t[i] = s[IF i < j THEN i ELSE i + 1]
    BY <1>12
  <2>3. ASSUME NEW a \in DOMAIN t, NEW b \in DOMAIN t, t[a] = t[b] PROVE a = b
    <3> DEFINE aa == IF a < j THEN a ELSE a + 1
               bb == IF b < j THEN b ELSE b + 1
    <3>1. aa \in DOMAIN s /\ bb \in DOMAIN s /\ (aa = bb => a = b)
      BY <2>2, <1>9
    <3>2. t[a] = s[aa] /\ t[b] = s[bb]
      BY <2>2
    <3> HIDE DEF aa, bb
    <3> QED
      BY <3>1, <3>2, <2>3, <1>1
  <2>4. ASSUME NEW h \in Handles
        PROVE  k[h] = Lru <=> \E i \in DOMAIN t : t[i] = h
    <3>1. CASE h = e
      <4>1. \A i \in DOMAIN t : (IF i < j THEN i ELSE i + 1) \in DOMAIN s /\ (IF i < j THEN i ELSE i + 1) # j
        BY <2>2, <1>9
      <4>2. \A i \in DOMAIN t : t[i] # e
        BY <4>1, <2>2, <1>1, <1>9, <1>12
      <4> QED
        BY <3>1, <4>2, <1>2, <1>5
    <3>2. CASE h # e
      <4>1. k[h] = l[h]
        BY <3>2, <1>5, <1>7
      <4>2. ASSUME NEW i \in DOMAIN s, s[i] = h PROVE \E a \in DOMAIN t : t[a] = h
        <5>1. i # j /\ i \in Nat /\ j \in Nat
          BY <3>2, <4>2, <1>12
        <5>2. CASE i < j
          <6>1. i \in DOMAIN t
            BY <5>1, <5>2, <2>2, <1>9
          <6> QED
            BY <6>1, <5>2, <4>2, <2>2
        <5>3. CASE i > j
          <6>1. i - 1 \in DOMAIN t /\ ~(i - 1 < j) /\ (i - 1) + 1 = i
            BY <5>1, <5>3, <2>2, <1>9
          <6> QED
            BY <6>1, <4>2, <2>2
        <5> QED
          BY <5>1, <5>2, <5>3
      <4>3. \A i \in DOMAIN t : (IF i < j THEN i ELSE i + 1) \in DOMAIN s
        BY <2>2, <1>9
      <4> QED
        BY <4>1, <4>2, <4>3, <2>2, <1>1
    <3> QED
      BY <3>1, <3>2
  <2>5. At(s, j) = e /\ j - 1 \in 0 .. Len(s) /\ n[At(s, j - 1)] = e /\ n[e] = At(s, j + 1)
    <3>1. At(s, j) = e /\ j - 1 \in 0 .. Len(s) /\ j \in 0 .. Len(s) /\ (j - 1) + 1 = j
      BY <1>8, <1>9, <1>12
    <3> QED
      BY <3>1, <1>1
  <2>6. \A i \in 0 .. Len(s) : At(s, i) \in Nodes /\ l[At(s, i)] = Lru
    <3> TAKE i \in 0 .. Len(s)
    <3>1. i = 0 \/ i \in 1 .. Len(s)
      BY <1>9
    <3> QED
      BY <3>1, <1>1, <1>2, <1>7, <1>8, <1>9
  <2>7. p[e] = At(s, j - 1)
    BY <2>5, <2>6, <1>1, <1>2 DEF LinkedIn
  <2>8. ASSUME NEW i \in 0 .. Len(t) PROVE m[At(t, i)] = At(t, i + 1)
    <3>1. i \in Nat /\ j \in Nat /\ i \in 0 .. Len(s) /\ i + 1 \in 0 .. Len(s)
      BY <2>1, <1>9
    <3>2. CASE i < j - 1
      <4>1. At(t, i) = At(s, i) /\ At(t, i + 1) = At(s, i + 1)
        BY <2>1, <3>1, <3>2
      <4>2. At(s, i) # p[e]
        BY <2>5, <2>7, <1>8, <3>1, <3>2
      <4> QED
        BY <4>1, <4>2, <2>6, <1>1, <1>10, <3>1
    <3>3. CASE i = j - 1
      <4>1. At(t, i) = At(s, j - 1) /\ At(t, i + 1) = At(s, j + 1)
        <5>1. i < j /\ ~(i + 1 < j) /\ (i + 1) + 1 = j + 1
          BY <3>1, <3>3
        <5> QED
          BY <5>1, <2>1, <3>1, <3>3
      <4> QED
        BY <4>1, <2>5, <2>7, <1>2, <1>10
    <3>4. CASE i > j - 1
      <4>1. At(t, i) = At(s, i + 1) /\ At(t, i + 1) = At(s, (i + 1) + 1)
        <5>1. ~(i < j) /\ ~(i + 1 < j)
          BY <3>1, <3>4
        <5> QED
          BY <5>1, <2>1, <3>1
      <4>2. At(s, i + 1) # p[e]
        <5>1. i + 1 # j - 1
          BY <3>1, <3>4
        <5> QED
          BY <5>1, <2>5, <2>7, <1>8, <3>1
      <4> QED
        BY <4>1, <4>2, <2>6, <1>1, <1>10, <3>1
    <3> QED
      BY <3>1, <3>2, <3>3, <3>4
  <2> QED
    BY <2>1, <2>3, <2>4, <2>8, <1>4, <1>5, <1>6 DEF Threaded
<1>13. \/ (\A i \in DOMAIN s : s[i] # e) /\ t = s
       \/ \E j \in 1 .. Len(s) : s[j] = e /\ t = [i \in 1 .. Len(s) - 1 |-> s[IF i < j THEN i ELSE i + 1]]
  BY <1>1, WithoutIs
<1> QED
  BY <1>11, <1>12, <1>13

\* LRU_Append to lru_: the entry becomes the last of the idle ones.
LEMMA AppendIdle ==
  ASSUME NEW n, NEW p, NEW s, NEW l, Threaded(n, p, s, l), NEW e \in Handles, l[e] = Nil
  PROVE  Threaded([n EXCEPT ![e] = Lru, ![p[Lru]] = e], [p EXCEPT ![e] = p[Lru], ![Lru] = e],
                  Append(s, e), [l EXCEPT ![e] = Lru])
<1> DEFINE m == [n EXCEPT ![e] = Lru, ![p[Lru]] = e]
           q == [p EXCEPT ![e] = p[Lru], ![Lru] = e]
           k == [l EXCEPT ![e] = Lru]
           t == Append(s, e)
<1>1. /\ n \in [Nodes -> Nodes] /\ p \in [Nodes -> Nodes] /\ s \in Seq(Handles)
      /\ l \in [Nodes -> {Lru, InUse, Nil}] /\ l[Lru] = Lru /\ l[InUse] = InUse
      /\ LinkedIn(n, p, l)
      /\ \A h \in Handles : l[h] = Lru <=> \E i \in DOMAIN s : s[i] = h
      /\ \A i, j \in DOMAIN s : s[i] = s[j] => i = j
      /\ \A i \in 0 .. Len(s) : n[At(s, i)] = At(s, i + 1)
  BY DEF Threaded
<1>2. e \in Nodes /\ p[Lru] \in Nodes /\ Lru \in Nodes /\ e # Lru /\ e # InUse /\ Lru # Nil /\ Handles \subseteq Nodes
  BY <1>1, CacheAssumption DEF Nodes
<1>3. m \in [Nodes -> Nodes] /\ q \in [Nodes -> Nodes]
  BY <1>1, <1>2
<1>4. k \in [Nodes -> {Lru, InUse, Nil}] /\ k[Lru] = Lru /\ k[InUse] = InUse
      /\ \A x \in Nodes : k[x] = IF x = e THEN Lru ELSE l[x]
  BY <1>1, <1>2
<1>5. LinkedIn(m, q, k)
  BY <1>1, AppendLinked
<1>6. /\ \A i, j \in 0 .. Len(s) : At(s, i) = At(s, j) => i = j
      /\ \A i \in 1 .. Len(s) : At(s, i) = s[i] /\ s[i] \in Handles
      /\ At(s, 0) = Lru /\ At(s, Len(s) + 1) = Lru
  BY <1>1, AtInjective
<1>7. Len(s) \in Nat /\ DOMAIN s = 1 .. Len(s)
  BY <1>1
<1>8. /\ t \in Seq(Handles) /\ Len(t) = Len(s) + 1 /\ DOMAIN t = 1 .. Len(s) + 1
      /\ t[Len(s) + 1] = e /\ \A i \in 1 .. Len(s) : t[i] = s[i]
  BY <1>1, <1>7
<1>9. \A i \in DOMAIN s : s[i] # e
  BY <1>1, <1>2
<1> HIDE DEF t
<1>10. \A i, j \in DOMAIN t : t[i] = t[j] => i = j
  <2> TAKE i, j \in DOMAIN t
  <2>1. (i \in DOMAIN s \/ i = Len(s) + 1) /\ (j \in DOMAIN s \/ j = Len(s) + 1)
    BY <1>7, <1>8
  <2> QED
    BY <2>1, <1>1, <1>7, <1>8, <1>9
<1>11. ASSUME NEW h \in Handles
       PROVE  k[h] = Lru <=> \E i \in DOMAIN t : t[i] = h
  <2>1. (\E i \in DOMAIN t : t[i] = h) <=> h = e \/ \E i \in DOMAIN s : s[i] = h
    <3>1. DOMAIN t = DOMAIN s \cup {Len(s) + 1}
      BY <1>7, <1>8
    <3> QED
      BY <3>1, <1>7, <1>8
  <2> QED
    BY <2>1, <1>1, <1>2, <1>4
<1>12. \A i \in 0 .. Len(s) : At(t, i) = At(s, i) /\ At(s, i) \in Nodes /\ At(s, i) # e
  <2> TAKE i \in 0 .. Len(s)
  <2>1. CASE i = 0
    BY <2>1, <1>2 DEF At
  <2>2. CASE i # 0
    <3>1. i \in 1 .. Len(s) /\ i # Len(t) + 1 /\ i # Len(s) + 1
      BY <2>2, <1>7, <1>8
    <3>2. At(t, i) = t[i] /\ At(s, i) = s[i]
      BY <2>2, <3>1 DEF At
    <3> QED
      BY <3>1, <3>2, <1>2, <1>6, <1>7, <1>8, <1>9
  <2> QED
    BY <2>1, <2>2
<1>13. At(t, Len(s) + 1) = e /\ At(t, Len(s) + 2) = Lru
  <2>1. Len(s) + 1 # 0 /\ Len(s) + 1 # Len(t) + 1 /\ Len(s) + 2 = Len(t) + 1
    BY <1>7, <1>8
  <2> QED
    BY <2>1, <1>8 DEF At
<1>14. p[Lru] = At(s, Len(s))
  <2>1. n[At(s, Len(s))] = Lru /\ At(s, Len(s)) \in Nodes
    BY <1>1, <1>6, <1>7, <1>12
  <2>2. l[At(s, Len(s))] # Nil
    <3>1. Len(s) = 0 \/ Len(s) \in DOMAIN s
      BY <1>7
    <3> QED
      BY <3>1, <1>1, <1>2, <1>6, <1>7
  <2> QED
    BY <2>1, <2>2, <1>1, <1>2 DEF LinkedIn
<1>15. \A x \in Nodes : m[x] = IF x = p[Lru] THEN e ELSE IF x = e THEN Lru ELSE n[x]
  BY <1>1, <1>2
<1>16. ASSUME NEW i \in 0 .. Len(t) PROVE m[At(t, i)] = At(t, i + 1)
  <2> HIDE DEF m
  <2>1. CASE i = Len(s) + 1
    <3>1. At(t, i) = e /\ At(t, i + 1) = Lru /\ e # p[Lru]
      <4>1. i + 1 = Len(s) + 2 /\ Len(s) \in 0 .. Len(s)
        BY <2>1, <1>7
      <4> QED
        BY <4>1, <2>1, <1>12, <1>13, <1>14
    <3> QED
      BY <3>1, <1>2, <1>15
  <2>2. CASE i = Len(s)
    <3>1. At(t, i) = p[Lru] /\ At(t, i + 1) = e
      BY <2>2, <1>7, <1>12, <1>13, <1>14
    <3> QED
      BY <3>1, <1>2, <1>15
  <2>3. CASE i # Len(s) + 1 /\ i # Len(s)
    <3>1. i \in 0 .. Len(s) /\ i + 1 \in 0 .. Len(s) /\ Len(s) \in 0 .. Len(s)
      BY <2>3, <1>7, <1>8
    <3>2. At(s, i) # p[Lru]
      BY <2>3, <3>1, <1>6, <1>14
    <3> QED
      BY <3>1, <3>2, <1>1, <1>12, <1>15
  <2> QED
    BY <2>1, <2>2, <2>3
<1> HIDE DEF m, q, k
<1>17. Threaded(m, q, t, k)
  BY <1>3, <1>4, <1>5, <1>8, <1>10, <1>11, <1>16 DEF Threaded
<1> QED
  BY <1>17 DEF m, q, t, k

\* LRU_Append to in_use_ leaves the idle entries as they are.
LEMMA AppendUsed ==
  ASSUME NEW n, NEW p, NEW s, NEW l, Threaded(n, p, s, l), NEW e \in Handles, l[e] = Nil
  PROVE  Threaded([n EXCEPT ![e] = InUse, ![p[InUse]] = e], [p EXCEPT ![e] = p[InUse], ![InUse] = e],
                  s, [l EXCEPT ![e] = InUse])
<1> DEFINE m == [n EXCEPT ![e] = InUse, ![p[InUse]] = e]
           q == [p EXCEPT ![e] = p[InUse], ![InUse] = e]
           k == [l EXCEPT ![e] = InUse]
<1>1. /\ n \in [Nodes -> Nodes] /\ p \in [Nodes -> Nodes] /\ s \in Seq(Handles)
      /\ l \in [Nodes -> {Lru, InUse, Nil}] /\ l[Lru] = Lru /\ l[InUse] = InUse
      /\ LinkedIn(n, p, l)
      /\ \A h \in Handles : l[h] = Lru <=> \E i \in DOMAIN s : s[i] = h
      /\ \A i, j \in DOMAIN s : s[i] = s[j] => i = j
      /\ \A i \in 0 .. Len(s) : n[At(s, i)] = At(s, i + 1)
  BY DEF Threaded
<1>2. /\ e \in Nodes /\ p[InUse] \in Nodes /\ InUse \in Nodes /\ Lru \in Nodes /\ Handles \subseteq Nodes
      /\ e # Lru /\ e # InUse /\ Lru # Nil /\ InUse # Nil /\ Lru # InUse
  BY <1>1, CacheAssumption DEF Nodes
<1>3. m \in [Nodes -> Nodes] /\ q \in [Nodes -> Nodes]
  BY <1>1, <1>2
<1>4. k \in [Nodes -> {Lru, InUse, Nil}] /\ k[Lru] = Lru /\ k[InUse] = InUse
      /\ \A x \in Nodes : k[x] = IF x = e THEN InUse ELSE l[x]
  BY <1>1, <1>2
<1>5. LinkedIn(m, q, k)
  BY <1>1, AppendLinked
<1>6. l[p[InUse]] = InUse
  BY <1>1, <1>2 DEF LinkedIn
<1>7. /\ \A i \in 1 .. Len(s) : At(s, i) = s[i] /\ s[i] \in Handles
      /\ At(s, 0) = Lru
  BY <1>1, AtInjective
<1>8. \A i \in 0 .. Len(s) : At(s, i) \in Nodes /\ l[At(s, i)] = Lru
  <2> TAKE i \in 0 .. Len(s)
  <2>1. Len(s) \in Nat /\ DOMAIN s = 1 .. Len(s) /\ (i = 0 \/ i \in 1 .. Len(s))
    BY <1>1
  <2> QED
    BY <2>1, <1>1, <1>2, <1>7
<1>9. \A x \in Nodes : m[x] = IF x = p[InUse] THEN e ELSE IF x = e THEN InUse ELSE n[x]
  BY <1>1, <1>2
<1>10. \A i \in 0 .. Len(s) : m[At(s, i)] = At(s, i + 1)
  <2> TAKE i \in 0 .. Len(s)
  <2>1. At(s, i) # p[InUse] /\ At(s, i) # e
    BY <1>2, <1>6, <1>8
  <2> QED
    BY <2>1, <1>1, <1>8, <1>9
<1>11. \A h \in Handles : k[h] = Lru <=> \E i \in DOMAIN s : s[i] = h
  BY <1>1, <1>2, <1>4
<1> QED
  BY <1>1, <1>3, <1>4, <1>5, <1>10, <1>11 DEF Threaded

-----------------------------------------------------------------------------
(* What the cached entries are charged.                                    *)

LEMMA UnitsOfOne ==
  ASSUME NEW h, NEW n \in Nat
  PROVE  IsFiniteSet({h} \X (1 .. n)) /\ Cardinality({h} \X (1 .. n)) = n
<1>1. IsFiniteSet(1 .. n) /\ Cardinality(1 .. n) = n
  BY FS_Interval
<1>2. IsFiniteSet({h}) /\ Cardinality({h}) = 1
  BY FS_Singleton
<1>3. IsFiniteSet({h} \X (1 .. n)) /\ Cardinality({h} \X (1 .. n)) = Cardinality({h}) * Cardinality(1 .. n)
  BY <1>1, <1>2, FS_Product
<1> QED
  BY <1>1, <1>2, <1>3

\* An entry adds its charge to what the other entries are charged.
LEMMA UnitsSplit ==
  ASSUME NEW cached \in [Handles -> BOOLEAN], NEW c \in [Handles -> Nat],
         NEW cached1 \in [Handles -> BOOLEAN], NEW c1 \in [Handles -> Nat], NEW h \in Handles,
         ~cached[h], cached1[h], \A x \in Handles \ {h} : (cached1[x] <=> cached[x]) /\ c1[x] = c[x]
  PROVE  /\ Units(cached1, c1) = Units(cached, c) \cup ({h} \X (1 .. c1[h]))
         /\ Units(cached, c) \cap ({h} \X (1 .. c1[h])) = {}
<1>1. \A e : e \in Units(cached, c) <=> \E x \in Handles : cached[x] /\ e \in {x} \X (1 .. c[x])
  BY DEF Units
<1>2. \A e : e \in Units(cached1, c1) <=> \E x \in Handles : cached1[x] /\ e \in {x} \X (1 .. c1[x])
  BY DEF Units
<1>3. ASSUME NEW e \in Units(cached1, c1) PROVE e \in Units(cached, c) \cup ({h} \X (1 .. c1[h]))
  <2>1. PICK x \in Handles : cached1[x] /\ e \in {x} \X (1 .. c1[x])
    BY <1>2, <1>3
  <2>2. CASE x = h
    BY <2>1, <2>2
  <2>3. CASE x # h
    BY <2>1, <2>3, <1>1
  <2> QED
    BY <2>2, <2>3
<1>4. ASSUME NEW e \in Units(cached, c) \cup ({h} \X (1 .. c1[h])) PROVE e \in Units(cached1, c1)
  <2>1. CASE e \in {h} \X (1 .. c1[h])
    BY <2>1, <1>2
  <2>2. CASE e \in Units(cached, c)
    <3>1. PICK x \in Handles : cached[x] /\ e \in {x} \X (1 .. c[x])
      BY <2>2, <1>1
    <3>2. x # h
      BY <3>1
    <3> QED
      BY <3>1, <3>2, <1>2
  <2> QED
    BY <2>1, <2>2, <1>4
<1>5. ASSUME NEW e \in Units(cached, c), e \in {h} \X (1 .. c1[h]) PROVE FALSE
  <2>1. PICK x \in Handles : cached[x] /\ e \in {x} \X (1 .. c[x])
    BY <1>1
  <2>2. e[1] = h /\ e[1] = x
    BY <2>1, <1>5
  <2> QED
    BY <2>1, <2>2
<1> QED
  BY <1>3, <1>4, <1>5

LEMMA UnitsAdded ==
  ASSUME NEW cached \in [Handles -> BOOLEAN], NEW c \in [Handles -> Nat],
         NEW cached1 \in [Handles -> BOOLEAN], NEW c1 \in [Handles -> Nat], NEW h \in Handles,
         ~cached[h], cached1[h], \A x \in Handles \ {h} : (cached1[x] <=> cached[x]) /\ c1[x] = c[x]
  PROVE  /\ IsFiniteSet(Units(cached1, c1)) <=> IsFiniteSet(Units(cached, c))
         /\ IsFiniteSet(Units(cached, c)) =>
              /\ Cardinality(Units(cached, c)) \in Nat
              /\ Cardinality(Units(cached1, c1)) = Cardinality(Units(cached, c)) + c1[h]
<1> DEFINE S == Units(cached, c)
           S1 == Units(cached1, c1)
           T == {h} \X (1 .. c1[h])
<1>1. S1 = S \cup T /\ S \cap T = {}
  BY UnitsSplit
<1>2. IsFiniteSet(T) /\ Cardinality(T) = c1[h] /\ c1[h] \in Nat
  BY UnitsOfOne
<1> HIDE DEF S, S1, T
<1>3. ASSUME IsFiniteSet(S1) PROVE IsFiniteSet(S)
  <2>1. S \in SUBSET S1
    BY <1>1
  <2> QED
    BY <2>1, <1>3, FS_Subset
<1>4. ASSUME IsFiniteSet(S)
      PROVE  IsFiniteSet(S1) /\ Cardinality(S) \in Nat /\ Cardinality(S1) = Cardinality(S) + c1[h]
  <2>1. IsFiniteSet(S \cup T) /\ Cardinality(S \cup T) = Cardinality(S) + Cardinality(T) - Cardinality(S \cap T)
    BY <1>2, <1>4, FS_Union
  <2>2. Cardinality(S \cap T) = 0 /\ Cardinality(S) \in Nat
    BY <1>1, <1>4, FS_EmptySet, FS_CardinalityType
  <2> QED
    BY <2>1, <2>2, <1>1, <1>2
<1> QED
  BY <1>3, <1>4 DEF S, S1

-----------------------------------------------------------------------------
(* The steps of a shard.                                                   *)

\* The list each node belongs on, as a function.
Lists == [x \in Nodes |-> ListOf(x)]

\* The inductive invariant: CacheConsistent with the pointers of lru_ all the
\* way round, a finite number of units to count, and no method without a lock.
CacheInv ==
    /\ CacheTypeOK /\ RefsCounted /\ TableMatches /\ UsageExact
    /\ IsFiniteSet(Units(inCache, charge))
    /\ Threaded(next, prev, idle, Lists)
    /\ pc = "free" => victim = Nil

LEMMA ListsAre ==
  /\ Lists[Lru] = Lru /\ Lists[InUse] = InUse
  /\ \A h \in Handles : Lists[h] = IF ~inCache[h] THEN Nil ELSE IF refs[h] = 1 THEN Lru ELSE InUse
  /\ Lists \in [Nodes -> {Lru, InUse, Nil}]
<1>1. \A h \in Handles : h # Lru /\ h # InUse /\ h \in Nodes
  BY CacheAssumption DEF Nodes
<1>2. Lru \in Nodes /\ InUse \in Nodes
  BY DEF Nodes
<1>3. ASSUME NEW x \in Nodes PROVE ListOf(x) \in {Lru, InUse, Nil}
  BY DEF ListOf, Nodes
<1>4. \A x \in Nodes : Lists[x] = ListOf(x)
  BY DEF Lists
<1> QED
  BY <1>1, <1>2, <1>3, <1>4 DEF Lists, ListOf

LEMMA ListsNext ==
  ASSUME NEW h \in Handles
  PROVE  Lists'[h] = IF ~inCache'[h] THEN Nil ELSE IF refs'[h] = 1 THEN Lru ELSE InUse
<1>1. h # Lru /\ h # InUse /\ h \in Nodes
  BY CacheAssumption DEF Nodes
<1>2. Lists' = [x \in Nodes |-> ListOf(x)']
  BY DEF Lists
<1>3. Lists'[h] = ListOf(h)'
  BY <1>1, <1>2
<1> QED
  BY <1>1, <1>3 DEF ListOf

\* Where only h's references and place in the cache change, so do the lists.
LEMMA ListsChange ==
  ASSUME NEW h \in Handles,
         \A x \in Handles \ {h} : (inCache'[x] <=> inCache[x]) /\ (refs'[x] = 1 <=> refs[x] = 1)
  PROVE  Lists' = [Lists EXCEPT ![h] = Lists'[h]]
<1>1. \A x \in Nodes : x # h => ListOf(x)' = ListOf(x)
  BY DEF ListOf, Nodes
<1>2. Lists = [x \in Nodes |-> ListOf(x)] /\ Lists' = [x \in Nodes |-> ListOf(x)']
  BY DEF Lists
<1> QED
  BY <1>1, <1>2

LEMMA ListsSame ==
  ASSUME \A x \in Handles : (inCache'[x] <=> inCache[x]) /\ (refs'[x] = 1 <=> refs[x] = 1)
  PROVE  Lists' = Lists
BY DEF Lists, ListOf, Nodes

\* The state predicate's two conjuncts on lists follow.
LEMMA InvConsistent == CacheInv => CacheConsistent
<1> SUFFICES ASSUME CacheInv PROVE CacheConsistent
  OBVIOUS
<1>1. \A x \in Nodes : Lists[x] = ListOf(x)
  BY DEF Lists
<1>2. /\ next \in [Nodes -> Nodes] /\ prev \in [Nodes -> Nodes] /\ idle \in Seq(Handles)
      /\ LinkedIn(next, prev, Lists)
      /\ \A h \in Handles : Lists[h] = Lru <=> \E i \in DOMAIN idle : idle[i] = h
      /\ \A i, j \in DOMAIN idle : idle[i] = idle[j] => i = j
      /\ \A i \in 0 .. Len(idle) : next[At(idle, i)] = At(idle, i + 1)
  BY DEF CacheInv, Threaded
<1>3. Linked
  BY <1>1, <1>2 DEF Linked, LinkedIn
<1>4. OldestFirst
  <2>1. Len(idle) \in Nat /\ DOMAIN idle = 1 .. Len(idle) /\ (idle = <<>> <=> Len(idle) = 0)
    BY <1>2
  <2>2. /\ \A i \in 1 .. Len(idle) : At(idle, i) = idle[i] /\ idle[i] \in Handles
        /\ At(idle, 0) = Lru /\ At(idle, Len(idle) + 1) = Lru
    BY <1>2, AtInjective
  <2>3. next[Lru] = At(idle, 1)
    BY <1>2, <2>1, <2>2
  <2>4. next[Lru] = IF idle = <<>> THEN Lru ELSE idle[1]
    BY <2>1, <2>2, <2>3
  <2>5. prev[Lru] = IF idle = <<>> THEN Lru ELSE idle[Len(idle)]
    <3>1. next[At(idle, Len(idle))] = Lru
      BY <1>2, <2>1, <2>2
    <3>2. At(idle, Len(idle)) = IF idle = <<>> THEN Lru ELSE idle[Len(idle)]
      BY <2>1, <2>2
    <3>3. At(idle, Len(idle)) \in Nodes /\ Lists[At(idle, Len(idle))] # Nil
      <4>1. Lru # Nil /\ Lists[Lru] = Lru
        BY ListsAre, CacheAssumption
      <4>2. CASE idle = <<>>
        BY <4>1, <4>2, <3>2 DEF Nodes
      <4>3. CASE idle # <<>>
        <5>1. Len(idle) \in DOMAIN idle /\ idle[Len(idle)] \in Handles
          BY <4>3, <2>1, <2>2
        <5> QED
          BY <5>1, <4>1, <4>3, <3>2, <1>2 DEF Nodes
      <4> QED
        BY <4>2, <4>3
    <3> QED
      BY <3>1, <3>2, <3>3, <1>2 DEF LinkedIn
  <2>6. \A i \in 1 .. Len(idle) - 1 : next[idle[i]] = idle[i + 1]
    <3> TAKE i \in 1 .. Len(idle) - 1
    <3>1. i \in 0 .. Len(idle) /\ i \in 1 .. Len(idle) /\ i + 1 \in 1 .. Len(idle)
      BY <2>1
    <3> QED
      BY <3>1, <1>2, <2>2
  <2>7. \A h \in Handles : ListOf(h) = Lru <=> \E i \in DOMAIN idle : idle[i] = h
    BY <1>1, <1>2 DEF Nodes
  <2> QED
    BY <1>2, <2>4, <2>5, <2>6, <2>7 DEF OldestFirst
<1> QED
  BY <1>3, <1>4 DEF CacheInv, CacheConsistent

\* LRU_Remove and LRU_Append of one entry.
LEMMA MoveUsed ==
  ASSUME NEW l, Threaded(next, prev, idle, l), NEW e \in Handles, l[e] # Nil,
         Move(InUse, e), idle' = Without(idle, e)
  PROVE  Threaded(next', prev', idle', [l EXCEPT ![e] = InUse])
<1> DEFINE n == [next EXCEPT ![prev[e]] = next[e]]
           p == [prev EXCEPT ![next[e]] = prev[e]]
           k == [l EXCEPT ![e] = Nil]
<1>1. Threaded(n, p, Without(idle, e), k)
  BY RemoveThreaded
<1>2. e \in Nodes /\ l \in [Nodes -> {Lru, InUse, Nil}]
  BY DEF Threaded, Nodes
<1>3. k[e] = Nil /\ [k EXCEPT ![e] = InUse] = [l EXCEPT ![e] = InUse]
  BY <1>2
<1>4. next' = [n EXCEPT ![e] = InUse, ![p[InUse]] = e] /\ prev' = [p EXCEPT ![e] = p[InUse], ![InUse] = e]
  BY DEF Move
<1> HIDE DEF n, p, k
<1> QED
  BY <1>1, <1>3, <1>4, AppendUsed

LEMMA MoveIdle ==
  ASSUME NEW l, Threaded(next, prev, idle, l), NEW e \in Handles, l[e] # Nil, l[e] # Lru,
         Move(Lru, e), idle' = Append(idle, e)
  PROVE  Threaded(next', prev', idle', [l EXCEPT ![e] = Lru])
<1> DEFINE n == [next EXCEPT ![prev[e]] = next[e]]
           p == [prev EXCEPT ![next[e]] = prev[e]]
           k == [l EXCEPT ![e] = Nil]
<1>1. Threaded(n, p, Without(idle, e), k)
  BY RemoveThreaded
<1>2. e \in Nodes /\ l \in [Nodes -> {Lru, InUse, Nil}] /\ \A i \in DOMAIN idle : idle[i] # e
  BY DEF Threaded, Nodes
<1>3. k[e] = Nil /\ [k EXCEPT ![e] = Lru] = [l EXCEPT ![e] = Lru] /\ Without(idle, e) = idle
  BY <1>2 DEF Without
<1>4. next' = [n EXCEPT ![e] = Lru, ![p[Lru]] = e] /\ prev' = [p EXCEPT ![e] = p[Lru], ![Lru] = e]
  BY DEF Move
<1> HIDE DEF n, p, k
<1> QED
  BY <1>1, <1>3, <1>4, AppendIdle

LEMMA InitInv == Init => CacheInv
<1> SUFFICES ASSUME Init PROVE CacheInv
  OBVIOUS
<1>1. (CHOOSE k \in Keys : TRUE) \in Keys
  BY CacheAssumption
<1>2. CacheTypeOK
  BY <1>1 DEF Init, CacheTypeOK
<1>3. RefsCounted /\ TableMatches /\ (pc = "free" => victim = Nil)
  BY CacheAssumption DEF Init, RefsCounted, TableMatches
<1>4. Units(inCache, charge) = {}
  BY DEF Init, Units
<1>5. UsageExact /\ IsFiniteSet(Units(inCache, charge))
  BY <1>4, FS_EmptySet DEF Init, UsageExact
<1>6. Threaded(next, prev, idle, Lists)
  <2>1. \A h \in Handles : Lists[h] = Nil
    BY ListsAre DEF Init
  <2>2. LinkedIn(next, prev, Lists)
    BY DEF Init, LinkedIn
  <2>3. Len(idle) = 0 /\ DOMAIN idle = {} /\ idle \in Seq(Handles) /\ Lru \in Nodes
    BY DEF Init, Nodes
  <2>4. \A i \in 0 .. Len(idle) : next[At(idle, i)] = At(idle, i + 1)
    BY <2>3 DEF Init, At
  <2>5. Lru # Nil
    BY CacheAssumption
  <2>6. next \in [Nodes -> Nodes] /\ prev \in [Nodes -> Nodes]
    BY DEF Init
  <2> QED
    BY <2>1, <2>2, <2>3, <2>4, <2>5, <2>6, ListsAre DEF Threaded
<1> QED
  BY <1>2, <1>3, <1>5, <1>6 DEF CacheInv

\* Ref: an idle entry goes to in_use_.
LEMMA LookupKeeps ==
  ASSUME CacheInv, NEW k \in Keys, Lookup(k)
  PROVE  CacheInv'
<1> DEFINE e == table[k]
<1>1. /\ CacheTypeOK /\ RefsCounted /\ TableMatches /\ UsageExact
      /\ IsFiniteSet(Units(inCache, charge)) /\ Threaded(next, prev, idle, Lists)
      /\ victim = Nil
  BY DEF CacheInv, Lookup
<1>2. e \in Handles /\ inCache[e] /\ refs[e] = held[e] + 1 /\ refs[e] \in Nat /\ held[e] \in Nat
  BY <1>1 DEF Lookup, CacheTypeOK, TableMatches, RefsCounted
<1>3. /\ refs' = [refs EXCEPT ![e] = refs[e] + 1] /\ held' = [held EXCEPT ![e] = held[e] + 1]
      /\ UNCHANGED <<entry, inCache, table, usage, pc, victim>>
  BY DEF Lookup, Ref
<1>4. UNCHANGED <<alloc, keyOf, charge, inCache, table, usage, pc, victim>>
  BY <1>3 DEF entry
<1>5. Lists[e] = (IF refs[e] = 1 THEN Lru ELSE InUse) /\ Lists'[e] = InUse
  <2>1. refs'[e] # 1
    BY <1>1, <1>2, <1>3 DEF CacheTypeOK
  <2>2. Lists'[e] = IF ~inCache'[e] THEN Nil ELSE IF refs'[e] = 1 THEN Lru ELSE InUse
    BY <1>2, ListsNext
  <2> QED
    BY <1>2, <1>4, <2>1, <2>2, ListsAre
<1>6. Lists' = [Lists EXCEPT ![e] = InUse]
  <2>1. \A x \in Handles \ {e} : (inCache'[x] <=> inCache[x]) /\ (refs'[x] = 1 <=> refs[x] = 1)
    BY <1>1, <1>3, <1>4 DEF CacheTypeOK
  <2> QED
    BY <2>1, <1>2, <1>5, ListsChange
<1>7. Threaded(next', prev', idle', Lists')
  <2>1. CASE refs[e] = 1
    <3>1. Move(InUse, e) /\ idle' = Without(idle, e)
      BY <2>1, <1>2 DEF Lookup, Ref
    <3>2. Lists[e] # Nil
      BY <2>1, <1>5, CacheAssumption
    <3> QED
      BY <3>1, <3>2, <1>1, <1>2, <1>6, MoveUsed
  <2>2. CASE refs[e] # 1
    <3>1. UNCHANGED <<next, prev, idle>>
      BY <2>2, <1>2 DEF Lookup, Ref, lists
    <3>2. Lists' = Lists
      BY <2>2, <1>2, <1>5, <1>6, ListsAre DEF Nodes
    <3> QED
      BY <3>1, <3>2, <1>1
  <2> QED
    BY <2>1, <2>2
<1>8. CacheTypeOK'
  <2>1. refs' \in [Handles -> Nat] /\ held' \in [Handles -> Nat]
    BY <1>1, <1>2, <1>3 DEF CacheTypeOK
  <2> QED
    BY <2>1, <1>1, <1>4, <1>7 DEF CacheTypeOK, Threaded
<1>9. RefsCounted'
  <2>1. ASSUME NEW h \in Handles
        PROVE  refs'[h] = held'[h] + (IF inCache'[h] THEN 1 ELSE 0) /\ (h \in alloc' <=> refs'[h] > 0)
    <3>1. CASE h = e
      BY <3>1, <1>1, <1>2, <1>3, <1>4 DEF RefsCounted, CacheTypeOK
    <3>2. CASE h # e
      BY <3>2, <1>1, <1>3, <1>4 DEF RefsCounted, CacheTypeOK
    <3> QED
      BY <3>1, <3>2
  <2> QED
    BY <2>1 DEF RefsCounted
<1> QED
  BY <1>1, <1>4, <1>7, <1>8, <1>9 DEF CacheInv, TableMatches, UsageExact

\* Release: the last client's reference makes a cached entry idle, and frees
\* one that is not cached.
LEMMA ReleaseKeeps ==
  ASSUME CacheInv, NEW e \in Handles, Release(e)
  PROVE  CacheInv'
<1>1. /\ CacheTypeOK /\ RefsCounted /\ TableMatches /\ UsageExact
      /\ IsFiniteSet(Units(inCache, charge)) /\ Threaded(next, prev, idle, Lists)
      /\ victim = Nil
  BY DEF CacheInv, Release
<1>2. /\ refs[e] = held[e] + (IF inCache[e] THEN 1 ELSE 0) /\ refs[e] \in Nat /\ held[e] \in Nat
      /\ held[e] > 0
  BY <1>1 DEF Release, CacheTypeOK, RefsCounted
<1>3. /\ refs' = [refs EXCEPT ![e] = refs[e] - 1] /\ held' = [held EXCEPT ![e] = held[e] - 1]
      /\ alloc' = (IF refs[e] = 1 THEN alloc \ {e} ELSE alloc)
      /\ UNCHANGED <<keyOf, charge, inCache, table, usage, pc, victim>>
  BY DEF Release, Unref
<1>4. refs'[e] = refs[e] - 1 /\ \A x \in Handles \ {e} : refs'[x] = refs[x] /\ held'[x] = held[x]
  BY <1>1, <1>3 DEF CacheTypeOK
<1>5. \A x \in Handles \ {e} : (inCache'[x] <=> inCache[x]) /\ (refs'[x] = 1 <=> refs[x] = 1)
  BY <1>3, <1>4
<1>6. Threaded(next', prev', idle', Lists')
  <2>1. CASE inCache[e] /\ refs[e] = 2
    <3>1. Move(Lru, e) /\ idle' = Append(idle, e)
      BY <2>1 DEF Release
    <3>2. Lists[e] = InUse /\ Lists'[e] = Lru
      BY <2>1, <1>3, <1>4, ListsAre, ListsNext
    <3>3. Lists' = [Lists EXCEPT ![e] = Lru]
      BY <3>2, <1>5, ListsChange
    <3> QED
      BY <3>1, <3>2, <3>3, <1>1, CacheAssumption, MoveIdle
  <2>2. CASE ~(inCache[e] /\ refs[e] = 2)
    <3>1. UNCHANGED <<next, prev, idle>>
      BY <2>2 DEF Release, lists
    <3>2. inCache[e] => refs[e] # 1 /\ refs'[e] # 1
      BY <2>2, <1>2, <1>4
    <3>3. Lists'[e] = Lists[e]
      BY <3>2, <1>3, ListsAre, ListsNext
    <3>4. Lists' = Lists
      BY <3>3, <1>5, ListsChange, ListsAre
    <3> QED
      BY <3>1, <3>4, <1>1
  <2> QED
    BY <2>1, <2>2
<1>7. CacheTypeOK'
  <2>1. refs[e] - 1 \in Nat /\ held[e] - 1 \in Nat
    BY <1>2
  <2>2. refs' \in [Handles -> Nat] /\ held' \in [Handles -> Nat] /\ alloc' \subseteq Handles
    BY <2>1, <1>1, <1>3 DEF CacheTypeOK
  <2> QED
    BY <2>2, <1>1, <1>3, <1>6 DEF CacheTypeOK, Threaded
<1>8. RefsCounted'
  <2>1. ASSUME NEW h \in Handles
        PROVE  refs'[h] = held'[h] + (IF inCache'[h] THEN 1 ELSE 0) /\ (h \in alloc' <=> refs'[h] > 0)
    <3>1. CASE h = e
      <4>1. held'[e] = held[e] - 1
        BY <1>1, <1>3 DEF CacheTypeOK
      <4>2. h \in alloc /\ (h \in alloc' <=> refs[e] # 1)
        BY <3>1, <1>1, <1>2, <1>3 DEF RefsCounted
      <4> QED
        BY <3>1, <4>1, <4>2, <1>2, <1>3, <1>4
    <3>2. CASE h # e
      BY <3>2, <1>1, <1>3, <1>4 DEF RefsCounted
    <3> QED
      BY <3>1, <3>2
  <2> QED
    BY <2>1 DEF RefsCounted
<1> QED
  BY <1>1, <1>3, <1>6, <1>7, <1>8 DEF CacheInv, TableMatches, UsageExact

\* Insert: a new entry is in use and charged; what the table had is erased next.
LEMMA InsertKeeps ==
  ASSUME CacheInv, NEW k \in Keys, NEW c \in Nat, NEW e \in Handles, Insert(k, c, e)
  PROVE  CacheInv'
<1>1. /\ CacheTypeOK /\ RefsCounted /\ TableMatches /\ UsageExact
      /\ IsFiniteSet(Units(inCache, charge)) /\ Threaded(next, prev, idle, Lists)
      /\ victim = Nil
  BY DEF CacheInv, Insert
<1>2. e \notin alloc /\ refs[e] = 0 /\ ~inCache[e]
  BY <1>1 DEF Insert, RefsCounted, CacheTypeOK
<1>3. /\ alloc' = alloc \cup {e} /\ keyOf' = [keyOf EXCEPT ![e] = k]
      /\ charge' = [charge EXCEPT ![e] = c] /\ refs' = [refs EXCEPT ![e] = 2]
      /\ inCache' = [inCache EXCEPT ![e] = TRUE] /\ usage' = usage + c
      /\ victim' = table[k] /\ table' = [table EXCEPT ![k] = e]
      /\ held' = [held EXCEPT ![e] = 1] /\ pc' = "insert" /\ UNCHANGED idle
  BY DEF Insert
<1>4. /\ refs'[e] = 2 /\ inCache'[e] /\ held'[e] = 1 /\ keyOf'[e] = k /\ charge'[e] = c
      /\ \A x \in Handles \ {e} : /\ refs'[x] = refs[x] /\ (inCache'[x] <=> inCache[x]) /\ held'[x] = held[x]
                                  /\ keyOf'[x] = keyOf[x] /\ charge'[x] = charge[x]
      /\ table'[k] = e /\ \A x \in Keys \ {k} : table'[x] = table[x]
  BY <1>1, <1>3 DEF CacheTypeOK
<1>5. Threaded(next', prev', idle', Lists')
  <2>1. Lists[e] = Nil /\ Lists'[e] = InUse
    BY <1>2, <1>4, ListsAre, ListsNext
  <2>2. Lists' = [Lists EXCEPT ![e] = InUse]
    BY <2>1, <1>4, ListsChange
  <2>3. /\ next' = [next EXCEPT ![e] = InUse, ![prev[InUse]] = e]
        /\ prev' = [prev EXCEPT ![e] = prev[InUse], ![InUse] = e]
    BY DEF Insert, LRU_Append
  <2>4. Threaded([next EXCEPT ![e] = InUse, ![prev[InUse]] = e], [prev EXCEPT ![e] = prev[InUse], ![InUse] = e],
                 idle, [Lists EXCEPT ![e] = InUse])
    BY <2>1, <1>1, AppendUsed
  <2>5. idle' = idle
    BY <1>3
  <2> QED
    BY <2>2, <2>3, <2>4, <2>5
<1>6. inCache' \in [Handles -> BOOLEAN] /\ charge' \in [Handles -> Nat]
  BY <1>1, <1>3 DEF CacheTypeOK
<1>7. CacheTypeOK'
  <2>1. keyOf' \in [Handles -> Keys] /\ refs' \in [Handles -> Nat] /\ held' \in [Handles -> Nat]
    BY <1>1, <1>3 DEF CacheTypeOK
  <2>2. table' \in [Keys -> Handles \cup {Nil}] /\ victim' \in Handles \cup {Nil}
    BY <1>1, <1>3 DEF CacheTypeOK
  <2>3. usage' \in Nat /\ alloc' \subseteq Handles
    BY <1>1, <1>3 DEF CacheTypeOK
  <2> QED
    BY <2>1, <2>2, <2>3, <1>3, <1>5, <1>6 DEF CacheTypeOK, Threaded
<1>8. RefsCounted'
  <2>1. ASSUME NEW h \in Handles
        PROVE  refs'[h] = held'[h] + (IF inCache'[h] THEN 1 ELSE 0) /\ (h \in alloc' <=> refs'[h] > 0)
    <3>1. CASE h = e
      BY <3>1, <1>3, <1>4
    <3>2. CASE h # e
      BY <3>2, <1>1, <1>3, <1>4 DEF RefsCounted
    <3> QED
      BY <3>1, <3>2
  <2> QED
    BY <2>1 DEF RefsCounted
<1>9. TableMatches'
  <2>1. table \in [Keys -> Handles \cup {Nil}] /\ keyOf \in [Handles -> Keys] /\ Nil \notin Handles
    BY <1>1, CacheAssumption DEF CacheTypeOK
  <2>2. ASSUME NEW j \in Keys, table'[j] # Nil
        PROVE  inCache'[table'[j]] /\ keyOf'[table'[j]] = j /\ table'[j] # victim'
    <3>1. CASE j = k
      <4>1. table[k] # e
        BY <1>1, <1>2, <2>1 DEF TableMatches
      <4> QED
        BY <4>1, <3>1, <1>3, <1>4
    <3>2. CASE j # k
      <4>1. table'[j] = table[j] /\ table[j] \in Handles /\ inCache[table[j]] /\ keyOf[table[j]] = j
        BY <3>2, <2>1, <2>2, <1>1, <1>4 DEF TableMatches
      <4>2. table[j] # e
        BY <4>1, <1>2
      <4>3. table[j] # table[k]
        BY <4>1, <3>2, <2>1, <1>1 DEF TableMatches
      <4> QED
        BY <4>1, <4>2, <4>3, <1>3, <1>4
    <3> QED
      BY <3>1, <3>2
  <2>3. ASSUME NEW h \in Handles, inCache'[h], h # victim'
        PROVE  table'[keyOf'[h]] = h
    <3>1. CASE h = e
      BY <3>1, <1>4
    <3>2. CASE h # e
      <4>1. keyOf'[h] = keyOf[h] /\ table[keyOf[h]] = h /\ keyOf[h] \in Keys
        BY <3>2, <2>1, <2>3, <1>1, <1>4, CacheAssumption DEF TableMatches
      <4>2. keyOf[h] # k
        BY <4>1, <2>3, <1>3
      <4> QED
        BY <4>1, <4>2, <1>4
    <3> QED
      BY <3>1, <3>2
  <2>4. ASSUME victim' # Nil PROVE inCache'[victim']
    <3>1. table[k] \in Handles /\ inCache[table[k]]
      BY <2>1, <2>4, <1>1, <1>3 DEF TableMatches
    <3> QED
      BY <3>1, <1>2, <1>3, <1>4
  <2> QED
    BY <2>2, <2>3, <2>4 DEF TableMatches
<1>10. UsageExact' /\ IsFiniteSet(Units(inCache, charge)')
  <2>1. inCache \in [Handles -> BOOLEAN] /\ charge \in [Handles -> Nat]
    BY <1>1 DEF CacheTypeOK
  <2>2. /\ IsFiniteSet(Units(inCache', charge')) <=> IsFiniteSet(Units(inCache, charge))
        /\ IsFiniteSet(Units(inCache, charge)) =>
             Cardinality(Units(inCache', charge')) = Cardinality(Units(inCache, charge)) + charge'[e]
    BY <2>1, <1>2, <1>4, <1>6, UnitsAdded
  <2>3. Units(inCache, charge)' = Units(inCache', charge')
    BY DEF Units
  <2> QED
    BY <2>2, <2>3, <1>1, <1>3, <1>4 DEF UsageExact
<1> QED
  BY <1>3, <1>5, <1>7, <1>8, <1>9, <1>10 DEF CacheInv

\* FinishErase: the victim leaves its list, and is no longer charged.
LEMMA FinishEraseKeeps ==
  ASSUME CacheInv, FinishErase
  PROVE  CacheInv'
<1> DEFINE e == victim
<1>1. /\ CacheTypeOK /\ RefsCounted /\ TableMatches /\ UsageExact
      /\ IsFiniteSet(Units(inCache, charge)) /\ Threaded(next, prev, idle, Lists)
  BY DEF CacheInv
<1>2. e \in Handles /\ e # Nil /\ inCache[e] /\ refs[e] = held[e] + 1 /\ refs[e] \in Nat /\ held[e] \in Nat
      /\ e \in alloc
  BY <1>1 DEF FinishErase, TableMatches, CacheTypeOK, RefsCounted
<1>3. /\ inCache' = [inCache EXCEPT ![e] = FALSE] /\ usage' = usage - charge[e]
      /\ refs' = [refs EXCEPT ![e] = refs[e] - 1]
      /\ alloc' = (IF refs[e] = 1 THEN alloc \ {e} ELSE alloc)
      /\ victim' = Nil /\ idle' = Without(idle, e)
      /\ UNCHANGED <<keyOf, charge, table, held, pc>>
  BY DEF FinishErase, Unref
<1>4. /\ refs'[e] = refs[e] - 1 /\ (~inCache'[e])
      /\ \A x \in Handles \ {e} : refs'[x] = refs[x] /\ (inCache'[x] <=> inCache[x])
  BY <1>1, <1>2, <1>3 DEF CacheTypeOK
<1>5. Threaded(next', prev', idle', Lists')
  <2>1. Lists[e] # Nil /\ Lists'[e] = Nil
    BY <1>2, <1>4, ListsAre, ListsNext, CacheAssumption
  <2>2. Lists' = [Lists EXCEPT ![e] = Nil]
    BY <2>1, <1>2, <1>4, ListsChange
  <2>3. next' = [next EXCEPT ![prev[e]] = next[e]] /\ prev' = [prev EXCEPT ![next[e]] = prev[e]]
    BY DEF FinishErase, LRU_Remove
  <2>4. Threaded([next EXCEPT ![prev[e]] = next[e]], [prev EXCEPT ![next[e]] = prev[e]],
                 Without(idle, e), [Lists EXCEPT ![e] = Nil])
    BY <2>1, <1>1, <1>2, RemoveThreaded
  <2>5. idle' = Without(idle, e)
    BY <1>3
  <2> QED
    BY <2>2, <2>3, <2>4, <2>5
<1>6. UsageExact' /\ IsFiniteSet(Units(inCache, charge)') /\ usage' \in Nat
  <2>1. inCache \in [Handles -> BOOLEAN] /\ charge \in [Handles -> Nat] /\ inCache' \in [Handles -> BOOLEAN]
    BY <1>1, <1>3 DEF CacheTypeOK
  <2> HIDE DEF e
  <2>2. /\ IsFiniteSet(Units(inCache, charge)) <=> IsFiniteSet(Units(inCache', charge))
        /\ IsFiniteSet(Units(inCache', charge)) =>
             /\ Cardinality(Units(inCache', charge)) \in Nat
             /\ Cardinality(Units(inCache, charge)) = Cardinality(Units(inCache', charge)) + charge[e]
    BY <2>1, <1>2, <1>4, UnitsAdded
  <2>3. Units(inCache, charge)' = Units(inCache', charge)
    BY <1>3 DEF Units
  <2>4. charge[e] \in Nat
    BY <2>1, <1>2
  <2> QED
    BY <2>2, <2>3, <2>4, <1>1, <1>3 DEF UsageExact
<1>7. CacheTypeOK'
  <2>1. refs' \in [Handles -> Nat] /\ alloc' \subseteq Handles /\ inCache' \in [Handles -> BOOLEAN]
    BY <1>1, <1>2, <1>3 DEF CacheTypeOK
  <2> QED
    BY <2>1, <1>1, <1>3, <1>5, <1>6 DEF CacheTypeOK, Threaded
<1>8. RefsCounted'
  <2>1. ASSUME NEW h \in Handles
        PROVE  refs'[h] = held'[h] + (IF inCache'[h] THEN 1 ELSE 0) /\ (h \in alloc' <=> refs'[h] > 0)
    <3>1. CASE h = e
      <4>1. h \in alloc' <=> refs[e] # 1
        BY <3>1, <1>2, <1>3
      <4>2. held'[h] = held[e]
        BY <3>1, <1>3
      <4> HIDE DEF e
      <4> QED
        BY <3>1, <4>1, <4>2, <1>2, <1>4
    <3>2. CASE h # e
      BY <3>2, <1>1, <1>3, <1>4 DEF RefsCounted
    <3> QED
      BY <3>1, <3>2
  <2> QED
    BY <2>1 DEF RefsCounted
<1>9. TableMatches'
  <2>1. table \in [Keys -> Handles \cup {Nil}] /\ Nil \notin Handles
    BY <1>1, CacheAssumption DEF CacheTypeOK
  <2>2. ASSUME NEW j \in Keys, table[j] # Nil
        PROVE  inCache'[table[j]] /\ keyOf[table[j]] = j
    BY <2>1, <2>2, <1>1, <1>4 DEF TableMatches
  <2>3. ASSUME NEW h \in Handles, inCache'[h]
        PROVE  table[keyOf[h]] = h
    BY <2>3, <1>1, <1>4 DEF TableMatches
  <2> QED
    BY <2>2, <2>3, <1>3 DEF TableMatches
<1> QED
  BY <1>3, <1>5, <1>6, <1>7, <1>8, <1>9 DEF CacheInv

\* table_.Remove, by Erase or by the loops of Insert and Prune.
LEMMA RemoveKeeps ==
  ASSUME CacheInv, NEW k \in Keys, victim = Nil, Remove(k), pc' \in {"insert", "erase", "prune"}
  PROVE  CacheInv'
<1>1. /\ CacheTypeOK /\ RefsCounted /\ TableMatches /\ UsageExact
      /\ IsFiniteSet(Units(inCache, charge)) /\ Threaded(next, prev, idle, Lists)
  BY DEF CacheInv
<1>2. /\ victim' = table[k] /\ table' = [table EXCEPT ![k] = Nil]
      /\ UNCHANGED <<next, prev, alloc, keyOf, charge, refs, inCache, usage, held, idle>>
  BY DEF Remove, lists, entry
<1>3. table'[k] = Nil /\ \A x \in Keys \ {k} : table'[x] = table[x]
  BY <1>1, <1>2 DEF CacheTypeOK
<1>4. table \in [Keys -> Handles \cup {Nil}] /\ keyOf \in [Handles -> Keys] /\ Nil \notin Handles
  BY <1>1, CacheAssumption DEF CacheTypeOK
<1>5. CacheTypeOK'
  <2>1. table' \in [Keys -> Handles \cup {Nil}] /\ victim' \in Handles \cup {Nil}
    BY <1>2, <1>4
  <2> QED
    BY <2>1, <1>1, <1>2 DEF CacheTypeOK
<1>6. TableMatches'
  <2>1. ASSUME NEW j \in Keys, table'[j] # Nil
        PROVE  inCache[table'[j]] /\ keyOf[table'[j]] = j /\ table'[j] # victim'
    <3>1. j # k /\ table'[j] = table[j]
      BY <2>1, <1>3
    <3> QED
      BY <3>1, <2>1, <1>1, <1>2, <1>4 DEF TableMatches
  <2>2. ASSUME NEW h \in Handles, inCache[h], h # victim'
        PROVE  table'[keyOf[h]] = h
    <3>1. table[keyOf[h]] = h /\ keyOf[h] \in Keys
      BY <2>2, <1>1, <1>4 DEF TableMatches
    <3> QED
      BY <3>1, <2>2, <1>2, <1>3
  <2>3. victim' # Nil => inCache[victim']
    BY <1>1, <1>2 DEF TableMatches
  <2> QED
    BY <2>1, <2>2, <2>3, <1>2 DEF TableMatches
<1>7. Lists' = Lists
  BY <1>2, ListsSame
<1> QED
  BY <1>1, <1>2, <1>5, <1>6, <1>7 DEF CacheInv, RefsCounted, UsageExact

\* What the list's head points to is an entry, if it is not the head.
LEMMA EvictKeeps ==
  ASSUME CacheInv, Evict
  PROVE  CacheInv'
<1>1. CacheConsistent
  BY InvConsistent
<1>2. next[Lru] \in Handles
  <2>1. idle # <<>> /\ next[Lru] = idle[1] /\ idle \in Seq(Handles)
    BY <1>1 DEF Evict, CacheConsistent, OldestFirst, CacheTypeOK
  <2> QED
    BY <2>1
<1>3. keyOf[next[Lru]] \in Keys
  BY <1>1, <1>2 DEF CacheConsistent, CacheTypeOK
<1> QED
  BY <1>3, RemoveKeeps DEF Evict

LEMMA OthersKeep ==
  ASSUME CacheInv,
         Unlock \/ Prune \/ UNCHANGED vars
  PROVE  CacheInv'
<1>1. /\ UNCHANGED <<next, prev, alloc, keyOf, charge, refs, inCache, table, usage, held, victim, idle>>
      /\ pc' \in {"free", "insert", "erase", "prune"} /\ (pc' = "free" => victim' = Nil)
  BY DEF Unlock, Prune, vars, lists, entry, CacheInv, CacheTypeOK
<1>2. Lists' = Lists
  BY <1>1, ListsSame
<1> QED
  BY <1>1, <1>2 DEF CacheInv, CacheTypeOK, RefsCounted, TableMatches, UsageExact

LEMMA EraseKeeps ==
  ASSUME CacheInv, NEW k \in Keys, Erase(k)
  PROVE  CacheInv'
BY RemoveKeeps DEF Erase, CacheInv

\* A shard of the cache keeps its structures consistent, whatever its memory,
\* its keys, its charges and its capacity (cache.cc:180-333).
THEOREM ShardConsistent == Spec => []CacheConsistent
<1>1. CacheInv /\ [Next]_vars => CacheInv'
  <2> SUFFICES ASSUME CacheInv, [Next]_vars PROVE CacheInv'
    OBVIOUS
  <2>1. ASSUME NEW k \in Keys, Lookup(k) \/ Erase(k) PROVE CacheInv'
    BY <2>1, LookupKeeps, EraseKeeps
  <2>2. ASSUME NEW h \in Handles, Release(h) PROVE CacheInv'
    BY <2>2, ReleaseKeeps
  <2>3. ASSUME NEW k \in Keys, NEW c \in Charges, NEW h \in Handles, Insert(k, c, h) PROVE CacheInv'
    BY <2>3, InsertKeeps, CacheAssumption
  <2>4. ASSUME FinishErase \/ Evict \/ Unlock \/ Prune \/ UNCHANGED vars PROVE CacheInv'
    BY <2>4, FinishEraseKeeps, EvictKeeps, OthersKeep
  <2> QED
    BY <2>1, <2>2, <2>3, <2>4 DEF Next
<1> QED
  BY <1>1, InitInv, InvConsistent, PTL DEF Spec

-----------------------------------------------------------------------------
(***************************************************************************)
(* The table cache: who holds a table is a reader that uses it, of a file  *)
(* of a live version.                                                      *)
(***************************************************************************)

\* The readers that hold a table.
Using(h) == {t \in Readers : reader[t].handle = h}

\* What a reader is doing goes with the handle it has; it holds its version.
ReadersOK ==
    /\ reader \in [Readers -> [pc : {"idle", "open", "use"}, file : Keys \cup {Nil},
                               handle : Handles \cup {Nil}]]
    /\ version \subseteq onDisk /\ onDisk \subseteq Keys
    /\ \A t \in Readers :
        /\ reader[t].pc = "idle" => reader[t] = Idle
        /\ reader[t].pc # "idle" => reader[t].file \in version
        /\ reader[t].pc # "use" => reader[t].handle = Nil
        /\ reader[t].pc = "use" => reader[t].handle \in Handles /\ keyOf[reader[t].handle] = reader[t].file

\* The references of clients are those of readers.
HeldByReaders == \A h \in Handles : held[h] = Cardinality(Using(h))

\* No table of a deleted file is in the cache.
NoneStale == \A f \in Keys \ onDisk : table[f] = Nil

\* Each table is charged 1, so usage counts tables.
ChargedOne == \A h \in Handles : inCache[h] => charge[h] = 1

\* Not every reader has a table that the cache has dropped: the last one that
\* got one has it from the cache.
SomeoneCached ==
    \E t \in Readers : \/ reader[t].handle = Nil
                       \/ inCache[reader[t].handle] /\ reader[t].handle # victim

\* Until an insertion, the cache is within its capacity or all tables are used.
AllocBounded ==
    pc # "insert" => Cardinality(alloc) <= Cardinality(Readers) \/ usage <= Capacity

\* The inductive invariant of the table cache.
TCInv ==
    /\ CacheInv /\ ReadersOK /\ HeldByReaders /\ NoneStale /\ ChargedOne
    /\ SomeoneCached /\ AllocBounded

LEMMA UsingFinite ==
  ASSUME NEW h
  PROVE  IsFiniteSet(Using(h)) /\ Cardinality(Using(h)) \in Nat /\ (Cardinality(Using(h)) = 0 <=> Using(h) = {})
<1>1. Using(h) \in SUBSET Readers
  BY DEF Using
<1>2. IsFiniteSet(Using(h))
  BY <1>1, ReadersAssumption, FS_Subset
<1> QED
  BY <1>2, FS_CardinalityType, FS_EmptySet

\* What a reader uses is held, so it is allocated; and what is held is used.
LEMMA UsedIsHeld ==
  ASSUME CacheInv, HeldByReaders, NEW h \in Handles
  PROVE  /\ \A t \in Readers : reader[t].handle = h => held[h] > 0 /\ h \in alloc
         /\ held[h] > 0 => \E t \in Readers : reader[t].handle = h
         /\ refs[h] = held[h] + (IF inCache[h] THEN 1 ELSE 0)
         /\ h \in alloc <=> refs[h] > 0
         /\ held[h] \in Nat /\ refs[h] \in Nat
<1>1. held[h] = Cardinality(Using(h)) /\ held[h] \in Nat /\ refs[h] \in Nat
  BY DEF HeldByReaders, CacheInv, CacheTypeOK
<1>2. held[h] = 0 <=> Using(h) = {}
  BY <1>1, UsingFinite
<1>3. refs[h] = held[h] + (IF inCache[h] THEN 1 ELSE 0) /\ (h \in alloc <=> refs[h] > 0)
  BY DEF CacheInv, RefsCounted
<1>4. ASSUME NEW t \in Readers, reader[t].handle = h PROVE held[h] > 0 /\ h \in alloc
  <2>1. Using(h) # {}
    BY <1>4 DEF Using
  <2>2. held[h] > 0
    BY <2>1, <1>1, <1>2
  <2> QED
    BY <2>2, <1>1, <1>3
<1>5. ASSUME held[h] > 0 PROVE \E t \in Readers : reader[t].handle = h
  <2>1. Using(h) # {}
    BY <1>1, <1>2, <1>5
  <2> QED
    BY <2>1 DEF Using
<1> QED
  BY <1>1, <1>3, <1>4, <1>5

\* Different tables have different readers, so there are no more of them.
LEMMA NoMoreThanUsers ==
  ASSUME NEW S \in SUBSET Handles, NEW R \in SUBSET Readers,
         \A h \in S : \E t \in R : reader[t].handle = h
  PROVE  IsFiniteSet(S) /\ IsFiniteSet(R) /\ Cardinality(S) <= Cardinality(R)
<1> DEFINE user == [h \in S |-> CHOOSE t \in R : reader[t].handle = h]
<1>1. \A h \in S : user[h] \in R /\ reader[user[h]].handle = h
  OBVIOUS
<1>2. user \in [S -> R]
  BY <1>1
<1>3. \A g, h \in S : user[g] = user[h] => g = h
  BY <1>1
<1> HIDE DEF user
<1>4. user \in Injection(S, R)
  BY <1>2, <1>3 DEF Injection, IsInjective
<1>5. IsFiniteSet(R)
  BY ReadersAssumption, FS_Subset
<1> QED
  BY <1>4, <1>5, FS_Injection

Cached == {h \in Handles : inCache[h]}

LEMMA CachedCharged ==
  ASSUME CacheInv, ChargedOne
  PROVE  IsFiniteSet(Cached) /\ Cardinality(Cached) <= usage
<1> DEFINE U == Units(inCache, charge)
           unit == [h \in Cached |-> <<h, 1>>]
<1>1. IsFiniteSet(U) /\ usage = Cardinality(U)
  BY DEF CacheInv, UsageExact
<1>2. \A h \in Cached : <<h, 1>> \in U
  <2> TAKE h \in Cached
  <2>1. h \in {x \in Handles : inCache[x]} /\ charge[h] = 1
    BY DEF Cached, ChargedOne
  <2>2. <<h, 1>> \in {h} \X (1 .. charge[h])
    BY <2>1
  <2> QED
    BY <2>1, <2>2 DEF Units
<1>3. \A g, h \in Cached : unit[g] = unit[h] => g = h
  OBVIOUS
<1>4. unit \in [Cached -> U]
  BY <1>2
<1> HIDE DEF U, unit
<1>5. unit \in Injection(Cached, U)
  BY <1>3, <1>4 DEF Injection, IsInjective
<1> QED
  BY <1>1, <1>5, FS_Injection

\* The open tables: those in the cache and those that only readers have.
LEMMA AllocFinite ==
  ASSUME CacheInv, HeldByReaders, ChargedOne
  PROVE  /\ IsFiniteSet(alloc) /\ Cardinality(alloc) \in Nat
         /\ \A R \in SUBSET Readers :
              (\A h \in alloc \ Cached : \E t \in R : reader[t].handle = h) =>
                Cardinality(alloc) <= usage + Cardinality(R)
<1> DEFINE D == alloc \ Cached
<1>1. alloc \in SUBSET Handles /\ usage \in Nat
  BY DEF CacheInv, CacheTypeOK
<1>2. IsFiniteSet(Cached) /\ Cardinality(Cached) <= usage /\ Cardinality(Cached) \in Nat
  BY CachedCharged, FS_CardinalityType
<1>3. \A h \in D : h \in Handles /\ \E t \in Readers : reader[t].handle = h
  <2> TAKE h \in D
  <2>1. h \in Handles /\ ~inCache[h] /\ h \in alloc
    BY <1>1 DEF Cached
  <2> QED
    BY <2>1, UsedIsHeld
<1>4. D \in SUBSET Handles
  BY <1>1
<1> HIDE DEF D
<1>5. IsFiniteSet(D) /\ Cardinality(D) \in Nat
  BY <1>3, <1>4, NoMoreThanUsers, FS_CardinalityType
<1>6. IsFiniteSet(Cached \cup D) /\ Cardinality(Cached \cup D) <= Cardinality(Cached) + Cardinality(D)
  <2>1. /\ IsFiniteSet(Cached \cup D)
        /\ Cardinality(Cached \cup D) = Cardinality(Cached) + Cardinality(D) - Cardinality(Cached \cap D)
    BY <1>2, <1>5, FS_Union
  <2>2. Cached \cap D = {}
    BY DEF D
  <2>3. Cardinality(Cached \cap D) = 0
    BY <2>2, FS_EmptySet
  <2> QED
    BY <2>1, <2>3, <1>2, <1>5
<1>7. alloc \in SUBSET (Cached \cup D)
  BY DEF D
<1>8. IsFiniteSet(alloc) /\ Cardinality(alloc) <= Cardinality(Cached \cup D)
  BY <1>6, <1>7, FS_Subset
<1>9. Cardinality(alloc) \in Nat /\ Cardinality(Cached \cup D) \in Nat
  BY <1>6, <1>8, FS_CardinalityType
<1>10. ASSUME NEW R \in SUBSET Readers, \A h \in D : \E t \in R : reader[t].handle = h
       PROVE  Cardinality(alloc) <= usage + Cardinality(R)
  <2>1. IsFiniteSet(R) /\ Cardinality(D) <= Cardinality(R)
    BY <1>4, <1>10, NoMoreThanUsers
  <2>2. Cardinality(R) \in Nat
    BY <2>1, FS_CardinalityType
  <2> QED
    BY <2>1, <2>2, <1>1, <1>2, <1>5, <1>6, <1>8, <1>9
<1> QED
  BY <1>8, <1>9, <1>10 DEF D

LEMMA InvSafe == TCInv => TableCacheSafe /\ OpenTablesBounded
<1> SUFFICES ASSUME TCInv PROVE TableCacheSafe /\ OpenTablesBounded
  OBVIOUS
<1>1. CacheInv /\ ReadersOK /\ HeldByReaders /\ NoneStale /\ ChargedOne /\ SomeoneCached /\ AllocBounded
  BY DEF TCInv
<1>2. NoStaleTable
  BY <1>1 DEF NoStaleTable, NoneStale
<1>3. FileStillThere
  BY <1>1 DEF FileStillThere, ReadersOK
<1>4. RightTable
  BY <1>1, UsedIsHeld DEF RightTable, ReadersOK
<1>5. ASSUME pc = "free" PROVE Cardinality(alloc) <= Capacity + Cardinality(Readers) - 1
  <2>1. victim = Nil /\ usage \in Nat /\ Capacity \in Nat \ {0}
    BY <1>1, <1>5, CacheAssumption DEF CacheInv, CacheTypeOK
  <2>2. PICK t \in Readers : reader[t].handle = Nil \/ inCache[reader[t].handle]
    BY <1>1 DEF SomeoneCached
  <2>3. /\ IsFiniteSet(Readers) /\ Cardinality(Readers) \in Nat
        /\ Cardinality(Readers \ {t}) = Cardinality(Readers) - 1
    BY ReadersAssumption, FS_CardinalityType, FS_RemoveElement
  <2>4. \A h \in alloc \ Cached : \E u \in Readers \ {t} : reader[u].handle = h
    <3> TAKE h \in alloc \ Cached
    <3>1. h \in Handles /\ ~inCache[h]
      BY <1>1 DEF CacheInv, CacheTypeOK, Cached
    <3>2. PICK u \in Readers : reader[u].handle = h
      BY <3>1, <1>1, UsedIsHeld
    <3>3. u # t
      BY <3>1, <3>2, <2>2, CacheAssumption
    <3> QED
      BY <3>2, <3>3
  <2>5. Readers \ {t} \in SUBSET Readers
    OBVIOUS
  <2>6. Cardinality(alloc) \in Nat /\ Cardinality(alloc) <= usage + Cardinality(Readers \ {t})
    BY <2>4, <2>5, <1>1, AllocFinite
  <2>7. Cardinality(alloc) <= Cardinality(Readers) \/ usage <= Capacity
    BY <1>1, <1>5 DEF AllocBounded
  <2> QED
    BY <2>1, <2>3, <2>6, <2>7
<1> QED
  BY <1>2, <1>3, <1>4, <1>5 DEF TableCacheSafe, OpenTablesBounded

LEMMA InitTC == TCInit => TCInv
<1> SUFFICES ASSUME TCInit PROVE TCInv
  OBVIOUS
<1>1. CacheInv
  BY InitInv DEF TCInit
<1>2. \A t \in Readers : reader[t] = Idle
  BY DEF TCInit
<1>3. ReadersOK
  BY <1>2 DEF TCInit, ReadersOK, Idle
<1>4. HeldByReaders
  <2> SUFFICES ASSUME NEW h \in Handles PROVE held[h] = Cardinality(Using(h))
    BY DEF HeldByReaders
  <2>1. Using(h) = {}
    BY <1>2, CacheAssumption DEF Using, Idle
  <2> QED
    BY <2>1, UsingFinite DEF TCInit, Init
<1>5. NoneStale /\ ChargedOne
  BY DEF TCInit, Init, NoneStale, ChargedOne
<1>6. SomeoneCached
  BY <1>2, ReadersAssumption DEF SomeoneCached, Idle
<1>7. AllocBounded
  BY CacheAssumption DEF TCInit, Init, AllocBounded
<1> QED
  BY <1>1, <1>3, <1>4, <1>5, <1>6, <1>7 DEF TCInv

\* Where no table is opened, the bound stays.
LEMMA BoundKept ==
  ASSUME CacheInv, CacheInv', HeldByReaders, ChargedOne, AllocBounded,
         alloc' \subseteq alloc, usage' <= usage, pc = "insert" => pc' = "insert"
  PROVE  AllocBounded'
<1>1. IsFiniteSet(alloc) /\ Cardinality(alloc) \in Nat
  BY AllocFinite
<1>2. alloc' \in SUBSET alloc
  OBVIOUS
<1>3. Cardinality(alloc') <= Cardinality(alloc) /\ Cardinality(alloc') \in Nat
  BY <1>1, <1>2, FS_Subset, FS_CardinalityType
<1>4. usage \in Nat /\ usage' \in Nat /\ Capacity \in Nat /\ Cardinality(Readers) \in Nat
  BY CacheAssumption, ReadersAssumption, FS_CardinalityType DEF CacheInv, CacheTypeOK
<1> QED
  BY <1>1, <1>3, <1>4 DEF AllocBounded

\* Steps of a method in the cache change no reader.
LEMMA HeldSame ==
  ASSUME HeldByReaders, reader' = reader, held' = held
  PROVE  HeldByReaders'
BY DEF HeldByReaders, Using

LEMMA CacheStepsKeep ==
  ASSUME TCInv, CacheSteps
  PROVE  TCInv'
<1>1. CacheInv /\ ReadersOK /\ HeldByReaders /\ NoneStale /\ ChargedOne /\ SomeoneCached /\ AllocBounded
  BY DEF TCInv
<1>2. CacheInv' /\ CacheTypeOK /\ CacheTypeOK'
  BY <1>1, FinishEraseKeeps, EvictKeeps, OthersKeep DEF CacheSteps, CacheInv
<1>3. UNCHANGED <<reader, version, onDisk, keyOf, charge, held>>
  BY DEF CacheSteps, FinishErase, Evict, Remove, Unlock, entry
<1>4. ReadersOK' /\ HeldByReaders'
  BY <1>1, <1>3, HeldSame DEF ReadersOK
<1>5. ASSUME FinishErase
      PROVE  NoneStale' /\ ChargedOne' /\ SomeoneCached' /\ AllocBounded'
  <2>1. /\ victim # Nil /\ victim' = Nil /\ inCache' = [inCache EXCEPT ![victim] = FALSE]
        /\ usage' = usage - charge[victim] /\ UNCHANGED <<table, pc>> /\ alloc' \subseteq alloc
        /\ victim \in Handles
    BY <1>2, <1>5 DEF FinishErase, Unref, CacheTypeOK
  <2>2. \A h \in Handles : inCache'[h] => inCache[h]
    BY <2>1, <1>2 DEF CacheTypeOK
  <2>3. NoneStale' /\ ChargedOne'
    BY <2>1, <2>2, <1>1, <1>3 DEF NoneStale, ChargedOne
  <2>4. SomeoneCached'
    <3>1. PICK t \in Readers : reader[t].handle = Nil \/ (inCache[reader[t].handle] /\ reader[t].handle # victim)
      BY <1>1 DEF SomeoneCached
    <3>2. reader[t].handle \in Handles \cup {Nil}
      BY <1>1 DEF ReadersOK
    <3>3. reader[t].handle = Nil \/ (inCache'[reader[t].handle] /\ reader[t].handle # victim')
      BY <3>1, <3>2, <2>1, <1>2, CacheAssumption DEF CacheTypeOK
    <3> QED
      BY <3>3, <1>3 DEF SomeoneCached
  <2>5. usage' <= usage
    BY <2>1, <1>2 DEF CacheTypeOK
  <2> QED
    BY <2>1, <2>3, <2>4, <2>5, <1>1, <1>2, BoundKept
<1>6. ASSUME Evict
      PROVE  NoneStale' /\ ChargedOne' /\ SomeoneCached' /\ AllocBounded'
  <2> DEFINE e == next[Lru]
  <2>1. CacheConsistent
    BY <1>1, InvConsistent
  <2>2. e \in Handles /\ inCache[e] /\ refs[e] = 1
    <3>1. e = idle[1] /\ idle # <<>> /\ idle \in Seq(Handles)
      BY <2>1, <1>6 DEF Evict, CacheConsistent, OldestFirst, CacheTypeOK
    <3>2. 1 \in DOMAIN idle /\ e \in Handles
      BY <3>1
    <3>3. ListOf(e) = Lru
      BY <3>1, <3>2, <2>1 DEF CacheConsistent, OldestFirst
    <3> QED
      BY <3>2, <3>3, CacheAssumption DEF ListOf
  <2>3. victim = Nil /\ table[keyOf[e]] = e /\ keyOf[e] \in Keys
    BY <2>2, <1>1, <1>2, <1>6, CacheAssumption DEF Evict, CacheInv, TableMatches, CacheTypeOK
  <2>4. /\ victim' = e /\ table' = [table EXCEPT ![keyOf[e]] = Nil]
        /\ UNCHANGED <<alloc, inCache, charge, usage, pc>>
    BY <2>3, <1>6 DEF Evict, Remove, entry
  <2>5. \A t \in Readers : reader[t].handle # e
    BY <2>2, <1>1, UsedIsHeld
  <2> HIDE DEF e
  <2>6. NoneStale' /\ ChargedOne'
    BY <2>4, <1>1, <1>2, <1>3 DEF NoneStale, ChargedOne, CacheTypeOK
  <2>7. SomeoneCached'
    BY <2>4, <2>5, <1>1, <1>3 DEF SomeoneCached
  <2>8. usage' <= usage
    BY <2>4, <1>2 DEF CacheTypeOK
  <2> QED
    BY <2>4, <2>6, <2>7, <2>8, <1>1, <1>2, BoundKept
<1>7. ASSUME Unlock
      PROVE  NoneStale' /\ ChargedOne' /\ SomeoneCached' /\ AllocBounded'
  <2>1. UNCHANGED <<next, alloc, inCache, charge, usage, table, victim>>
    BY <1>7 DEF Unlock, lists, entry
  <2>2. NoneStale' /\ ChargedOne' /\ SomeoneCached'
    BY <2>1, <1>1, <1>3 DEF NoneStale, ChargedOne, SomeoneCached
  <2>3. CASE usage <= Capacity
    BY <2>1, <2>2, <2>3 DEF AllocBounded
  <2>4. CASE next[Lru] = Lru
    <3>1. CacheConsistent
      BY <1>1, InvConsistent
    <3>2. \A h \in Handles : ListOf(h) # Lru
      <4>1. idle \in Seq(Handles) /\ (idle # <<>> => idle[1] \in Handles)
        BY <1>2 DEF CacheTypeOK
      <4>2. idle = <<>>
        BY <4>1, <3>1, <2>4, CacheAssumption DEF CacheConsistent, OldestFirst
      <4>3. DOMAIN idle = {}
        BY <4>2
      <4> QED
        BY <4>3, <3>1 DEF CacheConsistent, OldestFirst
    <3>3. ASSUME NEW h \in alloc PROVE \E t \in Readers : reader[t].handle = h
      <4>1. h \in Handles
        BY <1>2 DEF CacheTypeOK
      <4>2. inCache[h] => refs[h] # 1
        BY <4>1, <3>2, CacheAssumption DEF ListOf
      <4>3. held[h] > 0
        BY <4>1, <4>2, <1>1, UsedIsHeld
      <4> QED
        BY <4>1, <4>3, <1>1, UsedIsHeld
    <3>4. alloc \in SUBSET Handles /\ Readers \in SUBSET Readers
      BY <1>2 DEF CacheTypeOK
    <3>5. Cardinality(alloc) <= Cardinality(Readers)
      BY <3>3, <3>4, NoMoreThanUsers
    <3> QED
      BY <3>5, <2>1, <2>2 DEF AllocBounded
  <2>5. CASE pc # "insert"
    BY <2>1, <2>2, <2>5, <1>1 DEF AllocBounded
  <2> QED
    BY <2>3, <2>4, <2>5, <1>7 DEF Unlock
<1> QED
  BY <1>2, <1>4, <1>5, <1>6, <1>7 DEF CacheSteps, TCInv

\* Steps that leave the cache as it is: a miss, an open that fails, a file that
\* leaves the versions.
LEMMA QuietKeeps ==
  ASSUME TCInv, UNCHANGED cacheVars, ReadersOK',
         \A t \in Readers : reader'[t].handle = reader[t].handle, onDisk' = onDisk
  PROVE  TCInv'
<1>1. CacheInv /\ ReadersOK /\ HeldByReaders /\ NoneStale /\ ChargedOne /\ SomeoneCached /\ AllocBounded
  BY DEF TCInv
<1>2. CacheInv'
  BY <1>1, OthersKeep DEF cacheVars
<1>3. UNCHANGED <<alloc, charge, inCache, table, usage, held, pc, victim>>
  BY DEF cacheVars, vars, entry
<1>4. \A h : Using(h)' = Using(h)
  BY DEF Using
<1>5. HeldByReaders'
  BY <1>1, <1>3, <1>4 DEF HeldByReaders
<1>6. NoneStale' /\ ChargedOne' /\ SomeoneCached' /\ AllocBounded'
  BY <1>1, <1>3 DEF NoneStale, ChargedOne, SomeoneCached, AllocBounded
<1> QED
  BY <1>2, <1>5, <1>6 DEF TCInv

\* One more or one less user of a table.
LEMMA UsersChange ==
  ASSUME NEW t \in Readers, NEW r, ReadersOK, reader' = [reader EXCEPT ![t] = r],
         NEW h, h # Nil
  PROVE  /\ reader[t].handle = Nil /\ r.handle = h =>
              Cardinality(Using(h)') = Cardinality(Using(h)) + 1
         /\ reader[t].handle = h /\ r.handle = Nil =>
              Cardinality(Using(h)') = Cardinality(Using(h)) - 1
         /\ reader[t].handle # h /\ r.handle # h => Using(h)' = Using(h)
<1>1. reader'[t] = r /\ \A u \in Readers \ {t} : reader'[u] = reader[u]
  BY DEF ReadersOK
<1>2. IsFiniteSet(Using(h)) /\ Cardinality(Using(h)) \in Nat
  BY UsingFinite
<1>3. ASSUME reader[t].handle = Nil, r.handle = h
      PROVE  Cardinality(Using(h)') = Cardinality(Using(h)) + 1
  <2>1. Using(h)' = Using(h) \cup {t} /\ t \notin Using(h)
    BY <1>1, <1>3 DEF Using
  <2> QED
    BY <2>1, <1>2, FS_AddElement
<1>4. ASSUME reader[t].handle = h, r.handle = Nil
      PROVE  Cardinality(Using(h)') = Cardinality(Using(h)) - 1
  <2>1. Using(h)' = Using(h) \ {t} /\ t \in Using(h)
    BY <1>1, <1>4 DEF Using
  <2> QED
    BY <2>1, <1>2, FS_RemoveElement
<1>5. ASSUME reader[t].handle # h, r.handle # h PROVE Using(h)' = Using(h)
  BY <1>1, <1>5 DEF Using
<1> QED
  BY <1>3, <1>4, <1>5

\* FindTable: a hit gives the reader one more reference, a miss changes nothing.
LEMMA FindKeeps ==
  ASSUME TCInv, NEW t \in Readers, NEW f \in Keys, FindTable(t, f)
  PROVE  TCInv'
<1>1. CacheInv /\ ReadersOK /\ HeldByReaders /\ NoneStale /\ ChargedOne /\ SomeoneCached /\ AllocBounded
  BY DEF TCInv
<1>2. /\ reader[t] = Idle /\ f \in version /\ pc = "free" /\ UNCHANGED <<version, onDisk>>
  BY DEF FindTable
<1>3. CASE table[f] = Nil
  <2> DEFINE r == [pc |-> "open", file |-> f, handle |-> Nil]
  <2>1. reader' = [reader EXCEPT ![t] = r] /\ UNCHANGED cacheVars
    BY <1>3 DEF FindTable
  <2>2. r \in [pc : {"idle", "open", "use"}, file : Keys \cup {Nil}, handle : Handles \cup {Nil}]
    OBVIOUS
  <2>3. r.pc = "open" /\ r.file = f /\ r.handle = Nil
    OBVIOUS
  <2> HIDE DEF r
  <2>4. reader'[t] = r /\ \A u \in Readers \ {t} : reader'[u] = reader[u]
    BY <2>1, <1>1 DEF ReadersOK
  <2>5. keyOf' = keyOf
    BY <2>1 DEF cacheVars, vars, entry
  <2>6. reader' \in [Readers -> [pc : {"idle", "open", "use"}, file : Keys \cup {Nil}, handle : Handles \cup {Nil}]]
    BY <2>1, <2>2, <1>1 DEF ReadersOK
  <2>7. ReadersOK'
    BY <2>3, <2>4, <2>5, <2>6, <1>1, <1>2 DEF ReadersOK
  <2>8. \A u \in Readers : reader'[u].handle = reader[u].handle
    BY <2>3, <2>4, <1>2 DEF Idle
  <2> QED
    BY <2>1, <2>7, <2>8, <1>2, QuietKeeps
<1>4. CASE table[f] # Nil
  <2> DEFINE e == table[f]
             r == [pc |-> "use", file |-> f, handle |-> e]
  <2>1. reader' = [reader EXCEPT ![t] = r] /\ Lookup(f)
    BY <1>4 DEF FindTable
  <2>2. CacheInv'
    BY <2>1, <1>1, LookupKeeps
  <2>3. e \in Handles /\ inCache[e] /\ keyOf[e] = f /\ e # victim /\ victim = Nil
    BY <1>1, <1>2, <1>4 DEF CacheInv, CacheTypeOK, TableMatches
  <2>4. /\ held' = [held EXCEPT ![e] = held[e] + 1]
        /\ UNCHANGED <<alloc, keyOf, charge, inCache, table, usage, pc, victim>>
    BY <2>1 DEF Lookup, entry
  <2>5. r \in [pc : {"idle", "open", "use"}, file : Keys \cup {Nil}, handle : Handles \cup {Nil}]
    BY <2>3
  <2>6. r.pc = "use" /\ r.file = f /\ r.handle = e
    OBVIOUS
  <2> HIDE DEF r, e
  <2>7. reader'[t] = r /\ \A u \in Readers \ {t} : reader'[u] = reader[u]
    BY <2>1, <1>1 DEF ReadersOK
  <2>8. reader' \in [Readers -> [pc : {"idle", "open", "use"}, file : Keys \cup {Nil}, handle : Handles \cup {Nil}]]
    BY <2>1, <2>5, <1>1 DEF ReadersOK
  <2>9. ReadersOK'
    BY <2>3, <2>4, <2>6, <2>7, <2>8, <1>1, <1>2 DEF ReadersOK
  <2>10. HeldByReaders'
    <3> SUFFICES ASSUME NEW h \in Handles PROVE held'[h] = Cardinality(Using(h)')
      BY DEF HeldByReaders, Using
    <3>1. held \in [Handles -> Nat] /\ h # Nil /\ e # Nil /\ held[h] = Cardinality(Using(h))
      BY <2>3, <1>1, CacheAssumption DEF HeldByReaders, CacheInv, CacheTypeOK
    <3>2. reader[t].handle = Nil
      BY <1>2 DEF Idle
    <3>3. CASE h = e
      <4>1. Cardinality(Using(h)') = Cardinality(Using(h)) + 1
        BY <2>1, <2>6, <3>1, <3>2, <3>3, <1>1, UsersChange
      <4> QED
        BY <4>1, <3>1, <3>3, <2>4
    <3>4. CASE h # e
      <4>1. Using(h)' = Using(h)
        BY <2>1, <2>6, <3>1, <3>2, <3>4, <1>1, UsersChange
      <4> QED
        BY <4>1, <3>1, <3>4, <2>4
    <3> QED
      BY <3>3, <3>4
  <2>11. SomeoneCached'
    BY <2>3, <2>4, <2>6, <2>7 DEF SomeoneCached
  <2>12. NoneStale' /\ ChargedOne' /\ AllocBounded'
    BY <2>4, <1>1, <1>2 DEF NoneStale, ChargedOne, AllocBounded
  <2> QED
    BY <2>2, <2>9, <2>10, <2>11, <2>12 DEF TCInv
<1> QED
  BY <1>3, <1>4

\* Insert: the reader has the new table, and it is the cached one of its file.
LEMMA OpenKeeps ==
  ASSUME TCInv, NEW t \in Readers, NEW e \in Handles, OpenTable(t, e)
  PROVE  TCInv'
<1> DEFINE f == reader[t].file
           r == [reader[t] EXCEPT !.pc = "use", !.handle = e]
<1>1. CacheInv /\ ReadersOK /\ HeldByReaders /\ NoneStale /\ ChargedOne /\ SomeoneCached /\ AllocBounded
  BY DEF TCInv
<1>2. /\ reader[t].pc = "open" /\ f \in onDisk /\ Insert(f, 1, e)
      /\ reader' = [reader EXCEPT ![t].pc = "use", ![t].handle = e] /\ UNCHANGED <<version, onDisk>>
  BY DEF OpenTable
<1>3. f \in version /\ f \in Keys /\ reader[t].handle = Nil
  BY <1>1, <1>2 DEF ReadersOK
<1>4. CacheInv'
  BY <1>1, <1>2, <1>3, InsertKeeps
<1>5. /\ pc = "free" /\ e \notin alloc /\ keyOf' = [keyOf EXCEPT ![e] = f]
      /\ charge' = [charge EXCEPT ![e] = 1] /\ inCache' = [inCache EXCEPT ![e] = TRUE]
      /\ victim' = table[f] /\ table' = [table EXCEPT ![f] = e]
      /\ held' = [held EXCEPT ![e] = 1] /\ pc' = "insert"
  BY <1>2 DEF Insert
<1>6. reader' = [reader EXCEPT ![t] = r]
  BY <1>2, <1>1 DEF ReadersOK
<1>7. r \in [pc : {"idle", "open", "use"}, file : Keys \cup {Nil}, handle : Handles \cup {Nil}]
      /\ r.pc = "use" /\ r.file = f /\ r.handle = e
  <2>1. reader[t] \in [pc : {"idle", "open", "use"}, file : Keys \cup {Nil}, handle : Handles \cup {Nil}]
    BY <1>1 DEF ReadersOK
  <2> QED
    BY <2>1
<1> HIDE DEF f, r
<1>8. \A u \in Readers : reader[u].handle # e
  BY <1>1, <1>5, UsedIsHeld
<1>9. reader'[t] = r /\ \A u \in Readers \ {t} : reader'[u] = reader[u]
  BY <1>6, <1>1 DEF ReadersOK
<1>10. ReadersOK'
  <2>1. reader' \in [Readers -> [pc : {"idle", "open", "use"}, file : Keys \cup {Nil}, handle : Handles \cup {Nil}]]
    BY <1>6, <1>7, <1>1 DEF ReadersOK
  <2>2. keyOf \in [Handles -> Keys] /\ keyOf'[e] = f /\ \A h \in Handles \ {e} : keyOf'[h] = keyOf[h]
    BY <1>1, <1>5 DEF CacheInv, CacheTypeOK
  <2>3. ASSUME NEW u \in Readers
        PROVE  /\ reader'[u].pc = "idle" => reader'[u] = Idle
               /\ reader'[u].pc # "idle" => reader'[u].file \in version
               /\ reader'[u].pc # "use" => reader'[u].handle = Nil
               /\ reader'[u].pc = "use" =>
                    reader'[u].handle \in Handles /\ keyOf'[reader'[u].handle] = reader'[u].file
    <3>1. CASE u = t
      BY <3>1, <2>2, <1>3, <1>7, <1>9
    <3>2. CASE u # t
      <4>1. reader'[u] = reader[u] /\ reader[u].handle # e
        BY <3>2, <1>8, <1>9
      <4> QED
        BY <4>1, <2>2, <1>1 DEF ReadersOK
    <3> QED
      BY <3>1, <3>2
  <2> QED
    BY <2>1, <2>3, <1>1, <1>2 DEF ReadersOK
<1>11. HeldByReaders'
  <2> SUFFICES ASSUME NEW h \in Handles PROVE held'[h] = Cardinality(Using(h)')
    BY DEF HeldByReaders, Using
  <2>1. held \in [Handles -> Nat] /\ h # Nil /\ e # Nil /\ held[h] = Cardinality(Using(h))
    BY <1>1, CacheAssumption DEF HeldByReaders, CacheInv, CacheTypeOK
  <2>2. CASE h = e
    <3>1. Using(h) = {}
      BY <2>2, <1>8 DEF Using
    <3>2. Cardinality(Using(h)) = 0
      BY <3>1, UsingFinite
    <3>3. Cardinality(Using(h)') = Cardinality(Using(h)) + 1
      BY <2>1, <2>2, <1>1, <1>3, <1>6, <1>7, UsersChange
    <3> QED
      BY <3>2, <3>3, <2>1, <2>2, <1>5
  <2>3. CASE h # e
    <3>1. Using(h)' = Using(h)
      BY <2>1, <2>3, <1>1, <1>3, <1>6, <1>7, UsersChange
    <3> QED
      BY <3>1, <2>1, <2>3, <1>5
  <2> QED
    BY <2>2, <2>3
<1>12. SomeoneCached'
  <2>1. inCache \in [Handles -> BOOLEAN]
    BY <1>1 DEF CacheInv, CacheTypeOK
  <2>2. inCache'[e] /\ e # victim'
    <3>1. ~inCache[e]
      BY <1>1, <1>5, UsedIsHeld
    <3>2. e # Nil /\ \A k \in Keys : table[k] # Nil => inCache[table[k]]
      BY <1>1, CacheAssumption DEF CacheInv, TableMatches
    <3>3. table[f] # e
      BY <3>1, <3>2, <1>3
    <3> QED
      BY <3>3, <2>1, <1>5
  <2> QED
    BY <2>2, <1>7, <1>9 DEF SomeoneCached
<1>13. NoneStale'
  BY <1>1, <1>2, <1>3, <1>5 DEF NoneStale, CacheInv, CacheTypeOK, ReadersOK
<1>14. ChargedOne'
  BY <1>1, <1>5 DEF ChargedOne, CacheInv, CacheTypeOK
<1>15. AllocBounded'
  BY <1>5 DEF AllocBounded
<1> QED
  BY <1>4, <1>10, <1>11, <1>12, <1>13, <1>14, <1>15 DEF TCInv

\* An open that fails leaves no trace in the cache.
LEMMA FailKeeps ==
  ASSUME TCInv, NEW t \in Readers, OpenFails(t)
  PROVE  TCInv'
<1>1. ReadersOK /\ reader[t].pc = "open" /\ reader[t].handle = Nil
  BY DEF TCInv, ReadersOK, OpenFails
<1>2. reader' = [reader EXCEPT ![t] = Idle] /\ UNCHANGED <<cacheVars, version, onDisk>>
  BY DEF OpenFails
<1>3. reader'[t] = Idle /\ \A u \in Readers \ {t} : reader'[u] = reader[u]
  BY <1>1, <1>2 DEF ReadersOK
<1>4. keyOf' = keyOf
  BY <1>2 DEF cacheVars, vars, entry
<1>5. Idle \in [pc : {"idle", "open", "use"}, file : Keys \cup {Nil}, handle : Handles \cup {Nil}]
      /\ Idle.pc = "idle" /\ Idle.handle = Nil
  BY DEF Idle
<1>6. reader' \in [Readers -> [pc : {"idle", "open", "use"}, file : Keys \cup {Nil}, handle : Handles \cup {Nil}]]
  BY <1>1, <1>2, <1>5 DEF ReadersOK
<1>7. ReadersOK'
  BY <1>1, <1>2, <1>3, <1>4, <1>5, <1>6 DEF ReadersOK
<1>8. \A u \in Readers : reader'[u].handle = reader[u].handle
  BY <1>1, <1>3, <1>5
<1> QED
  BY <1>2, <1>7, <1>8, QuietKeeps

\* The reader's table may be freed now, but only if no other reader has it.
LEMMA UnrefKeeps ==
  ASSUME TCInv, NEW t \in Readers, UnrefEntry(t)
  PROVE  TCInv'
<1> DEFINE e == reader[t].handle
<1>1. CacheInv /\ ReadersOK /\ HeldByReaders /\ NoneStale /\ ChargedOne /\ SomeoneCached /\ AllocBounded
  BY DEF TCInv
<1>2. /\ reader[t].pc = "use" /\ Release(e) /\ reader' = [reader EXCEPT ![t] = Idle]
      /\ UNCHANGED <<version, onDisk>>
  BY DEF UnrefEntry
<1>3. e \in Handles
  BY <1>1, <1>2 DEF ReadersOK
<1>4. CacheInv'
  BY <1>1, <1>2, <1>3, ReleaseKeeps
<1>5. /\ held' = [held EXCEPT ![e] = held[e] - 1] /\ alloc' \subseteq alloc
      /\ UNCHANGED <<keyOf, charge, inCache, table, usage, pc, victim>>
  BY <1>2 DEF Release, Unref
<1>6. Idle \in [pc : {"idle", "open", "use"}, file : Keys \cup {Nil}, handle : Handles \cup {Nil}]
      /\ Idle.pc = "idle" /\ Idle.handle = Nil
  BY DEF Idle
<1>7. reader'[t] = Idle /\ \A u \in Readers \ {t} : reader'[u] = reader[u]
  BY <1>1, <1>2 DEF ReadersOK
<1>8. reader' \in [Readers -> [pc : {"idle", "open", "use"}, file : Keys \cup {Nil}, handle : Handles \cup {Nil}]]
  BY <1>1, <1>2, <1>6 DEF ReadersOK
<1>9. ReadersOK'
  BY <1>1, <1>2, <1>5, <1>6, <1>7, <1>8 DEF ReadersOK
<1>10. HeldByReaders'
  <2> SUFFICES ASSUME NEW h \in Handles PROVE held'[h] = Cardinality(Using(h)')
    BY DEF HeldByReaders, Using
  <2>1. held \in [Handles -> Nat] /\ h # Nil /\ held[h] = Cardinality(Using(h))
    BY <1>1, CacheAssumption DEF HeldByReaders, CacheInv, CacheTypeOK
  <2>2. CASE h = e
    <3>1. Cardinality(Using(h)') = Cardinality(Using(h)) - 1
      BY <2>1, <2>2, <1>1, <1>2, <1>6, UsersChange
    <3>2. held'[h] = held[h] - 1
      BY <2>1, <2>2, <1>5
    <3> QED
      BY <3>1, <3>2, <2>1
  <2>3. CASE h # e
    <3>1. Using(h)' = Using(h)
      BY <2>1, <2>3, <1>1, <1>2, <1>6, UsersChange
    <3>2. held'[h] = held[h]
      BY <2>1, <2>3, <1>5
    <3> QED
      BY <3>1, <3>2, <2>1
  <2> QED
    BY <2>2, <2>3
<1>11. SomeoneCached'
  BY <1>6, <1>7 DEF SomeoneCached
<1>12. NoneStale' /\ ChargedOne'
  BY <1>1, <1>2, <1>5 DEF NoneStale, ChargedOne
<1>13. usage' <= usage
  BY <1>1, <1>5 DEF CacheInv, CacheTypeOK
<1>14. AllocBounded'
  BY <1>1, <1>4, <1>5, <1>13, BoundKept
<1> QED
  BY <1>4, <1>9, <1>10, <1>11, <1>12, <1>14 DEF TCInv

LEMMA DropKeeps ==
  ASSUME TCInv, NEW f \in Keys, DropFromVersions(f)
  PROVE  TCInv'
<1>1. ReadersOK /\ UNCHANGED <<cacheVars, reader, onDisk>> /\ version' = version \ {f}
      /\ \A t \in Readers : reader[t].file # f
  BY DEF TCInv, DropFromVersions
<1>2. keyOf' = keyOf
  BY <1>1 DEF cacheVars, vars, entry
<1>3. ReadersOK'
  BY <1>1, <1>2 DEF ReadersOK
<1> QED
  BY <1>1, <1>3, QuietKeeps

\* Evict: nobody reads the file any more, so none can insert it again.
LEMMA EvictFileKeeps ==
  ASSUME TCInv, NEW f \in Keys, EvictFile(f)
  PROVE  TCInv'
<1>1. CacheInv /\ ReadersOK /\ HeldByReaders /\ NoneStale /\ ChargedOne /\ SomeoneCached /\ AllocBounded
  BY DEF TCInv
<1>2. f \in onDisk \ version /\ Erase(f) /\ onDisk' = onDisk \ {f} /\ UNCHANGED <<reader, version>>
  BY DEF EvictFile
<1>3. CacheInv'
  BY <1>1, <1>2, EraseKeeps
<1>4. /\ pc = "free" /\ pc' = "erase" /\ victim' = table[f] /\ table' = [table EXCEPT ![f] = Nil]
      /\ UNCHANGED <<alloc, keyOf, charge, inCache, usage, held>>
  BY <1>2 DEF Erase, Remove, entry
<1>5. ReadersOK'
  BY <1>1, <1>2, <1>4 DEF ReadersOK
<1>6. HeldByReaders'
  BY <1>1, <1>2, <1>4, HeldSame
<1>7. NoneStale' /\ ChargedOne'
  BY <1>1, <1>2, <1>4 DEF NoneStale, ChargedOne, CacheInv, CacheTypeOK
<1>8. SomeoneCached'
  <2>1. PICK t \in Readers : reader[t].handle = Nil \/ inCache[reader[t].handle]
    BY <1>1 DEF SomeoneCached
  <2>2. CASE reader[t].handle = Nil
    BY <2>2, <1>2 DEF SomeoneCached
  <2>3. CASE reader[t].handle # Nil
    <3>1. keyOf[reader[t].handle] \in version
      BY <2>3, <1>1 DEF ReadersOK
    <3>2. table[f] # Nil => keyOf[table[f]] = f
      BY <1>1 DEF CacheInv, TableMatches
    <3>3. reader[t].handle # victim'
      BY <3>1, <3>2, <2>3, <1>2, <1>4
    <3> QED
      BY <3>3, <2>1, <2>3, <1>2, <1>4 DEF SomeoneCached
  <2> QED
    BY <2>2, <2>3
<1>9. usage' <= usage
  BY <1>1, <1>4 DEF CacheInv, CacheTypeOK
<1>10. AllocBounded'
  BY <1>1, <1>3, <1>4, <1>9, BoundKept
<1> QED
  BY <1>3, <1>5, <1>6, <1>7, <1>8, <1>10 DEF TCInv

\* With any number of readers, files and cells of memory, every reader gets the
\* table of its file and keeps it, no table of a deleted file stays, and open
\* tables are bounded by the capacity and the readers (table_cache.cc:41-123).
THEOREM TablesSafe == TCSpec => [](CacheConsistent /\ TableCacheSafe /\ OpenTablesBounded)
<1>1. TCInv /\ [TCNext]_tcVars => TCInv'
  <2> SUFFICES ASSUME TCInv, [TCNext]_tcVars PROVE TCInv'
    OBVIOUS
  <2>1. ASSUME NEW t \in Readers, NEW f \in Keys, FindTable(t, f) PROVE TCInv'
    BY <2>1, FindKeeps
  <2>2. ASSUME NEW t \in Readers, NEW h \in Handles, OpenTable(t, h) PROVE TCInv'
    BY <2>2, OpenKeeps
  <2>3. ASSUME NEW t \in Readers, OpenFails(t) \/ UnrefEntry(t) PROVE TCInv'
    BY <2>3, FailKeeps, UnrefKeeps
  <2>4. ASSUME NEW f \in Keys, DropFromVersions(f) \/ EvictFile(f) PROVE TCInv'
    BY <2>4, DropKeeps, EvictFileKeeps
  <2>5. ASSUME CacheSteps PROVE TCInv'
    BY <2>5, CacheStepsKeep
  <2>6. ASSUME UNCHANGED tcVars PROVE TCInv'
    <3>1. ReadersOK /\ UNCHANGED <<cacheVars, reader, version, onDisk>>
      BY <2>6 DEF TCInv, tcVars
    <3>2. keyOf' = keyOf
      BY <3>1 DEF cacheVars, vars, entry
    <3>3. ReadersOK'
      BY <3>1, <3>2 DEF ReadersOK
    <3> QED
      BY <3>1, <3>3, QuietKeeps
  <2> QED
    BY <2>1, <2>2, <2>3, <2>4, <2>5, <2>6 DEF TCNext
<1>2. TCInv => CacheConsistent /\ TableCacheSafe /\ OpenTablesBounded
  BY InvSafe, InvConsistent DEF TCInv
<1> QED
  BY <1>1, <1>2, InitTC, PTL DEF TCSpec
=============================================================================
