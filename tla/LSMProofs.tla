------------------------------ MODULE LSMProofs ------------------------------
(***************************************************************************)
(* Proofs about LSM: every version of leveldb's levels is well formed, and *)
(* Get returns the last update, for any number of keys, levels, files and  *)
(* writes.  What the search and the grouping of files compute comes first; *)
(* then what each action does to the files; then the two invariants, that  *)
(* the files of a level lie apart and that newer entries are found first.  *)
(***************************************************************************)
EXTENDS LSM, FiniteSetTheorems, SequenceTheorems, WellFoundedInduction, TLAPS

-----------------------------------------------------------------------------
(* Numbers and ranks *)

\* A nonempty set of natural numbers has a least element.
LEMMA Least == ASSUME NEW S, S \subseteq Nat, S # {} PROVE \E m \in S : \A n \in S : m <= n
<1> DEFINE R == OpToRel(<, Nat)
<1>1. IsWellFoundedOn(R, Nat)
  BY NatLessThanWellFounded
<1> HIDE DEF R
<1>2. PICK m \in S : \A n \in S : ~(<<n, m>> \in R)
  BY <1>1, WFMin
<1>3. ASSUME NEW n \in S PROVE m <= n
  <2>1. n \in Nat /\ m \in Nat /\ ~(<<n, m>> \in R)
    BY <1>2
  <2> QED
    BY <2>1 DEF R, OpToRel
<1> QED
  BY <1>3

\* Min and Max of a bounded set of natural numbers.
LEMMA MinIs ==
    ASSUME NEW S, S \subseteq Nat, S # {}
    PROVE  Min(S) \in S /\ \A n \in S : Min(S) <= n
<1>1. \E m \in S : \A n \in S : m <= n
  BY Least
<1> QED
  BY <1>1 DEF Min

LEMMA MaxIs ==
    ASSUME NEW S, NEW b \in Nat, S \subseteq 0 .. b, S # {}
    PROVE  Max(S) \in S /\ \A n \in S : Max(S) >= n
<1> DEFINE D == {n \in 0 .. b : b - n \in S}
<1>1. PICK k \in S : TRUE
  OBVIOUS
<1>2. b - k \in D
  BY <1>1
<1> HIDE DEF D
<1>3. D \subseteq Nat /\ D # {}
  BY <1>2 DEF D
<1>4. PICK m \in D : \A n \in D : m <= n
  BY <1>3, Least
<1>5. m \in 0 .. b /\ b - m \in S
  BY <1>4 DEF D
<1>6. ASSUME NEW n \in S PROVE b - m >= n
  <2>1. n \in 0 .. b /\ b - n \in 0 .. b /\ b - (b - n) = n
    OBVIOUS
  <2>2. b - n \in D
    BY <2>1 DEF D
  <2>3. m <= b - n
    BY <1>4, <2>2
  <2> QED
    BY <1>5, <2>1, <2>3
<1>7. \E x \in S : \A y \in S : x >= y
  BY <1>5, <1>6
<1> QED
  BY <1>7 DEF Max

\* A finite set in a strict total order R: its elements by their ranks.
TotalOrder(S, R) ==
    /\ \A x \in S : <<x, x>> \notin R
    /\ \A x, y \in S : x # y => <<x, y>> \in R \/ <<y, x>> \in R
    /\ \A x, y, z \in S : <<x, y>> \in R /\ <<y, z>> \in R => <<x, z>> \in R
Under(S, R, x) == {y \in S : <<y, x>> \in R}
Ranked(S, R) == [i \in 1 .. Cardinality(S) |-> CHOOSE x \in S : Cardinality(Under(S, R, x)) = i - 1]

LEMMA RankedIs ==
    ASSUME NEW S, NEW R, IsFiniteSet(S), TotalOrder(S, R)
    PROVE  /\ Ranked(S, R) \in Seq(S) /\ Len(Ranked(S, R)) = Cardinality(S)
           /\ \A x \in S : \E i \in 1 .. Cardinality(S) : Ranked(S, R)[i] = x
           /\ \A i, j \in 1 .. Cardinality(S) : i < j => <<Ranked(S, R)[i], Ranked(S, R)[j]>> \in R
<1> DEFINE n == Cardinality(S)
           pos == [x \in S |-> Cardinality(Under(S, R, x))]
           s == Ranked(S, R)
<1>1. n \in Nat
  BY FS_CardinalityType
<1>2. ASSUME NEW x \in S
      PROVE  IsFiniteSet(Under(S, R, x)) /\ Cardinality(Under(S, R, x)) \in 0 .. n - 1
  <2>1. Under(S, R, x) \subseteq S \ {x}
    BY DEF Under, TotalOrder
  <2>2. IsFiniteSet(S \ {x}) /\ Cardinality(S \ {x}) = n - 1
    BY FS_RemoveElement
  <2>3. IsFiniteSet(Under(S, R, x)) /\ Cardinality(Under(S, R, x)) <= n - 1
    BY <2>1, <2>2, FS_Subset
  <2> QED
    BY <1>1, <2>3, FS_CardinalityType
<1>3. ASSUME NEW x \in S, NEW y \in S, <<x, y>> \in R
      PROVE  Cardinality(Under(S, R, x)) < Cardinality(Under(S, R, y))
  <2>1. Under(S, R, x) \subseteq Under(S, R, y) \ {x} /\ x \in Under(S, R, y)
    BY <1>3 DEF Under, TotalOrder
  <2>2. IsFiniteSet(Under(S, R, y) \ {x}) /\ Cardinality(Under(S, R, y) \ {x}) = Cardinality(Under(S, R, y)) - 1
    BY <1>2, <2>1, FS_RemoveElement
  <2>3. Cardinality(Under(S, R, x)) <= Cardinality(Under(S, R, y)) - 1
    BY <2>1, <2>2, FS_Subset
  <2> QED
    BY <1>2, <2>3
<1>4. pos \in Injection(S, 0 .. n - 1)
  <2>1. pos \in [S -> 0 .. n - 1]
    BY <1>2
  <2>2. ASSUME NEW x \in S, NEW y \in S, x # y PROVE pos[x] # pos[y]
    <3>1. <<x, y>> \in R \/ <<y, x>> \in R
      BY <2>2 DEF TotalOrder
    <3>2. pos[x] \in 0 .. n - 1 /\ pos[y] \in 0 .. n - 1
      BY <2>1
    <3> HIDE DEF n
    <3> QED
      BY <1>3, <3>1, <3>2
  <2> QED
    BY <2>1, <2>2 DEF Injection, IsInjective
<1>5. IsFiniteSet(0 .. n - 1) /\ Cardinality(0 .. n - 1) = n
  <2>1. PICK b \in Int : b = n - 1 /\ b >= -1
    BY <1>1
  <2>2. IsFiniteSet(0 .. b) /\ Cardinality(0 .. b) = IF 0 > b THEN 0 ELSE b - 0 + 1
    BY FS_Interval
  <2> HIDE DEF n
  <2> QED
    BY <1>1, <2>1, <2>2
<1>6. pos \in Surjection(S, 0 .. n - 1)
  <2>1. PICK T, f : T = 0 .. n - 1 /\ f = pos
    OBVIOUS
  <2>2. f \in Injection(S, T) /\ IsFiniteSet(T) /\ Cardinality(T) = Cardinality(S)
    BY <1>4, <1>5, <2>1
  <2>3. f \in Surjection(S, T)
    BY <2>2, FS_Injection
  <2> QED
    BY <2>1, <2>3
<1>7. ASSUME NEW i \in 1 .. n
      PROVE  s[i] \in S /\ Cardinality(Under(S, R, s[i])) = i - 1
  <2>1. i - 1 \in 0 .. n - 1
    BY <1>1
  <2>2. \E x \in S : pos[x] = i - 1
    BY <1>6, <2>1 DEF Surjection
  <2>3. \E x \in S : Cardinality(Under(S, R, x)) = i - 1
    BY <2>2
  <2>4. s[i] = CHOOSE x \in S : Cardinality(Under(S, R, x)) = i - 1
    BY DEF Ranked
  <2> QED
    BY <2>3, <2>4
<1>8. s \in Seq(S) /\ Len(s) = n
  <2>1. DOMAIN s = 1 .. n
    BY DEF Ranked
  <2>2. s = [i \in 1 .. n |-> s[i]]
    BY DEF Ranked
  <2> HIDE DEF s, n
  <2> QED
    BY <1>1, <1>7, <2>1, <2>2
<1>9. ASSUME NEW x \in S PROVE \E i \in 1 .. n : s[i] = x
  <2> DEFINE i == Cardinality(Under(S, R, x)) + 1
  <2>1. i \in 1 .. n /\ i - 1 = Cardinality(Under(S, R, x))
    BY <1>1, <1>2
  <2>2. s[i] \in S /\ Cardinality(Under(S, R, s[i])) = Cardinality(Under(S, R, x))
    BY <1>7, <2>1
  <2>3. pos[s[i]] = pos[x]
    BY <2>2
  <2>4. s[i] = x
    BY <1>4, <2>2, <2>3 DEF Injection, IsInjective
  <2> QED
    BY <2>1, <2>4
<1>10. ASSUME NEW i \in 1 .. n, NEW j \in 1 .. n, i < j PROVE <<s[i], s[j]>> \in R
  <2>1. /\ s[i] \in S /\ Cardinality(Under(S, R, s[i])) = i - 1
        /\ s[j] \in S /\ Cardinality(Under(S, R, s[j])) = j - 1
    BY <1>7
  <2>2. s[i] # s[j]
    BY <1>10, <2>1
  <2>3. ~(<<s[j], s[i]>> \in R)
    <3>1. SUFFICES ASSUME <<s[j], s[i]>> \in R PROVE FALSE
      OBVIOUS
    <3>2. Cardinality(Under(S, R, s[j])) < Cardinality(Under(S, R, s[i]))
      BY <1>3, <2>1, <3>1
    <3> QED
      BY <1>10, <2>1, <3>2
  <2> QED
    BY <2>1, <2>2, <2>3 DEF TotalOrder
<1> QED
  BY <1>8, <1>9, <1>10

-----------------------------------------------------------------------------
(* FindFile *)

\* One step of the binary search, with what it finds in the rest.
Halve(fs, t, g, x) ==
    LET left == x[1]
        right == x[2]
        mid == (left + right) \div 2
    IN  IF left >= right THEN right
        ELSE IF Less(Largest(fs[mid + 1]), t) THEN g[<<mid + 1, right>>]
        ELSE g[<<left, mid>>]
Ends(fs) == (0 .. Len(fs)) \X (0 .. Len(fs))
Searches(fs, t, g) == g = [x \in Ends(fs) |-> Halve(fs, t, g, x)]

\* The binary search ends: there is a function that satisfies its equation.
LEMMA SearchExists ==
    ASSUME NEW fs, NEW t, Len(fs) \in Nat PROVE \E g : Searches(fs, t, g)
<1> DEFINE D == Ends(fs)
           Good(n, g) == /\ g = [x \in D |-> g[x]]
                         /\ \A x \in D : x[2] - x[1] <= n => g[x] = Halve(fs, t, g, x)
           Bad == {n \in Nat : ~ \E g : Good(n, g)}
<1>1. \A x \in D : x[1] \in 0 .. Len(fs) /\ x[2] \in 0 .. Len(fs) /\ x = <<x[1], x[2]>>
  BY DEF Ends
<1>2. \E g : Good(0, g)
  <2> DEFINE g == [x \in D |-> x[2]]
  <2>1. ASSUME NEW x \in D, x[2] - x[1] <= 0 PROVE g[x] = Halve(fs, t, g, x)
    BY <1>1, <2>1 DEF Halve
  <2> QED
    BY <2>1
<1>3. ASSUME NEW n \in Nat, NEW g, Good(n, g) PROVE \E h : Good(n + 1, h)
  <2> DEFINE h == [x \in D |-> IF x[2] - x[1] <= n THEN g[x] ELSE Halve(fs, t, g, x)]
  <2>1. ASSUME NEW x \in D, x[2] - x[1] <= n + 1 PROVE h[x] = Halve(fs, t, h, x)
    <3> DEFINE mid == (x[1] + x[2]) \div 2
    <3>1. x[1] \in 0 .. Len(fs) /\ x[2] \in 0 .. Len(fs)
      BY <1>1
    <3>2. CASE x[1] >= x[2]
      BY <1>3, <3>1, <3>2 DEF Halve
    <3>3. CASE x[1] < x[2]
      <4>1. mid \in x[1] .. x[2] - 1
        BY <3>1, <3>3
      <4> HIDE DEF mid
      <4>2. /\ <<mid + 1, x[2]>> \in D /\ x[2] - (mid + 1) <= n
            /\ <<x[1], mid>> \in D /\ mid - x[1] <= n
        BY <2>1, <3>1, <3>3, <4>1 DEF Ends
      <4>3. h[<<mid + 1, x[2]>>] = g[<<mid + 1, x[2]>>] /\ h[<<x[1], mid>>] = g[<<x[1], mid>>]
        BY <4>2
      <4>4. Halve(fs, t, h, x) = Halve(fs, t, g, x)
        BY <4>3 DEF Halve, mid
      <4>5. h[x] = IF x[2] - x[1] <= n THEN g[x] ELSE Halve(fs, t, g, x)
        OBVIOUS
      <4> QED
        BY <1>3, <4>4, <4>5
    <3> QED
      BY <3>1, <3>2, <3>3
  <2> QED
    BY <2>1
<1> HIDE DEF Good, D
<1>4. Bad = {}
  <2>1. SUFFICES ASSUME Bad # {} PROVE FALSE
    OBVIOUS
  <2>2. PICK m \in Bad : \A n \in Bad : m <= n
    BY <2>1, Least
  <2>3. m # 0
    BY <1>2
  <2>4. m - 1 \in Nat /\ m - 1 \notin Bad
    BY <2>2, <2>3
  <2>5. PICK g : Good(m - 1, g)
    BY <2>4
  <2>6. \E h : Good((m - 1) + 1, h)
    BY <1>3, <2>4, <2>5
  <2> QED
    BY <2>2, <2>6
<1>5. PICK g : Good(Len(fs), g)
  BY <1>4
<1>6. \A x \in D : x[2] - x[1] <= Len(fs)
  BY <1>1
<1>7. Searches(fs, t, g)
  BY <1>5, <1>6 DEF Good, D, Searches
<1> QED
  BY <1>7

\* It finds the first file whose largest key is not before t, if these keys are in order.
LEMMA FindFileIs ==
    ASSUME NEW fs, NEW t, Len(fs) \in Nat,
           \A i, j \in 1 .. Len(fs) : i < j /\ Less(Largest(fs[j]), t) => Less(Largest(fs[i]), t)
    PROVE  /\ FindFile(fs, t) \in 0 .. Len(fs)
           /\ \A i \in 1 .. Len(fs) : i <= FindFile(fs, t) <=> Less(Largest(fs[i]), t)
<1> DEFINE P(i) == Less(Largest(fs[i]), t)
           g == CHOOSE h : Searches(fs, t, h)
<1>1. Searches(fs, t, g)
  BY SearchExists
<1>2. FindFile(fs, t) = g[<<0, Len(fs)>>]
  BY DEF FindFile, Searches, Halve, Ends
<1> HIDE DEF g
<1>3. ASSUME NEW x \in Ends(fs) PROVE g[x] = Halve(fs, t, g, x)
  BY <1>1 DEF Searches
<1> DEFINE Right(l, r) ==
             /\ g[<<l, r>>] \in l .. r
             /\ \A i \in l + 1 .. r : i <= g[<<l, r>>] <=> P(i)
           Bad == {n \in Nat : \E l, r \in 0 .. Len(fs) : l <= r /\ r - l = n /\ ~Right(l, r)}
<1>4. Bad = {}
  <2>1. SUFFICES ASSUME Bad # {} PROVE FALSE
    OBVIOUS
  <2>2. PICK n \in Bad : \A m \in Bad : n <= m
    BY <2>1, Least
  <2>3. PICK l \in 0 .. Len(fs), r \in 0 .. Len(fs) : l <= r /\ r - l = n /\ ~Right(l, r)
    BY <2>2
  <2>4. ASSUME NEW a \in 0 .. Len(fs), NEW b \in 0 .. Len(fs), a <= b, b - a < n PROVE Right(a, b)
    <3> HIDE DEF Bad
    <3>1. n \in Nat /\ b - a \in Nat /\ ~(n <= b - a)
      BY <2>2, <2>4 DEF Bad
    <3>2. b - a \notin Bad
      BY <2>2, <3>1
    <3> QED
      BY <2>4, <3>1, <3>2 DEF Bad
  <2> DEFINE mid == (l + r) \div 2
  <2>5. <<l, r>> \in Ends(fs) /\ <<l, r>>[1] = l /\ <<l, r>>[2] = r
    BY DEF Ends
  <2>6. g[<<l, r>>] = IF l >= r THEN r ELSE IF P(mid + 1) THEN g[<<mid + 1, r>>] ELSE g[<<l, mid>>]
    BY <1>3, <2>5 DEF Halve
  <2>7. CASE l = r
    BY <2>3, <2>6, <2>7
  <2>8. CASE l < r
    <3>1. mid \in l .. r - 1
      BY <2>8
    <3> HIDE DEF mid, P, Bad, Right
    <3>2. CASE P(mid + 1)
      <4>1. g[<<l, r>>] = g[<<mid + 1, r>>] /\ Right(mid + 1, r)
        <5>1. mid + 1 \in 0 .. Len(fs) /\ mid + 1 <= r /\ r - (mid + 1) < n
          BY <2>3, <3>1
        <5> QED
          BY <2>4, <2>6, <2>8, <3>2, <5>1
      <4>2. g[<<l, r>>] \in mid + 1 .. r /\ \A i \in (mid + 1) + 1 .. r : i <= g[<<l, r>>] <=> P(i)
        BY <4>1 DEF P, Right
      <4>3. ASSUME NEW i \in l + 1 .. r, i <= mid + 1 PROVE P(i) /\ i <= g[<<l, r>>]
        <5>1. i = mid + 1 \/ i < mid + 1
          BY <3>1, <4>3
        <5>2. i \in 1 .. Len(fs) /\ mid + 1 \in 1 .. Len(fs)
          BY <2>3, <3>1
        <5>3. P(i)
          BY <3>2, <5>1, <5>2 DEF P
        <5>4. i <= g[<<l, r>>]
          BY <3>1, <4>2, <4>3
        <5> QED
          BY <5>3, <5>4
      <4>4. \A i \in l + 1 .. r : i <= mid + 1 \/ i \in (mid + 1) + 1 .. r
        BY <3>1
      <4>5. g[<<l, r>>] \in l .. r
        BY <3>1, <4>2
      <4> QED
        BY <2>3, <4>2, <4>3, <4>4, <4>5 DEF P, Right
    <3>3. CASE ~P(mid + 1)
      <4>1. g[<<l, r>>] = g[<<l, mid>>] /\ Right(l, mid)
        <5>1. mid \in 0 .. Len(fs) /\ l <= mid /\ mid - l < n
          BY <2>3, <3>1
        <5> QED
          BY <2>4, <2>6, <2>8, <3>3, <5>1
      <4>v. PICK v : v = g[<<l, mid>>]
        OBVIOUS
      <4>w. v \in l .. mid /\ \A i \in l + 1 .. mid : i <= v <=> P(i)
        <5>1. g[<<l, mid>>] \in l .. mid /\ \A i \in l + 1 .. mid : i <= g[<<l, mid>>] <=> P(i)
          BY <4>1 DEF Right
        <5> QED
          BY <4>v, <5>1 DEF P
      <4>2. g[<<l, r>>] = v
        BY <4>1, <4>v
      <4>3. ASSUME NEW i \in l + 1 .. r, i >= mid + 1 PROVE ~P(i) /\ ~(i <= g[<<l, r>>])
        <5>1. i = mid + 1 \/ mid + 1 < i
          BY <3>1, <4>3
        <5>2. i \in 1 .. Len(fs) /\ mid + 1 \in 1 .. Len(fs)
          BY <2>3, <3>1
        <5>3. ~P(i)
          BY <3>3, <5>1, <5>2 DEF P
        <5>4. ~(i <= g[<<l, r>>])
          BY <3>1, <4>w, <4>2, <4>3
        <5> QED
          BY <5>3, <5>4
      <4>4. \A i \in l + 1 .. r : i >= mid + 1 \/ i \in l + 1 .. mid
        BY <3>1
      <4>5. g[<<l, r>>] \in l .. r
        BY <3>1, <4>w, <4>2
      <4>6. ASSUME NEW i \in l + 1 .. r PROVE i <= g[<<l, r>>] <=> P(i)
        BY <4>w, <4>2, <4>3, <4>4, <4>6 DEF P
      <4> QED
        BY <2>3, <4>5, <4>6 DEF Right
    <3> QED
      BY <3>2, <3>3
  <2> QED
    BY <2>3, <2>7, <2>8
<1>5. Right(0, Len(fs))
  <2> HIDE DEF Right
  <2>1. Len(fs) \in Nat /\ 0 \in 0 .. Len(fs) /\ Len(fs) \in 0 .. Len(fs) /\ Len(fs) - 0 = Len(fs) /\ 0 <= Len(fs)
    OBVIOUS
  <2>2. ~ \E l, r \in 0 .. Len(fs) : l <= r /\ r - l = Len(fs) /\ ~Right(l, r)
    BY <1>4, <2>1
  <2> QED
    BY <2>1, <2>2
<1> QED
  BY <1>2, <1>5

-----------------------------------------------------------------------------
(* Entries and tables *)

IsSorted(d) == \A i, j \in DOMAIN d : i < j => Less(d[i], d[j])

\* A set of updates, each with a sequence number of its own.
Updates(E) ==
    /\ \A e \in E : e.key \in Keys /\ e.seq \in 1 .. MaxWrites
    /\ \A e, d \in E : e.seq = d.seq => e = d

\* A file with updates of E.
Table(E, f) == f.num \in Nat /\ f.data \in Seq(E) /\ f.data # <<>> /\ IsSorted(f.data)

First(f) == Smallest(f).key
Last(f) == Largest(f).key

LEMMA LessIsOrder ==
    ASSUME NEW E, Updates(E), NEW a \in E, NEW b \in E, NEW c \in E
    PROVE  /\ ~Less(a, a) /\ (a # b => Less(a, b) \/ Less(b, a))
           /\ (Less(a, b) => ~Less(b, a) /\ a # b)
           /\ (Less(a, b) /\ Less(b, c) => Less(a, c))
           /\ (a.key < b.key => Less(a, b)) /\ (Less(a, b) => a.key <= b.key)
<1>1. /\ a.key \in Int /\ b.key \in Int /\ c.key \in Int
      /\ a.seq \in Int /\ b.seq \in Int /\ c.seq \in Int /\ (a.seq = b.seq => a = b)
  BY DEF Updates, Keys
<1> QED
  BY <1>1 DEF Less

\* Sorted returns the entries of a set in order.
LEMMA SortedIs ==
    ASSUME NEW E, Updates(E), NEW S, S \subseteq E, IsFiniteSet(S)
    PROVE  /\ Sorted(S) \in Seq(S) /\ Len(Sorted(S)) = Cardinality(S)
           /\ Range(Sorted(S)) = S /\ IsSorted(Sorted(S))
<1> DEFINE R == {p \in S \X S : Less(p[1], p[2])}
<1>1. \A x, y \in S : <<x, y>> \in R <=> Less(x, y)
  OBVIOUS
<1>2. \A x \in S : Under(S, R, x) = {y \in S : Less(y, x)}
  BY <1>1 DEF Under
<1> HIDE DEF R
<1> DEFINE G(i) == CHOOSE x \in S : Cardinality(Under(S, R, x)) = i
           H(i) == CHOOSE x \in S : Cardinality({y \in S : Less(y, x)}) = i
<1>3. \A i : G(i) = H(i)
  BY <1>2
<1>4. Sorted(S) = Ranked(S, R)
  <2>1. Sorted(S) = [i \in 1 .. Cardinality(S) |-> H(i - 1)]
    BY DEF Sorted
  <2>2. Ranked(S, R) = [i \in 1 .. Cardinality(S) |-> G(i - 1)]
    BY DEF Ranked
  <2> HIDE DEF G, H
  <2> QED
    BY <1>3, <2>1, <2>2
<1>5. TotalOrder(S, R)
  <2>1. ASSUME NEW x \in S PROVE <<x, x>> \notin R
    BY <1>1, LessIsOrder
  <2>2. ASSUME NEW x \in S, NEW y \in S, x # y PROVE <<x, y>> \in R \/ <<y, x>> \in R
    BY <1>1, <2>2, LessIsOrder
  <2>3. ASSUME NEW x \in S, NEW y \in S, NEW z \in S, <<x, y>> \in R, <<y, z>> \in R PROVE <<x, z>> \in R
    BY <1>1, <2>3, LessIsOrder
  <2> QED
    BY <2>1, <2>2, <2>3 DEF TotalOrder
<1> DEFINE s == Ranked(S, R)
           n == Cardinality(S)
<1>6. /\ s \in Seq(S) /\ Len(s) = n /\ n \in Nat
      /\ \A x \in S : \E i \in 1 .. n : s[i] = x
      /\ \A i, j \in 1 .. n : i < j => <<s[i], s[j]>> \in R
  <2>1. n \in Nat
    BY FS_CardinalityType
  <2> QED
    BY <1>5, <2>1, RankedIs
<1> HIDE DEF s, n
<1>7. DOMAIN s = 1 .. n /\ \A i \in 1 .. n : s[i] \in S
  BY <1>6
<1>8. Range(s) = S
  BY <1>6, <1>7 DEF Range
<1>9. IsSorted(s)
  BY <1>1, <1>6, <1>7 DEF IsSorted
<1> QED
  BY <1>4, <1>6, <1>8, <1>9 DEF s, n

\* The ends of a table.
LEMMA TableEnds ==
    ASSUME NEW E, Updates(E), NEW f, Table(E, f)
    PROVE  /\ Smallest(f) \in Range(f.data) /\ Largest(f) \in Range(f.data) /\ Range(f.data) \subseteq E
           /\ First(f) \in Keys /\ Last(f) \in Keys /\ First(f) <= Last(f)
           /\ \A e \in Range(f.data) : /\ e = Smallest(f) \/ Less(Smallest(f), e)
                                       /\ e = Largest(f) \/ Less(e, Largest(f))
                                       /\ First(f) <= e.key /\ e.key <= Last(f)
<1> DEFINE d == f.data
           n == Len(f.data)
<1>1. d \in Seq(E) /\ n \in Nat /\ n # 0 /\ DOMAIN d = 1 .. n /\ \A i \in 1 .. n : d[i] \in E
  BY DEF Table
<1>2. \A i, j \in 1 .. n : i < j => Less(d[i], d[j])
  BY <1>1 DEF Table, IsSorted
<1>3. Smallest(f) = d[1] /\ Largest(f) = d[n]
  BY DEF Smallest, Largest
<1> HIDE DEF d, n
<1>4. Smallest(f) \in Range(d) /\ Largest(f) \in Range(d) /\ Range(d) \subseteq E
  BY <1>1, <1>3 DEF Range
<1>5. ASSUME NEW e \in Range(d)
      PROVE  /\ e = Smallest(f) \/ Less(Smallest(f), e)
             /\ e = Largest(f) \/ Less(e, Largest(f))
  <2>1. PICK i \in 1 .. n : e = d[i]
    BY <1>1 DEF Range
  <2>2. i = 1 \/ 1 < i
    OBVIOUS
  <2>3. i = n \/ i < n
    BY <1>1
  <2> QED
    BY <1>1, <1>2, <1>3, <2>1, <2>2, <2>3
<1>6. \A e \in Range(d) : First(f) <= e.key /\ e.key <= Last(f)
  <2>1. ASSUME NEW e \in Range(d) PROVE First(f) <= e.key /\ e.key <= Last(f)
    <3>1. e \in E /\ Smallest(f) \in E /\ Largest(f) \in E
      BY <1>4
    <3>2. e.key \in Int /\ Smallest(f).key \in Int /\ Largest(f).key \in Int
      BY <3>1 DEF Updates, Keys
    <3> QED
      BY <1>5, <3>1, <3>2, LessIsOrder DEF First, Last
  <2> QED
    BY <2>1
<1>7. First(f) \in Keys /\ Last(f) \in Keys
  BY <1>4 DEF Updates, First, Last
<1> QED
  BY <1>4, <1>5, <1>6, <1>7 DEF d, First

\* InOrder returns the files of a level by their smallest keys.
LEMMA InOrderIs ==
    ASSUME NEW E, Updates(E), NEW F, IsFiniteSet(F), \A f \in F : Table(E, f),
           \A f, g \in F : f.num = g.num => f = g
    PROVE  /\ InOrder(F) \in Seq(F) /\ Len(InOrder(F)) = Cardinality(F) /\ Range(InOrder(F)) = F
           /\ \A i, j \in 1 .. Len(InOrder(F)) : i < j => Before(InOrder(F)[i], InOrder(F)[j])
<1> DEFINE R == {p \in F \X F : Before(p[1], p[2])}
<1>1. \A x, y \in F : <<x, y>> \in R <=> Before(x, y)
  OBVIOUS
<1>2. \A x \in F : Under(F, R, x) = {y \in F : Before(y, x)}
  BY <1>1 DEF Under
<1> HIDE DEF R
<1> DEFINE G(i) == CHOOSE x \in F : Cardinality(Under(F, R, x)) = i
           H(i) == CHOOSE x \in F : Cardinality({y \in F : Before(y, x)}) = i
<1>3. \A i : G(i) = H(i)
  BY <1>2
<1>4. InOrder(F) = Ranked(F, R)
  <2>1. InOrder(F) = [i \in 1 .. Cardinality(F) |-> H(i - 1)]
    BY DEF InOrder
  <2>2. Ranked(F, R) = [i \in 1 .. Cardinality(F) |-> G(i - 1)]
    BY DEF Ranked
  <2> HIDE DEF G, H
  <2> QED
    BY <1>3, <2>1, <2>2
<1>5. \A f \in F : Smallest(f) \in E /\ f.num \in Nat
  BY TableEnds DEF Table
<1>6. TotalOrder(F, R)
  <2>1. ASSUME NEW x \in F PROVE <<x, x>> \notin R
    BY <1>1, <1>5, LessIsOrder DEF Before
  <2>2. ASSUME NEW x \in F, NEW y \in F, x # y PROVE <<x, y>> \in R \/ <<y, x>> \in R
    <3>1. x.num < y.num \/ y.num < x.num
      BY <1>5, <2>2
    <3>2. Smallest(x) = Smallest(y) \/ Less(Smallest(x), Smallest(y)) \/ Less(Smallest(y), Smallest(x))
      BY <1>5, LessIsOrder
    <3> QED
      BY <1>1, <3>1, <3>2 DEF Before
  <2>3. ASSUME NEW x \in F, NEW y \in F, NEW z \in F, <<x, y>> \in R, <<y, z>> \in R PROVE <<x, z>> \in R
    <3>1. Before(x, y) /\ Before(y, z)
      BY <1>1, <2>3
    <3>2. Smallest(x) \in E /\ Smallest(y) \in E /\ Smallest(z) \in E
      BY <1>5
    <3>3. Less(Smallest(x), Smallest(y)) /\ Less(Smallest(y), Smallest(z)) => Less(Smallest(x), Smallest(z))
      BY <3>2, LessIsOrder
    <3>4. x.num < y.num /\ y.num < z.num => x.num < z.num
      BY <1>5
    <3>5. Before(x, z)
      BY <3>1, <3>3, <3>4 DEF Before
    <3> QED
      BY <1>1, <3>5
  <2> QED
    BY <2>1, <2>2, <2>3 DEF TotalOrder
<1> DEFINE s == Ranked(F, R)
           n == Cardinality(F)
<1>7. /\ s \in Seq(F) /\ Len(s) = n /\ n \in Nat
      /\ \A x \in F : \E i \in 1 .. n : s[i] = x
      /\ \A i, j \in 1 .. n : i < j => <<s[i], s[j]>> \in R
  <2>1. n \in Nat
    BY FS_CardinalityType
  <2> QED
    BY <1>6, <2>1, RankedIs
<1> HIDE DEF s, n
<1>8. DOMAIN s = 1 .. n /\ \A i \in 1 .. n : s[i] \in F
  BY <1>7
<1>9. Range(s) = F
  BY <1>7, <1>8 DEF Range
<1>10. \A i, j \in 1 .. n : i < j => Before(s[i], s[j])
  BY <1>1, <1>7, <1>8
<1> QED
  BY <1>4, <1>7, <1>9, <1>10 DEF s, n

-----------------------------------------------------------------------------
(* Files that overlap a range *)

\* All levels have tables, and no number is used twice.
NumbersUnique == \A l, m \in Levels : \A f \in files[l], g \in files[m] : f.num = g.num => l = m /\ f = g
Stocked(E) ==
    /\ Updates(E) /\ NumbersUnique
    /\ \A l \in Levels : IsFiniteSet(files[l]) /\ \A f \in files[l] : Table(E, f)

\* f lies before g: by internal keys, or (whole) with all its user keys.
FileBefore(whole, f, g) == IF whole THEN Last(f) < First(g) ELSE Less(Largest(f), Smallest(g))
LevelsApart(whole) ==
    \A l \in Levels \ {0} : \A f, g \in files[l] : f # g => FileBefore(whole, f, g) \/ FileBefore(whole, g, f)

Covered(F, k) == \E f \in F : Overlaps(f, k, k)

\* A range and what overlaps it.
LEMMA WiderIs ==
    ASSUME NEW E, Updates(E), NEW F, \A f \in F : Table(E, f), NEW r \in Keys \X Keys
    PROVE  /\ Wider(F, r) \in Keys \X Keys /\ Wider(F, r)[1] <= r[1] /\ r[2] <= Wider(F, r)[2]
           /\ \A f \in Hit(F, r) : Wider(F, r)[1] <= First(f) /\ Last(f) <= Wider(F, r)[2]
           /\ Wider(F, r)[1] = r[1] \/ \E f \in Hit(F, r) : Wider(F, r)[1] = First(f)
           /\ Wider(F, r)[2] = r[2] \/ \E f \in Hit(F, r) : Wider(F, r)[2] = Last(f)
<1> DEFINE L == {r[1]} \cup {Smallest(f).key : f \in Hit(F, r)}
           H == {r[2]} \cup {Largest(f).key : f \in Hit(F, r)}
<1>1. \A f \in Hit(F, r) : First(f) \in Keys /\ Last(f) \in Keys
  BY TableEnds DEF Hit
<1>2. L \subseteq Keys /\ H \subseteq Keys /\ r[1] \in L /\ r[2] \in H
  BY <1>1 DEF First, Last
<1>3. \A f \in Hit(F, r) : First(f) \in L /\ Last(f) \in H
  BY DEF First, Last
<1>4. /\ \A k \in L : k = r[1] \/ \E f \in Hit(F, r) : k = First(f)
      /\ \A k \in H : k = r[2] \/ \E f \in Hit(F, r) : k = Last(f)
  BY DEF First, Last
<1>5. Wider(F, r) = <<Min(L), Max(H)>>
  BY DEF Wider
<1> HIDE DEF L, H
<1>6. Min(L) \in L /\ \A k \in L : Min(L) <= k
  <2>1. L \subseteq Nat /\ L # {}
    BY <1>2 DEF Keys
  <2> QED
    BY <2>1, MinIs
<1>7. Max(H) \in H /\ \A k \in H : Max(H) >= k
  <2>1. MaxKey \in Nat /\ H \subseteq 0 .. MaxKey
    BY <1>2, LSMAssumption DEF Keys
  <2> QED
    BY <1>2, <2>1, MaxIs
<1> QED
  <2>1. Wider(F, r)[1] = Min(L) /\ Wider(F, r)[2] = Max(H)
    BY <1>5
  <2> DEFINE lo == Min(L)
             hi == Max(H)
  <2>2. lo \in Keys /\ hi \in Keys /\ Wider(F, r) = <<lo, hi>>
    BY <1>2, <1>5, <1>6, <1>7
  <2>3. lo <= r[1] /\ hi >= r[2]
    BY <1>2, <1>6, <1>7
  <2>4. \A f \in Hit(F, r) : lo <= First(f) /\ hi >= Last(f)
    BY <1>3, <1>6, <1>7
  <2>5. (lo = r[1] \/ \E f \in Hit(F, r) : lo = First(f)) /\ (hi = r[2] \/ \E f \in Hit(F, r) : hi = Last(f))
    BY <1>4, <1>6, <1>7
  <2> HIDE DEF lo, hi
  <2>6. r[2] <= hi /\ \A f \in Hit(F, r) : Last(f) <= hi
    BY <1>1, <2>2, <2>3, <2>4 DEF Keys
  <2> QED
    BY <2>2, <2>3, <2>4, <2>5, <2>6

Within(r, k) == r[1] <= k /\ k <= r[2]
Grows(F, r, g) == g = [n \in 0 .. Cardinality(F) |-> IF n = 0 THEN r ELSE Wider(F, g[n - 1])]

LEMMA GrowthExists == ASSUME NEW F, NEW r, Cardinality(F) \in Nat PROVE \E g : Grows(F, r, g)
<1> DEFINE N == Cardinality(F)
           Good(m, g) == /\ g = [n \in 0 .. N |-> g[n]]
                         /\ \A n \in 0 .. m : n <= N => g[n] = IF n = 0 THEN r ELSE Wider(F, g[n - 1])
           Bad == {m \in Nat : ~ \E g : Good(m, g)}
<1>1. \E g : Good(0, g)
  <2> DEFINE g == [n \in 0 .. N |-> r]
  <2>1. Good(0, g)
    OBVIOUS
  <2> QED
    BY <2>1
<1>2. ASSUME NEW m \in Nat, NEW g, Good(m, g) PROVE \E h : Good(m + 1, h)
  <2> DEFINE h == [n \in 0 .. N |-> IF n <= m THEN g[n] ELSE Wider(F, g[n - 1])]
  <2>1. ASSUME NEW n \in 0 .. m + 1, n <= N PROVE h[n] = IF n = 0 THEN r ELSE Wider(F, h[n - 1])
    <3>1. CASE n <= m
      <4>1. h[n] = g[n] /\ (n # 0 => h[n - 1] = g[n - 1])
        BY <2>1, <3>1
      <4>2. g[n] = IF n = 0 THEN r ELSE Wider(F, g[n - 1])
        <5>1. n \in 0 .. m
          BY <2>1, <3>1
        <5> QED
          BY <1>2, <2>1, <5>1
      <4> QED
        BY <4>1, <4>2
    <3>2. CASE n = m + 1
      <4>1. h[n] = Wider(F, g[n - 1]) /\ h[n - 1] = g[n - 1] /\ n # 0
        BY <2>1, <3>2
      <4> QED
        BY <4>1
    <3> QED
      BY <3>1, <3>2
  <2> QED
    BY <2>1
<1> HIDE DEF Good
<1>3. Bad = {}
  <2>1. SUFFICES ASSUME Bad # {} PROVE FALSE
    OBVIOUS
  <2>2. PICK m \in Bad : \A n \in Bad : m <= n
    BY <2>1, Least
  <2>3. m # 0
    BY <1>1
  <2>4. m - 1 \in Nat /\ m - 1 \notin Bad
    BY <2>2, <2>3
  <2>5. PICK g : Good(m - 1, g)
    BY <2>4
  <2>6. \E h : Good((m - 1) + 1, h)
    BY <1>2, <2>4, <2>5
  <2> QED
    BY <2>2, <2>6
<1>4. PICK g : Good(N, g)
  BY <1>3
<1>5. Grows(F, r, g)
  BY <1>4 DEF Good, Grows
<1> QED
  BY <1>5

\* Growing a range as often as there are files ends: no other file overlaps it,
\* and every key that was added is in the range of a file.
LEMMA GrowsToEnd ==
    ASSUME NEW E, Updates(E), NEW F, IsFiniteSet(F), \A f \in F : Table(E, f),
           NEW r \in Keys \X Keys, NEW g, Grows(F, r, g)
    PROVE  LET w == g[Cardinality(F)] IN
           /\ w \in Keys \X Keys /\ w[1] <= r[1] /\ r[2] <= w[2]
           /\ \A f \in Hit(F, w) : w[1] <= First(f) /\ Last(f) <= w[2]
           /\ \A k \in Keys : Within(w, k) => Within(r, k) \/ Covered(Hit(F, w), k)
<1> DEFINE N == Cardinality(F)
           Stable(n) == \A f \in Hit(F, g[n]) : g[n][1] <= First(f) /\ Last(f) <= g[n][2]
           Good(n) == /\ g[n] \in Keys \X Keys /\ g[n][1] <= r[1] /\ r[2] <= g[n][2]
                      /\ Stable(n) \/ Cardinality(Hit(F, g[n])) >= n + 1
                      /\ \A k \in Keys : Within(g[n], k) => Within(r, k) \/ Covered(Hit(F, g[n]), k)
           Bad == {n \in 0 .. N : ~Good(n)}
<1>1. N \in Nat
  BY FS_CardinalityType
<1>2. \A n \in 0 .. N : g[n] = IF n = 0 THEN r ELSE Wider(F, g[n - 1])
  BY DEF Grows
<1>3. ASSUME NEW x PROVE Hit(F, x) \subseteq F /\ IsFiniteSet(Hit(F, x)) /\ Cardinality(Hit(F, x)) \in 0 .. N
  <2>1. Hit(F, x) \subseteq F
    BY DEF Hit
  <2> QED
    BY <1>1, <2>1, FS_Subset, FS_CardinalityType
<1>4. Good(0)
  <2>1. g[0] = r
    BY <1>1, <1>2
  <2>2. Stable(0) \/ Cardinality(Hit(F, g[0])) >= 0 + 1
    <3>1. Hit(F, g[0]) = {} \/ Cardinality(Hit(F, g[0])) # 0
      BY <1>3, FS_EmptySet
    <3> QED
      BY <1>3, <3>1
  <2> QED
    BY <2>1, <2>2 DEF Keys
<1>5. ASSUME NEW n \in 0 .. N - 1, Good(n) PROVE Good(n + 1)
  <2> DEFINE u == g[n]
             w == g[n + 1]
  <2>1. w = Wider(F, u) /\ u \in Keys \X Keys /\ n + 1 \in 0 .. N
    BY <1>1, <1>2, <1>5
  <2> HIDE DEF w, u
  <2>2. /\ w \in Keys \X Keys /\ w[1] <= u[1] /\ u[2] <= w[2]
        /\ \A f \in Hit(F, u) : w[1] <= First(f) /\ Last(f) <= w[2]
        /\ w[1] = u[1] \/ \E f \in Hit(F, u) : w[1] = First(f)
        /\ w[2] = u[2] \/ \E f \in Hit(F, u) : w[2] = Last(f)
    BY <2>1, WiderIs
  <2>3. /\ u[1] \in Int /\ u[2] \in Int /\ w[1] \in Int /\ w[2] \in Int /\ r[1] \in Int /\ r[2] \in Int
        /\ w = <<w[1], w[2]>> /\ u = <<u[1], u[2]>>
    BY <2>1, <2>2 DEF Keys
  <2>4. \A f \in F : First(f) \in Int /\ Last(f) \in Int
    BY TableEnds DEF Keys
  <2>5. Hit(F, u) \subseteq Hit(F, w)
    BY <2>2, <2>3, <2>4 DEF Hit, Overlaps, First, Last
  <2>6. u[1] <= r[1] /\ r[2] <= u[2] /\ \A k \in Keys : Within(u, k) => Within(r, k) \/ Covered(Hit(F, u), k)
    BY <1>5 DEF u
  <2>7. w[1] <= r[1] /\ r[2] <= w[2]
    BY <2>2, <2>3, <2>6
  <2>8. ASSUME NEW k \in Keys, Within(w, k) PROVE Within(r, k) \/ Covered(Hit(F, w), k)
    <3>1. k \in Int
      BY DEF Keys
    <3>2. CASE Within(u, k)
      BY <2>5, <2>6, <3>2 DEF Covered
    <3>3. CASE k < u[1]
      <4>1. PICK f \in Hit(F, u) : w[1] = First(f)
        BY <2>2, <2>3, <2>8, <3>1, <3>3 DEF Within
      <4>2. Last(f) >= u[1] /\ f \in F
        BY <4>1 DEF Hit, Overlaps, Last
      <4>3. Overlaps(f, k, k)
        BY <2>3, <2>4, <2>8, <3>1, <3>3, <4>1, <4>2 DEF Overlaps, First, Last, Within
      <4> QED
        BY <2>5, <4>1, <4>3 DEF Covered
    <3>4. CASE u[2] < k
      <4>1. PICK f \in Hit(F, u) : w[2] = Last(f)
        BY <2>2, <2>3, <2>8, <3>1, <3>4 DEF Within
      <4>2. First(f) <= u[2] /\ f \in F
        BY <4>1 DEF Hit, Overlaps, First
      <4>3. Overlaps(f, k, k)
        BY <2>3, <2>4, <2>8, <3>1, <3>4, <4>1, <4>2 DEF Overlaps, First, Last, Within
      <4> QED
        BY <2>5, <4>1, <4>3 DEF Covered
    <3> QED
      BY <2>3, <3>1, <3>2, <3>3, <3>4 DEF Within
  <2>9. Stable(n + 1) \/ Cardinality(Hit(F, w)) >= (n + 1) + 1
    <3>1. Stable(n) \/ Cardinality(Hit(F, u)) >= n + 1
      BY <1>5 DEF u
    <3>2. CASE Stable(n)
      <4>1. \A f \in Hit(F, u) : u[1] <= First(f) /\ Last(f) <= u[2]
        BY <3>2 DEF u
      <4>2. w[1] = u[1] /\ w[2] = u[2]
        <5>1. Hit(F, u) \subseteq F
          BY <1>3
        <5> QED
          BY <2>2, <2>3, <2>4, <4>1, <5>1
      <4>3. w = u
        BY <2>3, <4>2
      <4> QED
        BY <4>1, <4>3 DEF w
    <3>3. CASE Cardinality(Hit(F, u)) >= n + 1
      <4>1. CASE Hit(F, w) = Hit(F, u)
        BY <2>2, <4>1 DEF w
      <4>2. CASE Hit(F, w) # Hit(F, u)
        <5>1. IsFiniteSet(Hit(F, w)) /\ Cardinality(Hit(F, u)) \in Nat /\ Cardinality(Hit(F, w)) \in Nat
          BY <1>3
        <5>2. Cardinality(Hit(F, u)) <= Cardinality(Hit(F, w)) /\ Cardinality(Hit(F, u)) # Cardinality(Hit(F, w))
          BY <2>5, <4>2, <5>1, FS_Subset
        <5> QED
          BY <3>3, <5>1, <5>2
      <4> QED
        BY <4>1, <4>2
    <3> QED
      BY <3>1, <3>2, <3>3
  <2> QED
    BY <2>2, <2>7, <2>8, <2>9 DEF w
<1> HIDE DEF Good
<1>6. Bad = {}
  <2>1. SUFFICES ASSUME Bad # {} PROVE FALSE
    OBVIOUS
  <2>2. Bad \subseteq Nat
    BY <1>1
  <2>3. PICK m \in Bad : \A n \in Bad : m <= n
    BY <2>1, <2>2, Least
  <2>4. m # 0
    BY <1>4
  <2>5. m - 1 \in 0 .. N - 1 /\ m - 1 \notin Bad
    BY <1>1, <2>3, <2>4
  <2>6. Good((m - 1) + 1)
    BY <1>1, <1>5, <2>5
  <2> QED
    BY <1>1, <2>3, <2>6
<1>7. Good(N)
  BY <1>1, <1>6
<1>8. Stable(N)
  <2>1. Stable(N) \/ Cardinality(Hit(F, g[N])) >= N + 1
    BY <1>7 DEF Good
  <2>2. Cardinality(Hit(F, g[N])) \in 0 .. N
    BY <1>3
  <2> QED
    BY <1>1, <2>1, <2>2
<1> QED
  BY <1>7, <1>8 DEF Good

\* GetOverlappingInputs: the files that overlap the range, in level 0 closed under
\* overlap; the range is extended by files that cover what they add.
LEMMA OverlappingIs ==
    ASSUME NEW E, Stocked(E), NEW level \in Levels, NEW b \in Keys, NEW e \in Keys
    PROVE  LET G == GetOverlappingInputs(level, b, e) IN
           /\ G \subseteq files[level] /\ Hit(files[level], <<b, e>>) \subseteq G
           /\ level # 0 => G = Hit(files[level], <<b, e>>)
           /\ level = 0 => \A f \in files[0] \ G, g \in G : Last(f) < First(g) \/ Last(g) < First(f)
           /\ \A k \in Keys : /\ b <= k \/ \E f \in G : First(f) <= k
                              /\ k <= e \/ \E f \in G : k <= Last(f)
                              => (b <= k /\ k <= e) \/ Covered(G, k)
<1> DEFINE F == files[level]
           r == <<b, e>>
           g == CHOOSE h : Grows(F, r, h)
           w == g[Cardinality(F)]
           G == GetOverlappingInputs(level, b, e)
<1>1. Updates(E) /\ IsFiniteSet(F) /\ \A f \in F : Table(E, f)
  BY DEF Stocked
<1>2. Cardinality(F) \in Nat /\ r \in Keys \X Keys /\ b \in Int /\ e \in Int /\ r[1] = b /\ r[2] = e
  BY <1>1, FS_CardinalityType DEF Keys
<1>3. Grows(F, r, g)
  BY <1>2, GrowthExists
<1>4. G = IF level = 0 THEN Hit(F, w) ELSE Hit(F, r)
  <2>1. CASE level # 0
    BY <2>1 DEF GetOverlappingInputs
  <2>2. CASE level = 0
    BY <2>2 DEF GetOverlappingInputs, Grows
  <2> QED
    BY <2>1, <2>2
<1> HIDE DEF G, g
<1>5. /\ w \in Keys \X Keys /\ w[1] <= b /\ e <= w[2]
      /\ \A f \in Hit(F, w) : w[1] <= First(f) /\ Last(f) <= w[2]
      /\ \A k \in Keys : Within(w, k) => Within(r, k) \/ Covered(Hit(F, w), k)
  BY <1>1, <1>2, <1>3, GrowsToEnd
<1> HIDE DEF w
<1>6. w[1] \in Int /\ w[2] \in Int /\ \A f \in F : First(f) \in Int /\ Last(f) \in Int /\ First(f) <= Last(f)
  BY <1>1, <1>5, TableEnds DEF Keys
<1>7. \A x : Hit(F, x) = {f \in F : Last(f) >= x[1] /\ First(f) <= x[2]}
  BY DEF Hit, Overlaps, First, Last
<1>8. G \subseteq F /\ Hit(F, r) \subseteq G
  BY <1>2, <1>4, <1>5, <1>6, <1>7
<1>9. ASSUME level = 0, NEW f \in files[0] \ G, NEW h \in G PROVE Last(f) < First(h) \/ Last(h) < First(f)
  <2>1. G = Hit(F, w) /\ f \in F /\ f \notin Hit(F, w) /\ h \in F
    BY <1>4, <1>8, <1>9
  <2>2. Last(f) < w[1] \/ w[2] < First(f)
    BY <1>6, <1>7, <2>1
  <2>3. w[1] <= First(h) /\ Last(h) <= w[2]
    BY <1>5, <1>9, <2>1
  <2>4. Last(f) \in Int /\ First(h) \in Int /\ Last(h) \in Int /\ First(f) \in Int
    BY <1>6, <2>1
  <2> QED
    BY <1>6, <2>2, <2>3, <2>4
<1>10. ASSUME NEW k \in Keys, b <= k \/ \E f \in G : First(f) <= k, k <= e \/ \E f \in G : k <= Last(f)
       PROVE  (b <= k /\ k <= e) \/ Covered(G, k)
  <2>1. k \in Int
    BY DEF Keys
  <2>2. CASE level = 0
    <3>1. G = Hit(F, w) /\ \A f \in G : f \in F /\ w[1] <= First(f) /\ Last(f) <= w[2]
      BY <1>4, <1>5, <1>8, <2>2
    <3>2. w[1] <= k
      <4>1. CASE b <= k
        BY <1>2, <1>5, <1>6, <2>1, <4>1
      <4>2. CASE \E f \in G : First(f) <= k
        BY <1>6, <2>1, <3>1, <4>2
      <4> QED
        BY <1>10, <4>1, <4>2
    <3>3. k <= w[2]
      <4>1. CASE k <= e
        BY <1>2, <1>5, <1>6, <2>1, <4>1
      <4>2. CASE \E f \in G : k <= Last(f)
        BY <1>6, <2>1, <3>1, <4>2
      <4> QED
        BY <1>10, <4>1, <4>2
    <3> QED
      BY <1>2, <1>5, <3>1, <3>2, <3>3 DEF Within
  <2>3. CASE level # 0
    <3>1. G = {f \in F : Last(f) >= b /\ First(f) <= e}
      BY <1>2, <1>4, <1>7, <2>3
    <3>2. \A f : First(f) <= k /\ k <= Last(f) <=> Overlaps(f, k, k)
      BY <2>1 DEF Overlaps, First, Last
    <3>3. CASE b <= k /\ k <= e
      BY <3>3
    <3>4. CASE ~(b <= k)
      <4>1. PICK f \in G : First(f) <= k
        BY <1>10, <3>4
      <4>2. k <= Last(f)
        BY <1>2, <1>6, <2>1, <3>1, <3>4, <4>1
      <4>3. Overlaps(f, k, k)
        <5>1. Last(f) \in Int
          BY <1>6, <3>1, <4>1
        <5> QED
          BY <2>1, <4>1, <4>2, <5>1 DEF Overlaps, First, Last
      <4> QED
        BY <4>1, <4>3 DEF Covered
    <3>5. CASE ~(k <= e)
      <4>1. PICK f \in G : k <= Last(f)
        BY <1>10, <3>5
      <4>2. First(f) <= k
        BY <1>2, <1>6, <2>1, <3>1, <3>5, <4>1
      <4>3. Overlaps(f, k, k)
        <5>1. Last(f) \in Int
          BY <1>6, <3>1, <4>1
        <5> QED
          BY <2>1, <4>1, <4>2, <5>1 DEF Overlaps, First, Last
      <4> QED
        BY <4>1, <4>3 DEF Covered
    <3> QED
      BY <3>3, <3>4, <3>5
  <2> QED
    BY <2>2, <2>3
<1>11. level # 0 => G = Hit(F, r)
  BY <1>4
<1> QED
  BY <1>8, <1>9, <1>10, <1>11 DEF G

\* A level below 0 in order: every file lies before the next.
LEMMA LevelInOrder ==
    ASSUME NEW E, Stocked(E), LevelsApart(FALSE), NEW l \in Levels \ {0}
    PROVE  LET fs == InOrder(files[l]) IN
           /\ Len(fs) \in Nat /\ \A i \in 1 .. Len(fs) : fs[i] \in files[l]
           /\ \A f \in files[l] : \E i \in 1 .. Len(fs) : fs[i] = f
           /\ \A i, j \in 1 .. Len(fs) : i < j => Less(Largest(fs[i]), Smallest(fs[j])) /\ Last(fs[i]) <= First(fs[j])
<1> DEFINE fs == InOrder(files[l])
           n == Len(fs)
<1>1. /\ Updates(E) /\ IsFiniteSet(files[l]) /\ \A f \in files[l] : Table(E, f)
      /\ \A f, g \in files[l] : f.num = g.num => f = g
  BY DEF Stocked, NumbersUnique
<1>2. /\ fs \in Seq(files[l]) /\ Range(fs) = files[l]
      /\ \A i, j \in 1 .. n : i < j => Before(fs[i], fs[j])
  BY <1>1, InOrderIs
<1> HIDE DEF fs
<1>3. n \in Nat /\ DOMAIN fs = 1 .. n /\ \A i \in 1 .. n : fs[i] \in files[l]
  BY <1>2
<1>4. \A f \in files[l] : \E i \in 1 .. n : fs[i] = f
  BY <1>2, <1>3 DEF Range
<1>5. ASSUME NEW i \in 1 .. n, NEW j \in 1 .. n, i < j
      PROVE  Less(Largest(fs[i]), Smallest(fs[j])) /\ Last(fs[i]) <= First(fs[j])
  <2> DEFINE f == fs[i]
             g == fs[j]
  <2>1. f \in files[l] /\ g \in files[l] /\ Before(f, g) /\ f.num \in Nat
    BY <1>1, <1>2, <1>3, <1>5 DEF Table
  <2> HIDE DEF f, g
  <2>2. /\ Smallest(f) \in E /\ Largest(f) \in E /\ Smallest(g) \in E /\ Largest(g) \in E
        /\ Smallest(f) = Largest(f) \/ Less(Smallest(f), Largest(f))
        /\ Smallest(g) = Largest(g) \/ Less(Smallest(g), Largest(g))
    <3>1. Table(E, f) /\ Table(E, g)
      BY <1>1, <2>1
    <3>2. /\ Smallest(f) \in Range(f.data) /\ Largest(f) \in Range(f.data) /\ Range(f.data) \subseteq E
          /\ Largest(f) = Smallest(f) \/ Less(Smallest(f), Largest(f))
      BY <1>1, <3>1, TableEnds
    <3>3. /\ Smallest(g) \in Range(g.data) /\ Largest(g) \in Range(g.data) /\ Range(g.data) \subseteq E
          /\ Largest(g) = Smallest(g) \/ Less(Smallest(g), Largest(g))
      BY <1>1, <3>1, TableEnds
    <3> QED
      BY <3>2, <3>3
  <2>3. f # g
    <3>1. ~Less(Smallest(f), Smallest(f))
      BY <1>1, <2>2, LessIsOrder
    <3> QED
      BY <2>1, <3>1 DEF Before
  <2>4. ~Less(Largest(g), Smallest(f))
    <3>1. SUFFICES ASSUME Less(Largest(g), Smallest(f)) PROVE FALSE
      OBVIOUS
    <3>2. Less(Smallest(g), Smallest(f))
      BY <1>1, <2>2, <3>1, LessIsOrder
    <3>3. ~Less(Smallest(f), Smallest(g)) /\ Smallest(f) # Smallest(g)
      BY <1>1, <2>2, <3>2, LessIsOrder
    <3> QED
      BY <2>1, <3>3 DEF Before
  <2>5. Less(Largest(f), Smallest(g))
    BY <2>1, <2>3, <2>4 DEF LevelsApart, FileBefore
  <2>6. Last(f) <= First(g)
    BY <1>1, <2>2, <2>5, LessIsOrder DEF Last, First
  <2> QED
    BY <2>5, <2>6 DEF f, g
<1> QED
  BY <1>3, <1>4, <1>5 DEF fs

\* OverlapInLevel finds every file that overlaps the range.
LEMMA OverlapInLevelIs ==
    ASSUME NEW E, Stocked(E), LevelsApart(FALSE), NEW l \in Levels, NEW b \in Keys, NEW e \in Keys,
           ~OverlapInLevel(l, b, e), NEW f \in files[l]
    PROVE  ~Overlaps(f, b, e)
<1>1. CASE l = 0
  BY <1>1 DEF OverlapInLevel
<1>2. CASE l # 0
  <2> DEFINE fs == InOrder(files[l])
             t == [key |-> b, seq |-> MaxWrites + 1]
             i == FindFile(fs, t)
  <2>1. SUFFICES ASSUME Overlaps(f, b, e) PROVE FALSE
    OBVIOUS
  <2>2. ~(i < Len(fs) /\ Smallest(fs[i + 1]).key <= e)
    BY <1>2 DEF OverlapInLevel
  <2> HIDE DEF fs
  <2>3. /\ Len(fs) \in Nat /\ \A j \in 1 .. Len(fs) : fs[j] \in files[l]
        /\ \A g \in files[l] : \E j \in 1 .. Len(fs) : fs[j] = g
        /\ \A j, m \in 1 .. Len(fs) : j < m => Last(fs[j]) <= First(fs[m])
    BY <1>2, LevelInOrder DEF fs
  <2>4. \A g \in files[l] : /\ First(g) \in Int /\ Last(g) \in Int /\ First(g) <= Last(g)
                            /\ Largest(g).seq \in 1 .. MaxWrites
    <3>1. ASSUME NEW g \in files[l]
          PROVE  First(g) \in Keys /\ Last(g) \in Keys /\ First(g) <= Last(g) /\ Largest(g).seq \in 1 .. MaxWrites
      <4>1. Updates(E) /\ Table(E, g)
        BY DEF Stocked
      <4>2. Largest(g) \in E /\ First(g) \in Keys /\ Last(g) \in Keys /\ First(g) <= Last(g)
        BY <4>1, TableEnds
      <4> QED
        BY <4>1, <4>2 DEF Updates
    <3> QED
      BY <3>1 DEF Keys
  <2>5. ASSUME NEW g \in files[l] PROVE Less(Largest(g), t) <=> Last(g) < b
    <3>1. Largest(g).seq \in Int /\ Largest(g).seq <= MaxWrites /\ MaxWrites \in Nat /\ b \in Int
      BY <2>4, LSMAssumption DEF Keys
    <3> QED
      BY <2>4, <3>1 DEF Less, Last
  <2> HIDE DEF t, i
  <2>6. \A j, m \in 1 .. Len(fs) : j < m /\ Less(Largest(fs[m]), t) => Less(Largest(fs[j]), t)
    <3>1. ASSUME NEW j \in 1 .. Len(fs), NEW m \in 1 .. Len(fs), j < m, Less(Largest(fs[m]), t)
          PROVE  Less(Largest(fs[j]), t)
      <4>1. Last(fs[m]) < b /\ Last(fs[j]) <= First(fs[m])
        BY <2>3, <2>5, <3>1
      <4>2. fs[j] \in files[l] /\ fs[m] \in files[l] /\ b \in Int
        BY <2>3 DEF Keys
      <4>3. Last(fs[j]) < b
        BY <2>4, <4>1, <4>2
      <4> QED
        BY <2>5, <4>2, <4>3
    <3> QED
      BY <3>1
  <2>7. i \in 0 .. Len(fs) /\ \A j \in 1 .. Len(fs) : j <= i <=> Less(Largest(fs[j]), t)
    BY <2>3, <2>6, FindFileIs DEF i
  <2>8. PICK j \in 1 .. Len(fs) : fs[j] = f
    BY <2>3
  <2>9. First(f) <= e /\ ~(Last(f) < b) /\ b \in Int /\ e \in Int
    BY <2>1, <2>4 DEF Overlaps, First, Last, Keys
  <2>10. ~(j <= i)
    BY <2>5, <2>7, <2>8, <2>9
  <2>11. i + 1 \in 1 .. Len(fs) /\ (i + 1 = j \/ i + 1 < j)
    BY <2>3, <2>7, <2>10
  <2>12. First(fs[i + 1]) <= e
    <3>1. CASE i + 1 = j
      BY <2>8, <2>9, <3>1
    <3>2. CASE i + 1 < j
      <4>1. Last(fs[i + 1]) <= First(f) /\ fs[i + 1] \in files[l]
        BY <2>3, <2>8, <2>11, <3>2
      <4> QED
        BY <2>4, <2>9, <4>1
    <3> QED
      BY <2>11, <3>1, <3>2
  <2> QED
    BY <2>2, <2>3, <2>7, <2>11, <2>12 DEF First, i
<1> QED
  BY <1>1, <1>2

\* A memtable goes to a level at which, and above which, nothing overlaps it,
\* or to level 0.
LEMMA PickLevelIs ==
    ASSUME NEW E, Stocked(E), LevelsApart(FALSE), NEW b \in Keys, NEW e \in Keys
    PROVE  LET p == PickLevelForMemTableOutput(b, e) IN
           /\ p \in Levels
           /\ p # 0 => \A l \in Levels : l <= p => \A f \in files[l] : ~Overlaps(f, b, e)
<1> DEFINE p == PickLevelForMemTableOutput(b, e)
           ok(l) == /\ ~OverlapInLevel(l, b, e)
                    /\ l + 1 \in Levels => TotalFileSize(GetOverlappingInputs(l + 1, b, e)) <= GrandLimit
           S == {l \in 0 .. MaxMemLevel : \A m \in 1 .. l : ok(m)}
<1>1. p = IF OverlapInLevel(0, b, e) THEN 0 ELSE Max(S)
  BY DEF PickLevelForMemTableOutput
<1> HIDE DEF p
<1>2. MaxMemLevel \in Nat /\ 0 .. MaxMemLevel \subseteq Levels /\ 0 \in Levels
  BY LSMAssumption DEF Levels
<1>3. Max(S) \in S
  <2>1. 0 \in S
    BY <1>2
  <2>2. S \subseteq 0 .. MaxMemLevel /\ S # {}
    BY <2>1
  <2> HIDE DEF S
  <2> QED
    BY <1>2, <2>2, MaxIs
<1>4. p \in Levels
  BY <1>1, <1>2, <1>3
<1>5. ASSUME p # 0, NEW l \in Levels, l <= p, NEW f \in files[l] PROVE ~Overlaps(f, b, e)
  <2>1. ~OverlapInLevel(0, b, e) /\ p \in 0 .. MaxMemLevel /\ \A m \in 1 .. p : ~OverlapInLevel(m, b, e)
    BY <1>1, <1>3, <1>5
  <2>2. l = 0 \/ l \in 1 .. p
    BY <1>2, <1>5, <2>1 DEF Levels
  <2>3. ~OverlapInLevel(l, b, e)
    BY <2>1, <2>2
  <2> QED
    BY <2>3, OverlapInLevelIs
<1> QED
  BY <1>4, <1>5 DEF p

-----------------------------------------------------------------------------
(* The inputs of a compaction *)

LEMMA RangeIs ==
    ASSUME NEW E, Updates(E), NEW F, F # {}, \A f \in F : Table(E, f)
    PROVE  /\ RangeOf(F) \in Keys \X Keys
           /\ \A f \in F : RangeOf(F)[1] <= First(f) /\ Last(f) <= RangeOf(F)[2]
           /\ \E f \in F : RangeOf(F)[1] = First(f)
           /\ \E f \in F : RangeOf(F)[2] = Last(f)
<1> DEFINE L == {Smallest(f).key : f \in F}
           H == {Largest(f).key : f \in F}
<1>1. \A f \in F : First(f) \in Keys /\ Last(f) \in Keys
  BY TableEnds
<1>2. L \subseteq Keys /\ H \subseteq Keys /\ L # {} /\ H # {}
  BY <1>1 DEF First, Last
<1>3. \A f \in F : First(f) \in L /\ Last(f) \in H
  BY DEF First, Last
<1>4. (\A k \in L : \E f \in F : k = First(f)) /\ (\A k \in H : \E f \in F : k = Last(f))
  BY DEF First, Last
<1>5. RangeOf(F) = <<Min(L), Max(H)>>
  BY DEF RangeOf
<1> HIDE DEF L, H
<1>6. L \subseteq Nat /\ MaxKey \in Nat /\ H \subseteq 0 .. MaxKey
  BY <1>2, LSMAssumption DEF Keys
<1>7. Min(L) \in L /\ \A n \in L : Min(L) <= n
  BY <1>2, <1>6, MinIs
<1>8. Max(H) \in H /\ \A n \in H : Max(H) >= n
  BY <1>2, <1>6, MaxIs
<1>9. RangeOf(F)[1] = Min(L) /\ RangeOf(F)[2] = Max(H) /\ RangeOf(F) \in Keys \X Keys
  BY <1>2, <1>5, <1>7, <1>8
<1>10. \A n \in H : n <= Max(H)
  BY <1>6, <1>8
<1> QED
  BY <1>3, <1>4, <1>7, <1>8, <1>9, <1>10

\* The user keys between the ends of the files of F, and those in one of them.
InHull(F, k) == (\E f \in F : First(f) <= k) /\ (\E f \in F : k <= Last(f))
HullCovered(F) == \A k \in Keys : InHull(F, k) => Covered(F, k)

\* No file of G that is not in F shares a key range with a file of F.
Closed(G, F) == \A f \in G \ F, g \in F : Last(f) < First(g) \/ Last(g) < First(f)

Inputs(c) == c.in0 \cup c.in1
Beside(whole, g, F) == (\A f \in F : FileBefore(whole, g, f)) \/ (\A f \in F : FileBefore(whole, f, g))

LEMMA OverlapsIs ==
    ASSUME NEW f, NEW b, NEW e
    PROVE  Overlaps(f, b, e) <=> Last(f) >= b /\ First(f) <= e
BY DEF Overlaps, First, Last

\* Files that overlap the ends of F leave no gap when F has none.
LEMMA FlanksCovered ==
    ASSUME NEW E, Updates(E), NEW F, F # {}, NEW G, \A f \in F \cup G : Table(E, f),
           \A g \in G : Overlaps(g, RangeOf(F)[1], RangeOf(F)[2]),
           \A k \in Keys : Within(RangeOf(F), k) => Covered(F \cup G, k)
    PROVE  HullCovered(F \cup G)
<1> DEFINE r == RangeOf(F)
<1>1. /\ r \in Keys \X Keys
      /\ \A f \in F : r[1] <= First(f) /\ Last(f) <= r[2]
  BY RangeIs
<1>2. \A f \in F \cup G : First(f) \in Int /\ Last(f) \in Int
  BY TableEnds DEF Keys
<1>3. \A g \in G : Last(g) >= r[1] /\ First(g) <= r[2]
  BY OverlapsIs
<1>4. r[1] \in Int /\ r[2] \in Int
  BY <1>1 DEF Keys
<1>5. \A k \in Keys : Within(r, k) => Covered(F \cup G, k)
  OBVIOUS
<1> HIDE DEF r
<1>6. ASSUME NEW k \in Keys, InHull(F \cup G, k) PROVE Covered(F \cup G, k)
  <2>1. k \in Int
    BY DEF Keys
  <2>2. CASE Within(r, k)
    BY <1>5, <2>2
  <2>3. CASE k < r[1]
    <3>1. PICK f \in F \cup G : First(f) <= k
      BY <1>6 DEF InHull
    <3>2. f \in G
      BY <1>1, <1>2, <1>4, <2>1, <2>3, <3>1
    <3>3. k <= Last(f)
      BY <1>2, <1>3, <1>4, <2>1, <2>3, <3>2
    <3> QED
      BY <1>2, <2>1, <3>1, <3>2, <3>3, OverlapsIs DEF Covered
  <2>4. CASE r[2] < k
    <3>1. PICK f \in F \cup G : k <= Last(f)
      BY <1>6 DEF InHull
    <3>2. f \in G
      BY <1>1, <1>2, <1>4, <2>1, <2>4, <3>1
    <3>3. First(f) <= k
      BY <1>2, <1>3, <1>4, <2>1, <2>4, <3>2
    <3> QED
      BY <1>2, <2>1, <3>1, <3>2, <3>3, OverlapsIs DEF Covered
  <2> QED
    BY <1>4, <2>1, <2>2, <2>3, <2>4 DEF Within
<1> QED
  BY <1>6 DEF HullCovered

\* SetupOtherInputs takes, of the next level, what overlaps its own files.
SetUp(level, in0, c) ==
    /\ c.on = TRUE /\ c.level = level /\ c.base = files /\ c.smallestSnapshot = OldestSnapshot
    /\ in0 \subseteq c.in0 /\ c.in0 \subseteq files[level] /\ c.in1 \subseteq files[level + 1]
    /\ \A g \in files[level + 1] : g \in c.in1 <=> Overlaps(g, RangeOf(c.in0)[1], RangeOf(c.in0)[2])
    /\ level = 0 /\ Closed(files[0], in0) => Closed(files[0], c.in0)
    /\ HullCovered(in0) => HullCovered(Inputs(c))

LEMMA SetupIs ==
    ASSUME NEW E, Stocked(E), NEW level \in 0 .. NumLevels - 2, NEW in0, in0 \subseteq files[level], in0 # {}
    PROVE  SetUp(level, in0, SetupOtherInputs(level, in0))
<1> DEFINE r0 == RangeOf(in0)
           in1 == GetOverlappingInputs(level + 1, r0[1], r0[2])
           all == RangeOf(in0 \cup in1)
           wide0 == GetOverlappingInputs(level, all[1], all[2])
           wide == RangeOf(wide0)
           wide1 == GetOverlappingInputs(level + 1, wide[1], wide[2])
           expand == /\ in1 # {} /\ Cardinality(wide0) > Cardinality(in0)
                     /\ TotalFileSize(in1) + TotalFileSize(wide0) < ExpandLimit
                     /\ Cardinality(wide1) = Cardinality(in1)
           c == SetupOtherInputs(level, in0)
<1>1. /\ c.on = TRUE /\ c.level = level /\ c.base = files /\ c.smallestSnapshot = OldestSnapshot
      /\ c.in0 = IF expand THEN wide0 ELSE in0
      /\ c.in1 = IF expand THEN wide1 ELSE in1
  BY DEF SetupOtherInputs
<1>2. level \in Levels /\ level + 1 \in Levels /\ level + 1 # 0
  BY LSMAssumption DEF Levels
<1>3. Updates(E) /\ \A l \in Levels : \A f \in files[l] : Table(E, f)
  BY DEF Stocked
<1> HIDE DEF expand, c
<1>4. r0 \in Keys \X Keys /\ \A f \in in0 : r0[1] <= First(f) /\ Last(f) <= r0[2]
  BY <1>2, <1>3, RangeIs
<1>5. in1 = Hit(files[level + 1], r0)
  <2>1. r0[1] \in Keys /\ r0[2] \in Keys /\ r0 = <<r0[1], r0[2]>>
    BY <1>4
  <2> HIDE DEF r0
  <2> QED
    BY <1>2, <2>1, OverlappingIs
<1> HIDE DEF in1
<1>6. \A f \in in0 \cup in1 : Table(E, f)
  BY <1>2, <1>3, <1>5 DEF Hit
<1>7. all \in Keys \X Keys /\ \A f \in in0 \cup in1 : all[1] <= First(f) /\ Last(f) <= all[2]
  BY <1>3, <1>6, RangeIs
<1>all. /\ \E f \in in0 \cup in1 : all[1] = First(f)
        /\ \E f \in in0 \cup in1 : all[2] = Last(f)
  BY <1>3, <1>6, RangeIs
<1> HIDE DEF all
<1>8. \A f \in in0 \cup in1 : First(f) \in Int /\ Last(f) \in Int /\ First(f) <= Last(f)
  BY <1>3, <1>6, TableEnds DEF Keys
<1>9. all[1] \in Keys /\ all[2] \in Keys /\ all[1] \in Int /\ all[2] \in Int
  BY <1>7 DEF Keys
<1>10. /\ wide0 \subseteq files[level] /\ Hit(files[level], all) \subseteq wide0
       /\ level = 0 => \A f \in files[0] \ wide0, g \in wide0 : Last(f) < First(g) \/ Last(g) < First(f)
       /\ \A k \in Keys : /\ all[1] <= k \/ \E f \in wide0 : First(f) <= k
                          /\ k <= all[2] \/ \E f \in wide0 : k <= Last(f)
                          => (all[1] <= k /\ k <= all[2]) \/ Covered(wide0, k)
  <2>1. <<all[1], all[2]>> = all
    BY <1>7
  <2> QED
    BY <1>2, <1>9, <2>1, OverlappingIs
<1> HIDE DEF wide0
<1>11. in0 \subseteq wide0
  <2>1. ASSUME NEW f \in in0 PROVE Overlaps(f, all[1], all[2])
    <3>1. all[1] <= First(f) /\ Last(f) <= all[2] /\ First(f) \in Int /\ Last(f) \in Int /\ First(f) <= Last(f)
      BY <1>7, <1>8
    <3>2. Last(f) >= all[1] /\ First(f) <= all[2]
      BY <1>9, <3>1
    <3> QED
      BY <3>2, OverlapsIs
  <2> QED
    BY <1>10, <2>1 DEF Hit
<1>12. \A f \in wide0 : Table(E, f) /\ First(f) \in Int /\ Last(f) \in Int
  BY <1>2, <1>3, <1>10, TableEnds DEF Keys
<1>13. wide \in Keys \X Keys /\ \A f \in wide0 : wide[1] <= First(f) /\ Last(f) <= wide[2]
  BY <1>3, <1>11, <1>12, RangeIs
<1>wide. (\E f \in wide0 : wide[1] = First(f)) /\ (\E f \in wide0 : wide[2] = Last(f))
  BY <1>3, <1>11, <1>12, RangeIs
<1>14. wide1 = Hit(files[level + 1], wide)
  <2>1. wide[1] \in Keys /\ wide[2] \in Keys /\ wide = <<wide[1], wide[2]>>
    BY <1>13
  <2> HIDE DEF wide
  <2> QED
    BY <1>2, <2>1, OverlappingIs
<1> HIDE DEF wide1
<1>15. /\ in0 \subseteq c.in0 /\ c.in0 \subseteq files[level] /\ c.in1 \subseteq files[level + 1]
       /\ \A g \in files[level + 1] : g \in c.in1 <=> Overlaps(g, RangeOf(c.in0)[1], RangeOf(c.in0)[2])
  <2>1. CASE expand
    BY <1>1, <1>10, <1>11, <1>14, <2>1 DEF Hit
  <2>2. CASE ~expand
    BY <1>1, <1>5, <2>2 DEF Hit
  <2> QED
    BY <2>1, <2>2
<1>16. level = 0 /\ Closed(files[0], in0) => Closed(files[0], c.in0)
  BY <1>1, <1>10 DEF Closed
<1>17. ASSUME HullCovered(in0) PROVE HullCovered(Inputs(c))
  <2>1. \A k \in Keys : Within(r0, k) => Covered(in0 \cup in1, k)
    <3>1. ASSUME NEW k \in Keys, Within(r0, k) PROVE Covered(in0 \cup in1, k)
      <4>1. InHull(in0, k)
        BY <1>2, <1>3, <3>1, RangeIs DEF Within, InHull
      <4>2. Covered(in0, k)
        BY <1>17, <4>1 DEF HullCovered
      <4> QED
        BY <4>2 DEF Covered
    <3> QED
      BY <3>1
  <2>2. HullCovered(in0 \cup in1)
    BY <1>3, <1>5, <1>6, <2>1, FlanksCovered DEF Hit
  <2>3. CASE ~expand
    BY <1>1, <2>2, <2>3 DEF Inputs
  <2>4. CASE expand
    <3>1. in1 \subseteq wide1
      <4>1. ASSUME NEW g \in in1 PROVE g \in wide1
        <5>1. g \in files[level + 1] /\ Last(g) >= r0[1] /\ First(g) <= r0[2]
          BY <1>5, OverlapsIs DEF Hit
        <5>2. wide[1] <= r0[1] /\ r0[2] <= wide[2]
          BY <1>2, <1>3, <1>11, <1>13, RangeIs
        <5>3. /\ wide[1] \in Int /\ wide[2] \in Int /\ r0[1] \in Int /\ r0[2] \in Int
              /\ First(g) \in Int /\ Last(g) \in Int
          BY <1>4, <1>8, <1>13 DEF Keys
        <5> HIDE DEF wide, r0
        <5>4. Last(g) >= wide[1] /\ First(g) <= wide[2]
          BY <5>1, <5>2, <5>3
        <5> QED
          BY <1>14, <5>1, <5>4, OverlapsIs DEF Hit
      <4> QED
        BY <4>1
    <3>2. ASSUME NEW k \in Keys, Within(wide, k) PROVE Covered(wide0 \cup wide1, k)
      <4>1. (\E f \in wide0 : First(f) <= k) /\ (\E f \in wide0 : k <= Last(f))
        BY <1>wide, <3>2 DEF Within
      <4>2. CASE Covered(wide0, k)
        BY <4>2 DEF Covered
      <4>3. CASE all[1] <= k /\ k <= all[2]
        <5>1. InHull(in0 \cup in1, k)
          BY <1>all, <4>3 DEF InHull
        <5>2. Covered(in0 \cup in1, k)
          BY <2>2, <5>1 DEF HullCovered
        <5> QED
          BY <1>11, <3>1, <5>2 DEF Covered
      <4> QED
        BY <1>10, <4>1, <4>2, <4>3
    <3>3. \A f \in wide0 \cup wide1 : Table(E, f)
      BY <1>2, <1>3, <1>12, <1>14 DEF Hit
    <3>4. \A g \in wide1 : Overlaps(g, wide[1], wide[2])
      BY <1>14 DEF Hit
    <3>5. wide0 # {}
      BY <1>11
    <3>6. HullCovered(wide0 \cup wide1)
      BY <1>3, <3>2, <3>3, <3>4, <3>5, FlanksCovered
    <3> QED
      BY <1>1, <2>4, <3>6 DEF Inputs
  <2> QED
    BY <2>3, <2>4
<1> QED
  BY <1>1, <1>15, <1>16, <1>17 DEF SetUp, c

\* The files of the next level that stay are all before or after the inputs.
LEMMA SetupApart ==
    ASSUME NEW E, Stocked(E), NEW whole \in BOOLEAN, LevelsApart(whole),
           NEW level \in 0 .. NumLevels - 2, NEW in0, in0 # {}, NEW c, SetUp(level, in0, c),
           NEW g \in files[level + 1] \ c.in1
    PROVE  Beside(whole, g, Inputs(c))
<1> DEFINE r == RangeOf(c.in0)
<1>1. level \in Levels /\ level + 1 \in Levels \ {0}
  BY LSMAssumption DEF Levels
<1>2. Updates(E) /\ \A l \in Levels : \A f \in files[l] : Table(E, f)
  BY DEF Stocked
<1>3. c.in0 # {} /\ c.in0 \subseteq files[level] /\ c.in1 \subseteq files[level + 1]
  BY DEF SetUp
<1>4. r \in Keys \X Keys /\ \A f \in c.in0 : r[1] <= First(f) /\ Last(f) <= r[2]
  BY <1>1, <1>2, <1>3, RangeIs
<1>5. ~(Last(g) >= r[1] /\ First(g) <= r[2]) /\ \A f \in c.in1 : Last(f) >= r[1] /\ First(f) <= r[2]
  BY <1>3, OverlapsIs DEF SetUp
<1>6. r[1] \in Int /\ r[2] \in Int
  BY <1>4 DEF Keys
<1> HIDE DEF r
<1>7. \A f \in files[level] \cup files[level + 1] :
         /\ First(f) \in Int /\ Last(f) \in Int /\ First(f) <= Last(f) /\ Smallest(f) \in E /\ Largest(f) \in E
         /\ First(f) = Smallest(f).key /\ Last(f) = Largest(f).key
  BY <1>1, <1>2, TableEnds DEF Keys, First, Last
<1>8. \A f, h \in files[level] \cup files[level + 1] :
         /\ Last(f) < First(h) => FileBefore(whole, f, h)
         /\ FileBefore(whole, f, h) => Last(f) <= First(h)
  <2>1. ASSUME NEW f \in files[level] \cup files[level + 1], NEW h \in files[level] \cup files[level + 1]
        PROVE  /\ Last(f) < First(h) => Less(Largest(f), Smallest(h))
               /\ Less(Largest(f), Smallest(h)) => Last(f) <= First(h)
    BY <1>2, <1>7, LessIsOrder
  <2>2. ASSUME NEW f \in files[level] \cup files[level + 1], NEW h \in files[level] \cup files[level + 1]
        PROVE  Last(f) < First(h) => Last(f) <= First(h)
    BY <1>7
  <2> QED
    BY <2>1, <2>2 DEF FileBefore
<1>9. \A f \in c.in1 : FileBefore(whole, f, g) \/ FileBefore(whole, g, f)
  BY <1>1, <1>3 DEF LevelsApart
<1>10. CASE Last(g) < r[1]
  <2>1. ASSUME NEW f \in c.in0 PROVE FileBefore(whole, g, f)
    <3>1. Last(g) < First(f)
      BY <1>3, <1>4, <1>6, <1>7, <1>10
    <3> QED
      BY <1>3, <1>8, <3>1
  <2>2. ASSUME NEW f \in c.in1 PROVE FileBefore(whole, g, f)
    <3>1. ~FileBefore(whole, f, g)
      <4>1. ~(Last(f) <= First(g))
        BY <1>3, <1>5, <1>6, <1>7, <1>10
      <4> QED
        BY <1>3, <1>8, <4>1
    <3> QED
      BY <1>9, <3>1
  <2> QED
    BY <2>1, <2>2 DEF Beside, Inputs
<1>11. CASE r[2] < First(g)
  <2>1. ASSUME NEW f \in c.in0 PROVE FileBefore(whole, f, g)
    <3>1. Last(f) < First(g)
      BY <1>3, <1>4, <1>6, <1>7, <1>11
    <3> QED
      BY <1>3, <1>8, <3>1
  <2>2. ASSUME NEW f \in c.in1 PROVE FileBefore(whole, f, g)
    <3>1. ~FileBefore(whole, g, f)
      <4>1. ~(Last(g) <= First(f))
        BY <1>3, <1>5, <1>6, <1>7, <1>11
      <4> QED
        BY <1>3, <1>8, <4>1
    <3> QED
      BY <1>9, <3>1
  <2> QED
    BY <2>1, <2>2 DEF Beside, Inputs
<1> QED
  BY <1>5, <1>6, <1>7, <1>10, <1>11

-----------------------------------------------------------------------------
(* What a compaction writes *)

Flat(outs) == UNION {Range(outs[o]) : o \in DOMAIN outs}

\* Tables of entries of E, in order.
Written(E, outs) ==
    /\ outs \in Seq(Seq(E))
    /\ \A o \in DOMAIN outs : outs[o] # <<>> /\ IsSorted(outs[o])
    /\ \A o, p \in DOMAIN outs : o < p => \A x \in Range(outs[o]), y \in Range(outs[p]) : Less(x, y)

LEMMA AppendSorted ==
    ASSUME NEW E, NEW d \in Seq(E), IsSorted(d), NEW e \in E, \A x \in Range(d) : Less(x, e)
    PROVE  /\ Append(d, e) \in Seq(E) /\ Append(d, e) # <<>> /\ IsSorted(Append(d, e))
           /\ Range(Append(d, e)) = Range(d) \cup {e}
<1> DEFINE n == Len(d)
           a == Append(d, e)
<1>1. /\ n \in Nat /\ DOMAIN d = 1 .. n /\ a \in Seq(E) /\ Len(a) = n + 1 /\ DOMAIN a = 1 .. n + 1
      /\ a[n + 1] = e /\ \A i \in 1 .. n : a[i] = d[i]
  OBVIOUS
<1> HIDE DEF n, a
<1>2. a # <<>>
  BY <1>1
<1>3. \A i \in 1 .. n : d[i] \in Range(d)
  BY <1>1 DEF Range
<1>4. IsSorted(a)
  <2>1. ASSUME NEW i \in 1 .. n + 1, NEW j \in 1 .. n + 1, i < j PROVE Less(a[i], a[j])
    <3>1. CASE j = n + 1
      BY <1>1, <1>3, <2>1, <3>1
    <3>2. CASE j # n + 1
      <4>1. i \in 1 .. n /\ j \in 1 .. n
        BY <1>1, <2>1, <3>2
      <4> QED
        BY <1>1, <2>1, <4>1 DEF IsSorted
    <3> QED
      BY <3>1, <3>2
  <2> QED
    BY <1>1, <2>1 DEF IsSorted
<1>5. Range(a) = Range(d) \cup {e}
  <2>1. ASSUME NEW x \in Range(a) PROVE x \in Range(d) \cup {e}
    <3>1. PICK i \in 1 .. n + 1 : x = a[i]
      BY <1>1 DEF Range
    <3>2. i \in 1 .. n \/ i = n + 1
      BY <1>1
    <3> QED
      BY <1>1, <1>3, <3>1, <3>2
  <2>2. ASSUME NEW x \in Range(d) PROVE x \in Range(a)
    <3>1. PICK i \in 1 .. n : x = d[i]
      BY <1>1 DEF Range
    <3>2. i \in DOMAIN a /\ x = a[i]
      BY <1>1, <3>1
    <3> QED
      BY <3>2 DEF Range
  <2>3. n + 1 \in DOMAIN a
    BY <1>1
  <2>4. e \in Range(a)
    BY <1>1, <2>3 DEF Range
  <2> QED
    BY <2>1, <2>2, <2>4
<1> QED
  BY <1>1, <1>2, <1>4, <1>5 DEF a

Extended(outs, e) == [outs EXCEPT ![Len(outs)] = Append(@, e)]

\* An entry after all others goes to a new file, or to the end of the last one.
LEMMA EntryWritten ==
    ASSUME NEW E, NEW outs, Written(E, outs), NEW e \in E, \A x \in Flat(outs) : Less(x, e), NEW new,
           \/ new = Append(outs, <<e>>)
           \/ outs # <<>> /\ new = Extended(outs, e)
    PROVE  Written(E, new) /\ Flat(new) = Flat(outs) \cup {e}
<1> DEFINE T == Seq(E)
           n == Len(outs)
<1>0. outs \in Seq(T)
  BY DEF Written
<1> HIDE DEF T
<1>len. n \in Nat /\ DOMAIN outs = 1 .. n /\ \A o \in 1 .. n : outs[o] \in T
  BY <1>0
<1> HIDE DEF n
<1>1. /\ outs \in Seq(T) /\ n \in Nat /\ DOMAIN outs = 1 .. n
      /\ \A o \in 1 .. n : outs[o] \in T /\ outs[o] # <<>> /\ IsSorted(outs[o])
      /\ \A o, p \in 1 .. n : o < p => \A x \in Range(outs[o]), y \in Range(outs[p]) : Less(x, y)
  BY <1>0, <1>len DEF Written
<1>2. \A o \in 1 .. n : \A x \in Range(outs[o]) : Less(x, e)
  BY <1>1 DEF Flat
<1>3. ASSUME NEW m \in Nat, new \in Seq(T), DOMAIN new = 1 .. m, m \in {n, n + 1}, m # 0,
             \A o \in 1 .. m : o # m => new[o] = outs[o],
             new[m] # <<>>, IsSorted(new[m]),
             Range(new[m]) = {e} \cup IF m = n THEN Range(outs[n]) ELSE {}
      PROVE  Written(E, new) /\ Flat(new) = Flat(outs) \cup {e}
  <2>1. \A o \in 1 .. m : o # m => o \in 1 .. n
    BY <1>1, <1>3
  <2>2. \A o \in 1 .. m : new[o] # <<>> /\ IsSorted(new[o])
    BY <1>1, <1>3, <2>1
  <2>3. ASSUME NEW o \in 1 .. m, NEW p \in 1 .. m, o < p, NEW x \in Range(new[o]), NEW y \in Range(new[p])
        PROVE  Less(x, y)
    <3>1. o # m
      BY <1>1, <2>3
    <3>2. o \in 1 .. n /\ x \in Range(outs[o])
      BY <1>3, <2>1, <3>1
    <3>3. CASE p # m
      <4>1. p \in 1 .. n /\ y \in Range(outs[p])
        BY <1>3, <2>1, <3>3
      <4> QED
        BY <1>1, <2>3, <3>2, <4>1
    <3>4. CASE p = m /\ y = e
      BY <1>2, <3>2, <3>4
    <3>5. CASE p = m /\ m = n /\ y \in Range(outs[n])
      BY <1>1, <2>3, <3>2, <3>5
    <3> QED
      BY <1>3, <3>3, <3>4, <3>5
  <2>4. Written(E, new)
    BY <1>3, <2>2, <2>3 DEF Written, T
  <2>5. ASSUME NEW x \in Flat(new) PROVE x \in Flat(outs) \cup {e}
    <3>1. PICK o \in 1 .. m : x \in Range(new[o])
      BY <1>3 DEF Flat
    <3>2. CASE o # m
      BY <1>1, <1>3, <2>1, <3>1, <3>2 DEF Flat
    <3>3. CASE o = m
      <4>1. x = e \/ (m = n /\ x \in Range(outs[n]) /\ n \in 1 .. n)
        BY <1>1, <1>3, <3>1, <3>3
      <4> QED
        BY <1>1, <4>1 DEF Flat
    <3> QED
      BY <3>2, <3>3
  <2>6. ASSUME NEW x \in Flat(outs) PROVE x \in Flat(new)
    <3>1. PICK o \in 1 .. n : x \in Range(outs[o])
      BY <1>1 DEF Flat
    <3>2. o \in 1 .. m
      BY <1>1, <1>3
    <3>3. x \in Range(new[o])
      <4>1. CASE o # m
        BY <1>3, <3>1, <3>2, <4>1
      <4>2. CASE o = m
        <5>1. m = n
          BY <1>1, <1>3, <4>2
        <5> QED
          BY <1>3, <3>1, <4>2, <5>1
      <4> QED
        BY <4>1, <4>2
    <3> QED
      BY <1>3, <3>2, <3>3 DEF Flat
  <2>7. e \in Flat(new)
    <3>1. m \in DOMAIN new /\ e \in Range(new[m])
      BY <1>1, <1>3
    <3> QED
      BY <3>1 DEF Flat
  <2> QED
    BY <2>4, <2>5, <2>6, <2>7
<1>4. CASE new = Append(outs, <<e>>)
  <2>1. <<e>> \in T /\ <<e>> # <<>> /\ IsSorted(<<e>>) /\ Range(<<e>>) = {e}
    <3>1. <<e>> \in T /\ DOMAIN <<e>> = {1} /\ <<e>>[1] = e /\ <<e>> # <<>>
      BY DEF T
    <3>2. Range(<<e>>) = {e}
      BY <3>1 DEF Range
    <3>3. IsSorted(<<e>>)
      BY <3>1 DEF IsSorted
    <3> QED
      BY <3>1, <3>2, <3>3
  <2>2. /\ new \in Seq(T) /\ DOMAIN new = 1 .. n + 1 /\ new[n + 1] = <<e>>
        /\ \A o \in 1 .. n : new[o] = outs[o]
    BY <1>1, <1>4, <2>1 DEF n
  <2>3. \A o \in 1 .. n + 1 : o # n + 1 => new[o] = outs[o]
    BY <1>1, <2>2
  <2>4. n + 1 \in Nat /\ n + 1 # 0 /\ n + 1 # n
    BY <1>1
  <2> QED
    BY <1>3, <2>1, <2>2, <2>3, <2>4
<1>5. CASE outs # <<>> /\ new = Extended(outs, e)
  <2>0. Len(outs) # 0
    BY <1>0, <1>5
  <2>1. n \in 1 .. n /\ n # 0
    BY <1>1, <2>0 DEF n
  <2>2. /\ Append(outs[n], e) \in T /\ Append(outs[n], e) # <<>> /\ IsSorted(Append(outs[n], e))
        /\ Range(Append(outs[n], e)) = Range(outs[n]) \cup {e}
    BY <1>1, <1>2, <2>1, AppendSorted DEF T
  <2>3. /\ new \in Seq(T) /\ DOMAIN new = 1 .. n /\ new[n] = Append(outs[n], e)
        /\ \A o \in 1 .. n : o # n => new[o] = outs[o]
    <3>1. new = [outs EXCEPT ![n] = Append(outs[n], e)]
      BY <1>5 DEF n, Extended
    <3>2. n \in 1 .. Len(outs)
      BY <2>1 DEF n
    <3>3. new \in Seq(T) /\ Len(new) = n
      BY <1>0, <2>2, <3>1, <3>2, ExceptSeq DEF n
    <3> QED
      BY <1>1, <2>1, <3>1, <3>3
  <2> QED
    BY <1>1, <1>3, <2>1, <2>2, <2>3
<1> QED
  BY <1>4, <1>5

LEMMA CompactEntryIs ==
    ASSUME NEW c, NEW st, NEW e, NEW new, new = CompactEntry(c, st, e)
    PROVE  /\ new.key = e.key /\ new.last = e.seq
           /\ Drop(c, st, e) => new.outs = st.outs
           /\ Drop(c, st, e) /\ new.open => st.open
           /\ Drop(c, st, e) \/ new.outs = Append(st.outs, <<e>>)
              \/ (st.open /\ new.outs = Extended(st.outs, e))
BY DEF CompactEntry, Extended

\* The entries of the input that are written, and those that are not.
Kept(c, In, e) == \A d \in In : d.key = e.key /\ e.seq < d.seq => c.smallestSnapshot < d.seq
Dropped(c, In, e) ==
    \/ \E d \in In : d.key = e.key /\ e.seq < d.seq /\ d.seq <= c.smallestSnapshot
    \/ e.type = "deletion" /\ e.seq <= c.smallestSnapshot /\ IsBaseLevelForKey(c, e.key)

\* DoCompactionWork after i entries.
Merged(E, c, in, i, st) ==
    /\ IF i = 0 THEN st.key = 0 ELSE st.key = in[i].key /\ st.last = in[i].seq
    /\ st.open => st.outs # <<>>
    /\ Written(E, st.outs)
    /\ \A e \in Flat(st.outs) : (\E j \in 1 .. i : e = in[j]) /\ Kept(c, Range(in), e)
    /\ \A j \in 1 .. i : in[j] \in Flat(st.outs) \/ Dropped(c, Range(in), in[j])

LEMMA MergedStep ==
    ASSUME NEW E, Updates(E), NEW c, c.smallestSnapshot \in Nat, NEW in \in Seq(E), IsSorted(in),
           NEW i \in Nat, i < Len(in), NEW st, Merged(E, c, in, i, st)
    PROVE  Merged(E, c, in, i + 1, CompactEntry(c, st, in[i + 1]))
<1> DEFINE e == in[i + 1]
           new == CompactEntry(c, st, e)
           In == Range(in)
           n == Len(in)
<1>e. CompactEntry(c, st, in[i + 1]) = new
  OBVIOUS
<1>1. n \in Nat /\ DOMAIN in = 1 .. n /\ (\A j \in 1 .. n : in[j] \in E) /\ i + 1 \in 1 .. n /\ i < n
  OBVIOUS
<1>2. \A j \in 1 .. n : in[j] \in In
  BY <1>1 DEF Range
<1>3. \A d \in In : \E j \in 1 .. n : d = in[j]
  BY <1>1 DEF Range
<1>4. \A j, k \in 1 .. n : j < k => Less(in[j], in[k])
  BY <1>1 DEF IsSorted
<1>5. \A d \in E : d.key \in Int /\ d.key # 0 /\ d.seq \in Int /\ d.seq # 0
  BY DEF Updates, Keys
<1> HIDE DEF e
<1>6. /\ new.key = e.key /\ new.last = e.seq
      /\ Drop(c, st, e) => new.outs = st.outs
      /\ Drop(c, st, e) /\ new.open => st.open
      /\ Drop(c, st, e) \/ new.outs = Append(st.outs, <<e>>)
         \/ (st.open /\ new.outs = Extended(st.outs, e))
  BY CompactEntryIs
<1> HIDE DEF n, In, new
<1>7. e \in E /\ e \in In /\ \A j \in 1 .. i : j \in 1 .. n /\ Less(in[j], e)
  BY <1>1, <1>2, <1>4 DEF e
<1>8. (i = 0 => st.key = 0) /\ (i # 0 => i \in 1 .. n /\ i \in 1 .. i /\ st.key = in[i].key /\ st.last = in[i].seq)
  BY <1>1 DEF Merged
<1>9. ASSUME Drop(c, st, e) PROVE Dropped(c, In, e)
  <2>1. CASE e.type = "deletion" /\ e.seq <= c.smallestSnapshot /\ IsBaseLevelForKey(c, e.key)
    BY <2>1 DEF Dropped
  <2>2. CASE Hidden(c, IF st.key = e.key THEN st.last ELSE 0, e)
    <3>1. st.key = e.key /\ st.last <= c.smallestSnapshot
      BY <2>2 DEF Hidden
    <3>2. i # 0
      BY <1>5, <1>7, <1>8, <3>1
    <3>3. in[i] \in In /\ in[i] \in E /\ in[i].key = e.key /\ in[i].seq <= c.smallestSnapshot /\ Less(in[i], e)
      BY <1>1, <1>2, <1>7, <1>8, <3>1, <3>2
    <3>4. e.seq < in[i].seq
      BY <1>5, <1>7, <3>3 DEF Less
    <3> QED
      BY <3>3, <3>4 DEF Dropped
  <2> QED
    BY <1>9, <2>1, <2>2 DEF Drop
<1>10. ASSUME ~Drop(c, st, e) PROVE Kept(c, In, e)
  <2>1. ASSUME NEW d \in In, d.key = e.key, e.seq < d.seq PROVE c.smallestSnapshot < d.seq
    <3>1. PICK j \in 1 .. n : d = in[j]
      BY <1>3
    <3>2. d \in E /\ d.key \in Int /\ d.seq \in Int /\ e.seq \in Int /\ Less(d, e) /\ d # e
      BY <1>1, <1>5, <1>7, <2>1, <3>1 DEF Less
    <3>3. j < i + 1
      <4>1. SUFFICES ASSUME j >= i + 1 PROVE FALSE
        BY <3>1
      <4>2. CASE j = i + 1
        BY <3>1, <3>2, <4>2 DEF e
      <4>3. CASE j > i + 1
        <5>1. Less(e, d)
          BY <1>1, <1>4, <3>1, <4>3 DEF e
        <5> QED
          BY <1>7, <3>2, <5>1, LessIsOrder
      <4> QED
        BY <3>1, <4>1, <4>2, <4>3
    <3>4. i # 0 /\ j \in 1 .. i
      BY <3>1, <3>3
    <3>5. in[i] \in E /\ Less(in[i], e) /\ (j = i \/ Less(d, in[i]))
      BY <1>1, <1>4, <1>7, <1>8, <3>1, <3>4
    <3>6. in[i].key \in Int /\ in[i].seq \in Int /\ in[i].seq # 0 /\ e.key \in Int
      BY <1>5, <1>7, <3>5
    <3>7. in[i].key = e.key /\ in[i].seq <= d.seq
      <4>1. CASE j = i
        BY <2>1, <3>1, <3>2, <4>1
      <4>2. CASE Less(d, in[i])
        BY <2>1, <3>2, <3>5, <3>6, <4>2 DEF Less
      <4> QED
        BY <3>5, <4>1, <4>2
    <3>8. ~Hidden(c, IF st.key = e.key THEN st.last ELSE 0, e)
      BY <1>10 DEF Drop
    <3>9. ~(in[i].seq <= c.smallestSnapshot)
      BY <1>8, <3>4, <3>6, <3>7, <3>8 DEF Hidden
    <3> QED
      BY <3>2, <3>6, <3>7, <3>9
  <2> QED
    BY <2>1 DEF Kept
<1>11. Written(E, st.outs) /\ (st.open => st.outs # <<>>)
  BY DEF Merged
<1>12. \A x \in Flat(st.outs) : (\E j \in 1 .. i : x = in[j]) /\ Kept(c, In, x)
  BY DEF Merged, In
<1>13. \A j \in 1 .. i : in[j] \in Flat(st.outs) \/ Dropped(c, In, in[j])
  BY DEF Merged, In
<1>14. \A x \in Flat(st.outs) : Less(x, e)
  BY <1>7, <1>12
<1>15. Written(E, new.outs) /\ Flat(new.outs) = Flat(st.outs) \cup (IF Drop(c, st, e) THEN {} ELSE {e})
  <2>1. CASE Drop(c, st, e)
    BY <1>6, <1>11, <2>1
  <2>2. CASE ~Drop(c, st, e)
    BY <1>6, <1>7, <1>11, <1>14, <2>2, EntryWritten
  <2> QED
    BY <2>1, <2>2
<1>16. new.open => new.outs # <<>>
  <2>1. CASE Drop(c, st, e)
    BY <1>6, <1>11, <2>1
  <2>2. CASE ~Drop(c, st, e)
    <3>1. e \in Flat(new.outs)
      BY <1>15, <2>2
    <3> QED
      BY <3>1 DEF Flat
  <2> QED
    BY <2>1, <2>2
<1>17. (\A x \in Flat(new.outs) : (\E j \in 1 .. i + 1 : x = in[j]) /\ Kept(c, In, x))
  <2>1. ASSUME NEW x \in Flat(new.outs) PROVE (\E j \in 1 .. i + 1 : x = in[j]) /\ Kept(c, In, x)
    <3>1. CASE x \in Flat(st.outs)
      <4>1. PICK j \in 1 .. i : x = in[j]
        BY <1>12, <3>1
      <4>2. j \in 1 .. i + 1
        BY <4>1
      <4> QED
        BY <1>12, <3>1, <4>1, <4>2
    <3>2. CASE x = e /\ ~Drop(c, st, e)
      <4>1. i + 1 \in 1 .. i + 1 /\ x = in[i + 1]
        BY <3>2 DEF e
      <4> QED
        BY <1>10, <3>2, <4>1
    <3> QED
      BY <1>15, <3>1, <3>2
  <2> QED
    BY <2>1
<1>18. ASSUME NEW j \in 1 .. i + 1 PROVE in[j] \in Flat(new.outs) \/ Dropped(c, In, in[j])
  <2>1. CASE j \in 1 .. i
    BY <1>13, <1>15, <2>1
  <2>2. CASE j = i + 1
    BY <1>9, <1>15, <2>2 DEF e
  <2> QED
    BY <2>1, <2>2
<1>19. i + 1 # 0 /\ new.key = in[i + 1].key /\ new.last = in[i + 1].seq
  BY <1>6 DEF e
<1> QED
  BY <1>e, <1>15, <1>16, <1>17, <1>18, <1>19 DEF Merged, In

MergeStart ==
    [key |-> 0, last |-> 0, seen |-> FALSE, overlap |-> 0, grand |-> 0, outs |-> <<>>, open |-> FALSE]
Merges(c, in, g) ==
    g = [i \in 0 .. Len(in) |-> IF i = 0 THEN MergeStart ELSE CompactEntry(c, g[i - 1], in[i])]

LEMMA MergeExists == ASSUME NEW c, NEW in, Len(in) \in Nat PROVE \E g : Merges(c, in, g)
<1> DEFINE N == Len(in)
           Next1(g, n) == IF n = 0 THEN MergeStart ELSE CompactEntry(c, g[n - 1], in[n])
           Good(m, g) == /\ g = [n \in 0 .. N |-> g[n]]
                         /\ \A n \in 0 .. m : n <= N => g[n] = Next1(g, n)
           Bad == {m \in Nat : ~ \E g : Good(m, g)}
<1>1. \E g : Good(0, g)
  <2> DEFINE g == [n \in 0 .. N |-> MergeStart]
  <2>1. Good(0, g)
    OBVIOUS
  <2> QED
    BY <2>1
<1>2. ASSUME NEW m \in Nat, NEW g, Good(m, g) PROVE \E h : Good(m + 1, h)
  <2> DEFINE h == [n \in 0 .. N |-> IF n <= m THEN g[n] ELSE CompactEntry(c, g[n - 1], in[n])]
  <2>1. ASSUME NEW n \in 0 .. m + 1, n <= N PROVE h[n] = Next1(h, n)
    <3>1. CASE n <= m
      <4>1. h[n] = g[n] /\ (n # 0 => h[n - 1] = g[n - 1])
        BY <2>1, <3>1
      <4>2. g[n] = Next1(g, n)
        <5>1. n \in 0 .. m
          BY <2>1, <3>1
        <5> QED
          BY <1>2, <2>1, <5>1
      <4> QED
        BY <4>1, <4>2
    <3>2. CASE n = m + 1
      <4>1. h[n] = CompactEntry(c, g[n - 1], in[n]) /\ h[n - 1] = g[n - 1] /\ n # 0
        BY <2>1, <3>2
      <4> QED
        BY <4>1
    <3> QED
      BY <3>1, <3>2
  <2> QED
    BY <2>1
<1> HIDE DEF Good
<1>3. Bad = {}
  <2>1. SUFFICES ASSUME Bad # {} PROVE FALSE
    OBVIOUS
  <2>2. PICK m \in Bad : \A n \in Bad : m <= n
    BY <2>1, Least
  <2>3. m # 0
    BY <1>1
  <2>4. m - 1 \in Nat /\ m - 1 \notin Bad
    BY <2>2, <2>3
  <2>5. PICK g : Good(m - 1, g)
    BY <2>4
  <2>6. \E h : Good((m - 1) + 1, h)
    BY <1>2, <2>4, <2>5
  <2> QED
    BY <2>2, <2>6
<1>4. PICK g : Good(N, g)
  BY <1>3
<1>5. Merges(c, in, g)
  <2>1. g = [n \in 0 .. N |-> g[n]]
    BY <1>4 DEF Good
  <2>2. ASSUME NEW n \in 0 .. N PROVE g[n] = Next1(g, n)
    <3> HIDE DEF Next1
    <3>1. N \in Nat /\ n <= N /\ \A k \in 0 .. N : k <= N => g[k] = Next1(g, k)
      BY <1>4 DEF Good
    <3> QED
      BY <3>1
  <2>3. g = [n \in 0 .. N |-> Next1(g, n)]
    <3> HIDE DEF Next1
    <3> QED
      BY <2>1, <2>2
  <2> QED
    BY <2>3 DEF Merges
<1> QED
  BY <1>5

LEMMA UpdatesFinite == ASSUME NEW E, Updates(E), NEW S, S \subseteq E PROVE IsFiniteSet(S)
<1> DEFINE f == [e \in S |-> e.seq]
<1>1. f \in Injection(S, 1 .. MaxWrites)
  BY DEF Updates, Injection, IsInjective
<1>2. IsFiniteSet(1 .. MaxWrites)
  BY LSMAssumption, FS_Interval
<1> QED
  BY <1>1, <1>2, FS_Injection

\* The entries of the files of F.
EntriesOf(F) == UNION {Range(f.data) : f \in F}

LEMMA EntriesOfIs ==
    ASSUME NEW E, Updates(E), NEW F, \A f \in F : Table(E, f)
    PROVE  EntriesOf(F) \subseteq E
BY TableEnds DEF EntriesOf

\* A compaction writes entries of its inputs, in order; it keeps none that has
\* a newer entry every snapshot can see, and loses only those with one, and
\* deletions with nothing below them.
LEMMA OutputsAre ==
    ASSUME NEW E, Updates(E), NEW c, c.smallestSnapshot \in Nat, \A f \in Inputs(c) : Table(E, f)
    PROVE  LET outs == CompactionOutputs(c)
               In == EntriesOf(Inputs(c))
           IN  /\ Written(E, outs)
               /\ \A e \in Flat(outs) : e \in In /\ Kept(c, In, e)
               /\ \A e \in In : e \in Flat(outs) \/ Dropped(c, In, e)
<1> DEFINE In == EntriesOf(Inputs(c))
           in == Sorted(In)
           n == Len(in)
           g == CHOOSE h : Merges(c, in, h)
           outs == CompactionOutputs(c)
<1>1. In \subseteq E
  BY EntriesOfIs
<1>2. IsFiniteSet(In)
  BY <1>1, UpdatesFinite
<1>3. in \in Seq(In) /\ Range(in) = In /\ IsSorted(in)
  BY <1>1, <1>2, SortedIs
<1>4. outs = g[n].outs
  BY DEF CompactionOutputs, Merges, MergeStart, Inputs, EntriesOf
<1> HIDE DEF in, In, outs
<1>5. in \in Seq(E) /\ n \in Nat
  BY <1>1, <1>3
<1>6. Merges(c, in, g)
  BY <1>5, MergeExists
<1> HIDE DEF g, n
<1>7. \A i \in 0 .. n : g[i] = IF i = 0 THEN MergeStart ELSE CompactEntry(c, g[i - 1], in[i])
  BY <1>6 DEF Merges, n
<1> DEFINE Bad == {i \in 0 .. n : ~Merged(E, c, in, i, g[i])}
<1>8. Bad = {}
  <2>1. SUFFICES ASSUME Bad # {} PROVE FALSE
    OBVIOUS
  <2>2. Bad \subseteq Nat
    OBVIOUS
  <2>3. PICK m \in Bad : \A i \in Bad : m <= i
    BY <2>1, <2>2, Least
  <2>4. m # 0
    <3>1. SUFFICES ASSUME m = 0 PROVE FALSE
      OBVIOUS
    <3>2. g[0] = MergeStart
      BY <1>5, <1>7
    <3>3. MergeStart.key = 0 /\ MergeStart.open = FALSE /\ MergeStart.outs = <<>>
      BY DEF MergeStart
    <3>4. Written(E, <<>>) /\ Flat(<<>>) = {}
      BY DEF Written, Flat
    <3>5. Merged(E, c, in, 0, MergeStart)
      BY <3>3, <3>4 DEF Merged
    <3> QED
      BY <2>3, <3>1, <3>2, <3>5
  <2>5. m - 1 \in 0 .. n /\ m - 1 \notin Bad /\ m - 1 \in Nat /\ m - 1 < n
    BY <1>5, <2>3, <2>4
  <2>6. Merged(E, c, in, m - 1, g[m - 1])
    BY <2>5
  <2>7. Merged(E, c, in, (m - 1) + 1, CompactEntry(c, g[m - 1], in[(m - 1) + 1]))
    BY <1>3, <1>5, <2>5, <2>6, MergedStep DEF n
  <2>8. (m - 1) + 1 = m /\ m \in 0 .. n /\ ~Merged(E, c, in, m, g[m])
    BY <2>3
  <2> QED
    BY <1>7, <2>4, <2>7, <2>8
<1>9. Merged(E, c, in, n, g[n])
  BY <1>5, <1>8
<1>10. Written(E, outs) /\ \A e \in Flat(outs) : (\E j \in 1 .. n : e = in[j]) /\ Kept(c, In, e)
  BY <1>3, <1>4, <1>9 DEF Merged
<1>11. \A j \in 1 .. n : in[j] \in Flat(outs) \/ Dropped(c, In, in[j])
  BY <1>3, <1>4, <1>9 DEF Merged
<1>12. (\A j \in 1 .. n : in[j] \in In) /\ \A e \in In : \E j \in 1 .. n : e = in[j]
  BY <1>3, <1>5 DEF Range, n
<1> QED
  BY <1>10, <1>11, <1>12 DEF In, outs

-----------------------------------------------------------------------------
(* The state of a version *)

\* The update with sequence number i.
EntryOf(i) == [key |-> history[i].key, seq |-> i, type |-> history[i].type]
Entries == {EntryOf(i) : i \in 1 .. Len(history)}

HistoryTyped ==
    /\ history \in Seq([key : Keys, type : Types]) /\ Len(history) <= MaxWrites
    /\ mem \subseteq Entries /\ imm \subseteq Entries
    /\ snaps \subseteq 1 .. Len(history) /\ nextFile \in 1 .. MaxFiles

FilesTyped ==
    /\ files = [l \in Levels |-> files[l]] /\ Stocked(Entries)
    /\ \A l \in Levels : \A f \in files[l] : f.num < nextFile

\* A running compaction's inputs are in the levels it takes them from.
CompTyped ==
    /\ comp.on \in BOOLEAN
    /\ comp.on =>
        /\ comp.level \in 0 .. NumLevels - 2 /\ comp.smallestSnapshot \in 0 .. Len(history)
        /\ comp.in0 \subseteq files[comp.level] /\ comp.in1 \subseteq files[comp.level + 1]
        /\ comp.in0 # {}

Typed == HistoryTyped /\ FilesTyped /\ CompTyped

LEMMA EntriesAre ==
    ASSUME HistoryTyped
    PROVE  /\ Updates(Entries) /\ Len(history) \in Nat
           /\ \A e \in Entries : e.seq \in 1 .. Len(history) /\ e = EntryOf(e.seq) /\ history[e.seq].key = e.key
<1> DEFINE U == [key : Keys, type : Types]
<1>0. history \in Seq(U) /\ \A u \in U : u.key \in Keys
  BY DEF HistoryTyped
<1> HIDE DEF U
<1>1. Len(history) \in Nat /\ Len(history) <= MaxWrites /\ MaxWrites \in Nat
      /\ \A i \in 1 .. Len(history) : history[i].key \in Keys
  BY <1>0, LSMAssumption DEF HistoryTyped
<1>2. ASSUME NEW e \in Entries
      PROVE  e.seq \in 1 .. Len(history) /\ e = EntryOf(e.seq) /\ history[e.seq].key = e.key /\ e.key \in Keys
  <2>1. PICK i \in 1 .. Len(history) : e = EntryOf(i)
    BY DEF Entries
  <2>2. e.seq = i /\ e.key = history[i].key
    BY <2>1 DEF EntryOf
  <2> QED
    BY <1>1, <2>1, <2>2
<1>3. \A i \in 1 .. Len(history) : i \in 1 .. MaxWrites
  BY <1>1
<1>4. Updates(Entries)
  <2>1. \A e \in Entries : e.key \in Keys /\ e.seq \in 1 .. MaxWrites
    BY <1>2, <1>3
  <2>2. \A e, d \in Entries : e.seq = d.seq => e = d
    BY <1>2
  <2> QED
    BY <2>1, <2>2 DEF Updates
<1> QED
  BY <1>1, <1>2, <1>4

LEMMA TableIn ==
    ASSUME NEW E, NEW D, E \subseteq D, NEW f, Table(E, f) PROVE Table(D, f)
BY DEF Table

LEMMA StockedIn ==
    ASSUME NEW E, NEW D, E \subseteq D, Updates(D), Stocked(E) PROVE Stocked(D)
BY TableIn DEF Stocked

-----------------------------------------------------------------------------
(* What the actions do to the files *)

\* A file is added to a level.
Added(p, f) == files' = [l \in Levels |-> IF l = p THEN files[l] \cup {f} ELSE files[l]]

\* The inputs of a compaction are replaced, in the next level, by the files N.
Replaced(c, N) ==
    files' = [l \in Levels |-> IF l = c.level THEN files[l] \ c.in0
                               ELSE IF l = c.level + 1 THEN (files[l] \ c.in1) \cup N ELSE files[l]]

LEMMA FlushAdds ==
    ASSUME Typed, LevelsApart(FALSE), CompactMemTable
    PROVE  \E p, f :
              /\ p \in Levels
              /\ Added(p, f) /\ Table(Entries, f) /\ Range(f.data) = imm /\ f.num = nextFile
              /\ p # 0 => \A l \in Levels : l <= p => \A g \in files[l] : ~Overlaps(g, First(f), Last(f))
<1> DEFINE data == Sorted(imm)
           p == PickLevelForMemTableOutput(data[1].key, data[Len(data)].key)
           f == [num |-> nextFile, data |-> data]
<1>1. HistoryTyped /\ FilesTyped /\ Stocked(Entries) /\ Updates(Entries)
  BY EntriesAre DEF Typed, FilesTyped
<1>2. imm \subseteq Entries /\ imm # {} /\ nextFile \in Nat
  BY <1>1 DEF HistoryTyped, CompactMemTable
<1>3. files' = ApplyEdit({}, {<<p, f>>})
  BY DEF CompactMemTable
<1>4. data \in Seq(imm) /\ Range(data) = imm /\ IsSorted(data)
  BY <1>1, <1>2, UpdatesFinite, SortedIs
<1> HIDE DEF data
<1>5. f.num = nextFile /\ f.data = data
  OBVIOUS
<1>6. Smallest(f).key = data[1].key /\ Largest(f).key = data[Len(data)].key
  BY DEF Smallest, Largest
<1> HIDE DEF p, f
<1>7. data \in Seq(Entries) /\ data # <<>>
  <2>1. data # <<>>
    BY <1>2, <1>4 DEF Range
  <2> QED
    BY <1>2, <1>4, <2>1
<1>8. Table(Entries, f)
  BY <1>2, <1>4, <1>5, <1>7 DEF Table
<1>9. First(f) \in Keys /\ Last(f) \in Keys
  BY <1>1, <1>8, TableEnds
<1>10. /\ p \in Levels
       /\ p # 0 => \A l \in Levels : l <= p => \A g \in files[l] : ~Overlaps(g, First(f), Last(f))
  BY <1>1, <1>6, <1>9, PickLevelIs DEF p, First, Last
<1>11. Added(p, f)
  <2>1. \A l \in Levels : {x[2] : x \in {y \in {<<p, f>>} : y[1] = l}} = IF l = p THEN {f} ELSE {}
    <3>1. <<p, f>>[1] = p /\ <<p, f>>[2] = f
      OBVIOUS
    <3>2. \A l \in Levels : {y \in {<<p, f>>} : y[1] = l} = IF l = p THEN {<<p, f>>} ELSE {}
      BY <3>1
    <3>3. {x[2] : x \in {<<p, f>>}} = {f} /\ {x[2] : x \in {}} = {}
      BY <3>1
    <3> QED
      BY <3>2, <3>3
  <2>2. \A l \in Levels : {g \in files[l] : <<l, g.num>> \notin {}} = files[l]
    OBVIOUS
  <2> QED
    BY <1>3, <2>1, <2>2 DEF ApplyEdit, Added
<1> WITNESS p, f
<1> QED
  BY <1>4, <1>5, <1>8, <1>10, <1>11

LEMMA EditReplaces ==
    ASSUME NEW E, Stocked(E), NEW c, c.level \in 0 .. NumLevels - 2,
           c.in0 \subseteq files[c.level], c.in1 \subseteq files[c.level + 1],
           NEW N, NEW new, \A x \in new : x[1] = c.level + 1, N = {x[2] : x \in new},
           files' = ApplyEdit(AddInputDeletions(c), new)
    PROVE  Replaced(c, N)
<1>1. c.level \in Levels /\ c.level + 1 \in Levels /\ c.level \in Int
  BY LSMAssumption DEF Levels
<1>2. ASSUME NEW l \in Levels, NEW f \in files[l]
      PROVE  <<l, f.num>> \in AddInputDeletions(c) <=> (l = c.level /\ f \in c.in0) \/ (l = c.level + 1 /\ f \in c.in1)
  <2>1. <<l, f.num>> \in AddInputDeletions(c) <=>
           \/ l = c.level /\ \E g \in c.in0 : f.num = g.num
           \/ l = c.level + 1 /\ \E g \in c.in1 : f.num = g.num
    BY DEF AddInputDeletions
  <2>2. \A m \in Levels : \A g \in files[m] : f.num = g.num => f = g
    BY DEF Stocked, NumbersUnique
  <2> QED
    BY <1>1, <2>1, <2>2
<1>3. \A l \in Levels : {x[2] : x \in {y \in new : y[1] = l}} = IF l = c.level + 1 THEN N ELSE {}
  OBVIOUS
<1>4. ASSUME NEW l \in Levels
      PROVE  {f \in files[l] : <<l, f.num>> \notin AddInputDeletions(c)} =
                IF l = c.level THEN files[l] \ c.in0 ELSE IF l = c.level + 1 THEN files[l] \ c.in1 ELSE files[l]
  BY <1>1, <1>2
<1>5. \A l \in Levels :
         {f \in files[l] : <<l, f.num>> \notin AddInputDeletions(c)} \cup {x[2] : x \in {y \in new : y[1] = l}} =
            IF l = c.level THEN files[l] \ c.in0
            ELSE IF l = c.level + 1 THEN (files[l] \ c.in1) \cup N ELSE files[l]
  BY <1>1, <1>3, <1>4
<1> QED
  BY <1>5 DEF ApplyEdit, Replaced

\* What a compaction of a level may start from.
Selected(level, in0) ==
    in0 \subseteq files[level] /\ in0 # {} /\ (level = 0 => Closed(files[0], in0))

\* A compaction has been chosen: it starts, or it is one file that moves down.
Starts(c) == comp' = c /\ files' = files
Moves(c) == comp' = comp /\ c.in1 = {} /\ (\E g : c.in0 = {g}) /\ Replaced(c, c.in0)

LEMMA PickChooses ==
    ASSUME NEW E, Stocked(E), NEW level \in 0 .. NumLevels - 2, NEW f \in files[level], PickCompaction(level, f)
    PROVE  \E in0, c : /\ Selected(level, in0) /\ HullCovered(in0) /\ SetUp(level, in0, c)
                       /\ Starts(c) \/ Moves(c)
<1> DEFINE in0 == IF level = 0 THEN GetOverlappingInputs(0, Smallest(f).key, Largest(f).key) ELSE {f}
           c == SetupOtherInputs(level, in0)
<1>1. /\ IF IsTrivialMove(c)
         THEN /\ files' = ApplyEdit(AddInputDeletions(c), {<<level + 1, g>> : g \in c.in0})
              /\ UNCHANGED comp
         ELSE comp' = c /\ UNCHANGED files
  BY DEF PickCompaction
<1> HIDE DEF c
<1>2. level \in Levels /\ 0 \in Levels /\ level + 1 \in Levels
  BY LSMAssumption DEF Levels
<1>3. Updates(E) /\ Table(E, f)
  BY <1>2 DEF Stocked
<1>4. First(f) \in Keys /\ Last(f) \in Keys /\ First(f) <= Last(f) /\ First(f) \in Int /\ Last(f) \in Int
  BY <1>3, TableEnds DEF Keys
<1>5. Selected(level, in0) /\ HullCovered(in0)
  <2>1. CASE level = 0
    <3> DEFINE G == GetOverlappingInputs(0, First(f), Last(f))
    <3>1. in0 = G
      BY <2>1 DEF First, Last
    <3>2. /\ G \subseteq files[0] /\ Hit(files[0], <<First(f), Last(f)>>) \subseteq G
          /\ \A h \in files[0] \ G, g \in G : Last(h) < First(g) \/ Last(g) < First(h)
          /\ \A k \in Keys : /\ First(f) <= k \/ \E g \in G : First(g) <= k
                             /\ k <= Last(f) \/ \E g \in G : k <= Last(g)
                             => (First(f) <= k /\ k <= Last(f)) \/ Covered(G, k)
      BY <1>2, <1>4, OverlappingIs
    <3> HIDE DEF G
    <3>3. f \in G
      <4>1. Overlaps(f, First(f), Last(f))
        BY <1>4 DEF Overlaps, First, Last
      <4> QED
        BY <2>1, <3>2, <4>1 DEF Hit
    <3>4. ASSUME NEW k \in Keys, InHull(G, k) PROVE Covered(G, k)
      <4>1. (First(f) <= k /\ k <= Last(f)) \/ Covered(G, k)
        BY <3>2, <3>4 DEF InHull
      <4>2. ASSUME First(f) <= k, k <= Last(f) PROVE Overlaps(f, k, k)
        BY <1>4, <4>2, OverlapsIs DEF Keys
      <4> QED
        BY <3>3, <4>1, <4>2 DEF Covered
    <3> QED
      BY <2>1, <3>1, <3>2, <3>3, <3>4 DEF Selected, Closed, HullCovered
  <2>2. CASE level # 0
    <3>1. in0 = {f}
      BY <2>2
    <3>2. ASSUME NEW k \in Keys, InHull({f}, k) PROVE Overlaps(f, k, k)
      BY <1>4, <3>2, OverlapsIs DEF InHull, Keys
    <3> QED
      BY <2>2, <3>1, <3>2 DEF Selected, HullCovered, Covered
  <2> QED
    BY <2>1, <2>2
<1> HIDE DEF in0
<1>6. SetUp(level, in0, c)
  BY <1>5, SetupIs DEF Selected, c
<1>7. CASE IsTrivialMove(c)
  <2>1. /\ Cardinality(c.in0) = 1 /\ c.in1 = {} /\ comp' = comp /\ c.level = level
        /\ c.in0 \subseteq files[level] /\ c.in1 \subseteq files[level + 1]
    BY <1>1, <1>6, <1>7 DEF IsTrivialMove, SetUp
  <2>2. IsFiniteSet(c.in0)
    BY <1>2, <2>1, FS_Subset DEF Stocked
  <2>3. \E g : c.in0 = {g}
    BY <2>1, <2>2, FS_Singleton
  <2> DEFINE new == {<<level + 1, g>> : g \in c.in0}
  <2>4. (\A x \in new : x[1] = c.level + 1) /\ c.in0 = {x[2] : x \in new}
    <3>1. \A g \in c.in0 : <<level + 1, g>>[1] = level + 1 /\ <<level + 1, g>>[2] = g
      OBVIOUS
    <3>2. \A x \in new : \E g \in c.in0 : x = <<level + 1, g>>
      OBVIOUS
    <3>3. \A g \in c.in0 : <<level + 1, g>> \in new
      OBVIOUS
    <3> HIDE DEF new
    <3>4. \A x \in new : x[1] = c.level + 1 /\ x[2] \in c.in0
      BY <2>1, <3>1, <3>2
    <3>5. \A g \in c.in0 : \E x \in new : g = x[2]
      BY <3>1, <3>3
    <3>6. c.in0 \subseteq {x[2] : x \in new}
      BY <3>5
    <3>7. {x[2] : x \in new} \subseteq c.in0
      BY <3>4
    <3> QED
      BY <3>4, <3>6, <3>7
  <2>5. files' = ApplyEdit(AddInputDeletions(c), new)
    BY <1>1, <1>7
  <2> HIDE DEF new
  <2>6. Replaced(c, c.in0)
    BY <2>1, <2>4, <2>5, EditReplaces
  <2> QED
    BY <1>5, <1>6, <2>1, <2>3, <2>6 DEF Moves
<1>8. CASE ~IsTrivialMove(c)
  BY <1>1, <1>5, <1>6, <1>8 DEF Starts
<1> QED
  BY <1>7, <1>8

LEMMA RangeChooses ==
    ASSUME NEW E, Stocked(E), NEW level \in 0 .. NumLevels - 2, NEW b \in Keys, NEW e \in Keys,
           CompactRange(level, b, e)
    PROVE  \E in0, c : Selected(level, in0) /\ SetUp(level, in0, c) /\ Starts(c)
<1> DEFINE G == GetOverlappingInputs(level, b, e)
           found == InOrder(G)
           upTo(i) == TotalFileSize({found[j] : j \in 1 .. i})
           full == {i \in DOMAIN found : upTo(i) >= MaxFileSize}
           cut == IF level = 0 THEN found
                  ELSE IF full = {} THEN found ELSE SubSeq(found, 1, Min(full))
<1>1. found # <<>> /\ comp' = SetupOtherInputs(level, Range(cut)) /\ files' = files
  BY DEF CompactRange
<1>2. level \in Levels /\ 0 \in Levels
  BY LSMAssumption DEF Levels
<1>3. Updates(E)
  BY DEF Stocked
<1> HIDE DEF upTo
<1>4. /\ G \subseteq files[level]
      /\ level = 0 => \A f \in files[0] \ G, g \in G : Last(f) < First(g) \/ Last(g) < First(f)
  BY <1>2, OverlappingIs
<1> HIDE DEF G
<1>5. /\ IsFiniteSet(G) /\ \A f \in G : Table(E, f)
      /\ \A f, g \in G : f.num = g.num => f = g
  BY <1>2, <1>4, FS_Subset DEF Stocked, NumbersUnique
<1>6. found \in Seq(G) /\ Range(found) = G
  BY <1>3, <1>5, InOrderIs
<1> HIDE DEF found
<1>7. Len(found) \in Nat /\ Len(found) # 0 /\ DOMAIN found = 1 .. Len(found)
  BY <1>1, <1>6
<1>8. CASE cut = found
  <2>1. G # {}
    BY <1>6, <1>7 DEF Range
  <2>2. Selected(level, Range(cut))
    BY <1>4, <1>6, <1>8, <2>1 DEF Selected, Closed
  <2> QED
    BY <1>1, <2>2, SetupIs DEF Selected, Starts
<1>9. CASE level # 0 /\ full # {} /\ cut = SubSeq(found, 1, Min(full))
  <2>1. full \subseteq 1 .. Len(found) /\ full \subseteq Nat
    BY <1>7
  <2> HIDE DEF full, cut
  <2>2. Min(full) \in 1 .. Len(found)
    BY <1>9, <2>1, MinIs
  <2> DEFINE m == Min(full)
  <2> HIDE DEF m
  <2>3. cut = SubSeq(found, 1, m) /\ m \in 1 .. Len(found)
    BY <1>9, <2>2 DEF m
  <2>4. Len(cut) = m /\ DOMAIN cut = 1 .. m /\ \A i \in 1 .. m : cut[i] = found[i] /\ i \in 1 .. Len(found)
    BY <1>6, <1>7, <2>3
  <2>5. Range(cut) \subseteq Range(found) /\ Range(cut) # {}
    <3>1. Range(cut) = {cut[i] : i \in 1 .. m} /\ Range(found) = {found[i] : i \in 1 .. Len(found)}
      BY <1>7, <2>4 DEF Range
    <3>2. 1 \in 1 .. m
      BY <2>3
    <3> QED
      BY <2>4, <3>1, <3>2
  <2>6. Selected(level, Range(cut))
    BY <1>4, <1>6, <1>9, <2>5 DEF Selected
  <2> QED
    BY <1>1, <2>6, SetupIs DEF Selected, Starts
<1> QED
  BY <1>8, <1>9

\* The files a compaction makes of its inputs.
Outputs(E, c, N) ==
    /\ IsFiniteSet(N) /\ \A f \in N : Table(E, f)
    /\ \A f, g \in N : f # g =>
          \/ \A x \in Range(f.data), y \in Range(g.data) : Less(x, y)
          \/ \A x \in Range(f.data), y \in Range(g.data) : Less(y, x)
    /\ \A e \in EntriesOf(N) : e \in EntriesOf(Inputs(c)) /\ Kept(c, EntriesOf(Inputs(c)), e)
    /\ \A e \in EntriesOf(Inputs(c)) : e \in EntriesOf(N) \/ Dropped(c, EntriesOf(Inputs(c)), e)

LEMMA FinishReplaces ==
    ASSUME Typed, FinishCompaction
    PROVE  \E N : /\ Replaced(comp, N) /\ Outputs(Entries, comp, N)
                  /\ nextFile' \in Nat /\ nextFile <= nextFile'
                  /\ \A f \in N : nextFile <= f.num /\ f.num < nextFile'
                  /\ \A f, g \in N : f.num = g.num => f = g
<1> DEFINE c == comp
           In == EntriesOf(Inputs(c))
           outs == CompactionOutputs(comp)
           n == Len(outs)
           F(i) == [num |-> nextFile + i - 1, data |-> outs[i]]
           N == {F(i) : i \in 1 .. n}
           new == {<<comp.level + 1, F(i)>> : i \in DOMAIN outs}
<1>1. HistoryTyped /\ FilesTyped /\ CompTyped /\ Updates(Entries) /\ Stocked(Entries)
  BY EntriesAre DEF Typed, FilesTyped
<1>2. comp.on /\ files' = ApplyEdit(AddInputDeletions(comp), new) /\ nextFile' = nextFile + n
  BY DEF FinishCompaction
<1>3. /\ comp.level \in 0 .. NumLevels - 2 /\ comp.smallestSnapshot \in Nat
      /\ comp.in0 \subseteq files[comp.level] /\ comp.in1 \subseteq files[comp.level + 1]
      /\ comp.level \in Levels /\ comp.level + 1 \in Levels
  BY <1>1, <1>2, LSMAssumption DEF CompTyped, HistoryTyped, Levels
<1>4. \A f \in Inputs(c) : Table(Entries, f)
  BY <1>1, <1>3 DEF Stocked, Inputs
<1>5. /\ Written(Entries, outs)
      /\ \A e \in Flat(outs) : e \in In /\ Kept(c, In, e)
      /\ \A e \in In : e \in Flat(outs) \/ Dropped(c, In, e)
  BY <1>1, <1>3, <1>4, OutputsAre
<1> HIDE DEF outs, In
<1> DEFINE T == Seq(Entries)
<1>6. outs \in Seq(T)
  BY <1>5 DEF Written
<1> HIDE DEF T
<1>7. n \in Nat /\ DOMAIN outs = 1 .. n /\ (\A o \in 1 .. n : outs[o] \in T) /\ nextFile \in Nat
  BY <1>1, <1>6, LSMAssumption DEF HistoryTyped
<1> HIDE DEF n
<1>8. \A i \in 1 .. n : F(i).num = nextFile + i - 1 /\ F(i).data = outs[i]
  OBVIOUS
<1>9. new = {<<comp.level + 1, F(i)>> : i \in 1 .. n}
  BY <1>7
<1> HIDE DEF F
<1>10. (\A x \in new : x[1] = comp.level + 1) /\ N = {x[2] : x \in new}
  <2>1. \A i \in 1 .. n : <<comp.level + 1, F(i)>>[1] = comp.level + 1 /\ <<comp.level + 1, F(i)>>[2] = F(i)
    OBVIOUS
  <2>2. (\A x \in new : \E i \in 1 .. n : x = <<comp.level + 1, F(i)>>) /\ \A i \in 1 .. n : <<comp.level + 1, F(i)>> \in new
    BY <1>9
  <2>3. (\A f \in N : \E i \in 1 .. n : f = F(i)) /\ \A i \in 1 .. n : F(i) \in N
    OBVIOUS
  <2> HIDE DEF new, N
  <2>4. \A x \in new : x[1] = comp.level + 1 /\ x[2] \in N
    BY <2>1, <2>2, <2>3
  <2>5. \A f \in N : \E x \in new : f = x[2]
    BY <2>1, <2>2, <2>3
  <2>6. N \subseteq {x[2] : x \in new}
    BY <2>5
  <2>7. {x[2] : x \in new} \subseteq N
    BY <2>4
  <2> QED
    BY <2>4, <2>6, <2>7
<1>11. Replaced(comp, N)
  <2> HIDE DEF N, new
  <2> QED
    BY <1>1, <1>2, <1>3, <1>10, EditReplaces
<1>12. \A f \in N : \E i \in 1 .. n : f = F(i)
  OBVIOUS
<1>13. \A i \in 1 .. n : F(i) \in N
  OBVIOUS
<1> HIDE DEF N, new
<1>14. \A f \in N : Table(Entries, f) /\ nextFile <= f.num /\ f.num < nextFile + n
  <2>1. ASSUME NEW i \in 1 .. n PROVE Table(Entries, F(i)) /\ nextFile <= F(i).num /\ F(i).num < nextFile + n
    <3>1. outs[i] # <<>> /\ IsSorted(outs[i]) /\ outs[i] \in Seq(Entries)
      BY <1>5, <1>7 DEF Written, T
    <3>2. F(i).num = nextFile + i - 1 /\ F(i).data = outs[i]
      BY <1>8
    <3>3. nextFile + i - 1 \in Nat /\ nextFile <= nextFile + i - 1 /\ nextFile + i - 1 < nextFile + n
      BY <1>7
    <3> QED
      BY <3>1, <3>2, <3>3 DEF Table
  <2> QED
    BY <1>12, <2>1
<1>15. \A f, g \in N : f.num = g.num => f = g
  <2>1. ASSUME NEW i \in 1 .. n, NEW j \in 1 .. n, F(i).num = F(j).num PROVE F(i) = F(j)
    <3>1. i = j
      BY <1>7, <1>8, <2>1
    <3> QED
      BY <3>1
  <2> QED
    BY <1>12, <2>1
<1>16. IsFiniteSet(N)
  <2> DEFINE h == [f \in N |-> f.num]
             D == 0 .. nextFile + n
  <2>1. \A f \in N : f.num \in D
    <3>1. \A f \in N : f.num \in Nat /\ f.num < nextFile + n
      BY <1>14 DEF Table
    <3> QED
      BY <1>7, <3>1
  <2>2. h \in Injection(N, D)
    BY <1>15, <2>1 DEF Injection, IsInjective
  <2>3. IsFiniteSet(D)
    BY <1>7, FS_Interval
  <2> QED
    BY <2>2, <2>3, FS_Injection
<1>17. ASSUME NEW f \in N, NEW g \in N, f # g
       PROVE  \/ \A x \in Range(f.data), y \in Range(g.data) : Less(x, y)
              \/ \A x \in Range(f.data), y \in Range(g.data) : Less(y, x)
  <2>1. PICK i \in 1 .. n : f = F(i)
    BY <1>12
  <2>2. PICK j \in 1 .. n : g = F(j)
    BY <1>12
  <2>3. f.data = outs[i] /\ g.data = outs[j] /\ i # j
    BY <1>8, <1>17, <2>1, <2>2
  <2>4. i < j \/ j < i
    BY <2>3
  <2>5. \A o, p \in 1 .. n : o < p => \A x \in Range(outs[o]), y \in Range(outs[p]) : Less(x, y)
    BY <1>5, <1>7 DEF Written
  <2> QED
    BY <2>3, <2>4, <2>5
<1>18. EntriesOf(N) = Flat(outs)
  <2>1. ASSUME NEW e \in EntriesOf(N) PROVE e \in Flat(outs)
    <3>1. PICK f \in N : e \in Range(f.data)
      BY DEF EntriesOf
    <3>2. PICK i \in 1 .. n : f = F(i)
      BY <1>12
    <3> QED
      BY <1>7, <1>8, <3>1, <3>2 DEF Flat
  <2>2. ASSUME NEW e \in Flat(outs) PROVE e \in EntriesOf(N)
    <3>1. PICK i \in 1 .. n : e \in Range(outs[i])
      BY <1>7 DEF Flat
    <3>2. F(i) \in N /\ e \in Range(F(i).data)
      BY <1>8, <1>13, <3>1
    <3> QED
      BY <3>2 DEF EntriesOf
  <2> QED
    BY <2>1, <2>2
<1>19. Outputs(Entries, comp, N)
  BY <1>5, <1>14, <1>16, <1>17, <1>18 DEF Outputs, In
<1> HIDE DEF c
<1>20. nextFile' \in Nat /\ nextFile <= nextFile'
  BY <1>2, <1>7
<1> QED
  BY <1>2, <1>11, <1>14, <1>15, <1>19, <1>20

-----------------------------------------------------------------------------
(* Every state is typed *)

LEMMA AddedStocked ==
    ASSUME NEW E, Stocked(E), NEW p \in Levels, NEW f, Added(p, f), Table(E, f), NEW n \in Nat, f.num = n,
           \A l \in Levels : \A g \in files[l] : g.num < n
    PROVE  /\ Stocked(E)' /\ files' = [l \in Levels |-> files'[l]]
           /\ \A l \in Levels : \A g \in files'[l] : g.num < n + 1
<1>1. \A l \in Levels : files'[l] = IF l = p THEN files[l] \cup {f} ELSE files[l]
  BY DEF Added
<1>2. files' = [l \in Levels |-> files'[l]]
  BY DEF Added
<1>3. \A l \in Levels : IsFiniteSet(files'[l])
  <2>1. ASSUME NEW l \in Levels PROVE IsFiniteSet(files'[l])
    <3>1. IsFiniteSet(files[l]) /\ IsFiniteSet({f})
      BY FS_Singleton DEF Stocked
    <3>2. IsFiniteSet(files[l] \cup {f})
      BY <3>1, FS_Union
    <3> QED
      BY <1>1, <3>1, <3>2
  <2> QED
    BY <2>1
<1>4. \A l \in Levels : \A g \in files'[l] : Table(E, g)
  BY <1>1 DEF Stocked
<1>5. \A l \in Levels : \A g \in files[l] : g.num \in Nat /\ g.num < n
  BY DEF Stocked, Table
<1>6. \A l \in Levels : \A g \in files'[l] : g \in files[l] \/ (l = p /\ g = f)
  BY <1>1
<1>7. \A l, m \in Levels : \A g \in files'[l], h \in files'[m] : g.num = h.num => l = m /\ g = h
  <2>1. ASSUME NEW l \in Levels, NEW m \in Levels, NEW g \in files'[l], NEW h \in files'[m], g.num = h.num
        PROVE  l = m /\ g = h
    <3>1. CASE g \in files[l] /\ h \in files[m]
      BY <2>1, <3>1 DEF Stocked, NumbersUnique
    <3>2. CASE g = f /\ l = p /\ h = f /\ m = p
      BY <3>2
    <3>3. CASE (g \in files[l] /\ h = f) \/ (g = f /\ h \in files[m])
      BY <1>5, <2>1, <3>3
    <3> QED
      BY <1>6, <3>1, <3>2, <3>3
  <2> QED
    BY <2>1
<1>8. \A l \in Levels : \A g \in files'[l] : g.num < n + 1
  BY <1>5, <1>6
<1>9. NumbersUnique'
  BY <1>7 DEF NumbersUnique
<1>10. Updates(E)
  BY DEF Stocked
<1>11. Stocked(E)'
  BY <1>3, <1>4, <1>9, <1>10 DEF Stocked
<1> QED
  BY <1>2, <1>8, <1>11

\* Where a compaction's files are.
Placed(c) ==
    c.level \in 0 .. NumLevels - 2 /\ c.in0 \subseteq files[c.level] /\ c.in1 \subseteq files[c.level + 1]

LEMMA ReplacedFiles ==
    ASSUME NEW c, Placed(c), NEW N, Replaced(c, N)
    PROVE  /\ c.level \in Levels /\ c.level + 1 \in Levels \ {0} /\ c.level + 1 # c.level
           /\ files' = [l \in Levels |-> files'[l]]
           /\ \A l \in Levels : \A g \in files'[l] :
                 \/ g \in files[l] /\ (l = c.level => g \notin c.in0) /\ (l = c.level + 1 => g \notin c.in1)
                 \/ l = c.level + 1 /\ g \in N
           /\ \A l \in Levels : \A g \in files[l] :
                 g \in files'[l] \/ (l = c.level /\ g \in c.in0) \/ (l = c.level + 1 /\ g \in c.in1)
           /\ N \subseteq files'[c.level + 1]
<1>1. c.level \in Levels /\ c.level + 1 \in Levels \ {0} /\ c.level + 1 # c.level
  BY LSMAssumption DEF Placed, Levels
<1>2. \A l \in Levels : files'[l] = IF l = c.level THEN files[l] \ c.in0
                                    ELSE IF l = c.level + 1 THEN (files[l] \ c.in1) \cup N ELSE files[l]
  BY DEF Replaced
<1>3. files' = [l \in Levels |-> files'[l]]
  BY DEF Replaced
<1> QED
  BY <1>1, <1>2, <1>3

LEMMA ReplacedStocked ==
    ASSUME NEW E, Stocked(E), NEW c, Placed(c), NEW N, Replaced(c, N),
           NEW n \in Nat, NEW m \in Nat, n <= m, \A l \in Levels : \A g \in files[l] : g.num < n,
           IsFiniteSet(N), \A f \in N : Table(E, f), \A f, g \in N : f.num = g.num => f = g,
           (\A f \in N : n <= f.num /\ f.num < m) \/ N = c.in0
    PROVE  /\ Stocked(E)' /\ files' = [l \in Levels |-> files'[l]]
           /\ \A l \in Levels : \A g \in files'[l] : g.num < m
<1>1. /\ c.level \in Levels /\ c.level + 1 \in Levels \ {0} /\ c.level + 1 # c.level
      /\ files' = [l \in Levels |-> files'[l]]
      /\ \A l \in Levels : \A g \in files'[l] :
            \/ g \in files[l] /\ (l = c.level => g \notin c.in0) /\ (l = c.level + 1 => g \notin c.in1)
            \/ l = c.level + 1 /\ g \in N
  BY ReplacedFiles
<1>2. \A l \in Levels : \A g \in files[l] : g.num \in Nat /\ g.num < n
  BY DEF Stocked, Table
<1>3. \A f \in N : f.num \in Nat /\ (f \in c.in0 \/ (n <= f.num /\ f.num < m))
  BY DEF Table
<1>4. \A f \in c.in0 : f \in files[c.level]
  BY DEF Placed
<1>5. \A l \in Levels : \A g \in files'[l] : g.num < m
  <2>1. ASSUME NEW l \in Levels, NEW g \in files'[l] PROVE g.num < m
    <3>1. \/ g \in files[l]
          \/ g \in N /\ n <= g.num /\ g.num < m
          \/ g \in files[c.level]
      BY <1>1, <1>3, <1>4
    <3>2. g.num \in Nat
      BY <1>1, <1>2, <1>3
    <3> QED
      BY <1>1, <1>2, <3>1, <3>2
  <2> QED
    BY <2>1
<1>6. \A l \in Levels : IsFiniteSet(files'[l])
  <2>1. ASSUME NEW l \in Levels PROVE IsFiniteSet(files'[l])
    <3>1. IsFiniteSet(files[l]) /\ IsFiniteSet(files[l] \cup N)
      BY FS_Union DEF Stocked
    <3>2. files'[l] \subseteq files[l] \cup N
      BY <1>1
    <3> QED
      BY <3>1, <3>2, FS_Subset
  <2> QED
    BY <2>1
<1>7. \A l \in Levels : \A g \in files'[l] : Table(E, g)
  BY <1>1 DEF Stocked
<1>8. \A l, k \in Levels : \A g \in files[l], h \in files[k] : g.num = h.num => l = k /\ g = h
  BY DEF Stocked, NumbersUnique
<1>9. ASSUME NEW l \in Levels, NEW k \in Levels, NEW g \in files'[l], NEW h \in files'[k], g.num = h.num
      PROVE  l = k /\ g = h
  <2>1. ASSUME NEW i \in Levels, NEW x \in files[i], i = c.level => x \notin c.in0, NEW y \in N
        PROVE  x.num # y.num
    <3>1. CASE n <= y.num
      BY <1>2, <1>3, <2>1, <3>1
    <3>2. CASE y \in c.in0
      BY <1>1, <1>4, <1>8, <2>1, <3>2
    <3> QED
      BY <1>3, <3>1, <3>2
  <2>2. CASE g \in files[l] /\ (l = c.level => g \notin c.in0) /\ h \in files[k] /\ (k = c.level => h \notin c.in0)
    BY <1>8, <1>9, <2>2
  <2>3. CASE g \in files[l] /\ (l = c.level => g \notin c.in0) /\ h \in N
    BY <1>9, <2>1, <2>3
  <2>4. CASE g \in N /\ h \in files[k] /\ (k = c.level => h \notin c.in0)
    BY <1>9, <2>1, <2>4
  <2>5. CASE g \in N /\ l = c.level + 1 /\ h \in N /\ k = c.level + 1
    BY <1>9, <2>5
  <2> QED
    BY <1>1, <2>2, <2>3, <2>4, <2>5
<1>10. NumbersUnique'
  BY <1>9 DEF NumbersUnique
<1>11. Updates(E)
  BY DEF Stocked
<1>12. Stocked(E)'
  BY <1>6, <1>7, <1>10, <1>11 DEF Stocked
<1> QED
  BY <1>1, <1>5, <1>12

LEMMA InitTyped == Init => Typed
<1> SUFFICES ASSUME Init PROVE Typed
  OBVIOUS
<1>1. Len(history) = 0 /\ HistoryTyped
  BY LSMAssumption DEF Init, HistoryTyped
<1>2. Stocked(Entries)
  <2>1. Updates(Entries)
    BY <1>1, EntriesAre
  <2>2. \A l \in Levels : files[l] = {}
    BY DEF Init
  <2> QED
    BY <2>1, <2>2, FS_EmptySet DEF Stocked, NumbersUnique
<1>3. FilesTyped
  BY <1>2 DEF FilesTyped, Init
<1>4. CompTyped
  BY DEF CompTyped, Init, NoCompaction
<1> QED
  BY <1>1, <1>3, <1>4 DEF Typed

\* A write adds one entry, with the next sequence number.
LEMMA WriteAdds ==
    ASSUME Typed, NEW k \in Keys, NEW t \in Types, Write(k, t)
    PROVE  LET n == Len(history)
               e == [key |-> k, seq |-> n + 1, type |-> t]
           IN  /\ n \in Nat /\ Len(history') = n + 1 /\ n + 1 <= MaxWrites
               /\ history' \in Seq([key : Keys, type : Types])
               /\ \A i \in 1 .. n : history'[i] = history[i] /\ EntryOf(i)' = EntryOf(i)
               /\ \A i \in {n + 1} : history'[i].key = k /\ EntryOf(i)' = e
               /\ e \in Entries'
               /\ Entries \subseteq Entries' /\ mem' = mem \cup {e}
<1> DEFINE n == Len(history)
           e == [key |-> k, seq |-> n + 1, type |-> t]
           u == [key |-> k, type |-> t]
           U == [key : Keys, type : Types]
<1>1. /\ n < MaxWrites /\ history' = Append(history, u) /\ mem' = mem \cup {e}
  BY DEF Write
<1>2. u \in U
  OBVIOUS
<1>u. u.key = k /\ u.type = t
  OBVIOUS
<1>3. history \in Seq(U)
  BY DEF Typed, HistoryTyped
<1> HIDE DEF U, u
<1>4. /\ n \in Nat /\ Len(history') = n + 1 /\ history' \in Seq(U) /\ history'[n + 1] = u
      /\ \A i \in 1 .. n : history'[i] = history[i]
  BY <1>1, <1>2, <1>3
<1>5. n + 1 <= MaxWrites
  BY <1>1, <1>4, LSMAssumption
<1>6. \A i \in 1 .. n : EntryOf(i)' = EntryOf(i)
  BY <1>4 DEF EntryOf
<1>7. \A i \in {n + 1} : history'[i].key = k /\ EntryOf(i)' = e
  <2>1. ASSUME NEW i \in {n + 1} PROVE history'[i].key = k /\ EntryOf(i)' = e
    <3>1. i = n + 1 /\ history'[i] = u
      BY <1>4
    <3> QED
      BY <1>u, <3>1 DEF EntryOf
  <2> QED
    BY <2>1
<1> HIDE DEF e
<1>8. e \in Entries'
  <2>1. n + 1 \in 1 .. Len(history')
    BY <1>4
  <2> QED
    BY <1>7, <2>1 DEF Entries
<1>9. Entries \subseteq Entries'
  <2>1. ASSUME NEW i \in 1 .. n PROVE EntryOf(i) \in Entries'
    <3>1. i \in 1 .. Len(history')
      BY <1>4
    <3> QED
      BY <1>6, <3>1 DEF Entries
  <2> QED
    BY <2>1 DEF Entries
<1> QED
  BY <1>1, <1>4, <1>5, <1>6, <1>7, <1>8, <1>9, <1>u DEF e, U

LEMMA StartTyped ==
    ASSUME Typed, NEW level \in 0 .. NumLevels - 2, NEW in0, NEW c, Selected(level, in0), SetUp(level, in0, c)
    PROVE  /\ Placed(c) /\ c.on = TRUE /\ c.in0 # {} /\ c.level = level
           /\ c.smallestSnapshot \in 0 .. Len(history)
           /\ \A s \in snaps \cup {Len(history)} : c.smallestSnapshot <= s
<1>1. Len(history) \in Nat /\ snaps \subseteq 1 .. Len(history) /\ snaps \subseteq Nat
  BY EntriesAre DEF Typed, HistoryTyped
<1>2. /\ OldestSnapshot \in 0 .. Len(history) /\ \A s \in snaps \cup {Len(history)} : OldestSnapshot <= s
  <2>1. CASE snaps = {}
    BY <1>1, <2>1 DEF OldestSnapshot, LastSequence
  <2>2. CASE snaps # {}
    <3> DEFINE m == Min(snaps)
    <3>1. m \in snaps /\ \A s \in snaps : m <= s
      BY <1>1, <2>2, MinIs
    <3>2. OldestSnapshot = m
      BY <2>2 DEF OldestSnapshot
    <3> HIDE DEF m
    <3>3. m \in 1 .. Len(history)
      BY <1>1, <3>1
    <3>4. m \in 0 .. Len(history) /\ m <= Len(history)
      BY <1>1, <3>3
    <3> QED
      BY <3>1, <3>2, <3>4
  <2> QED
    BY <2>1, <2>2
<1> QED
  BY <1>2 DEF SetUp, Selected, Placed

LEMMA TypedStep == Typed /\ LevelsApart(FALSE) /\ [Next]_vars => Typed'
<1> SUFFICES ASSUME Typed, LevelsApart(FALSE), [Next]_vars PROVE Typed'
  OBVIOUS
<1>1. /\ HistoryTyped /\ FilesTyped /\ CompTyped /\ Stocked(Entries) /\ Len(history) \in Nat
      /\ MaxFiles \in Nat /\ nextFile \in Nat /\ Updates(Entries)
  <2>1. HistoryTyped /\ FilesTyped /\ CompTyped
    BY DEF Typed
  <2>2. Stocked(Entries) /\ Updates(Entries) /\ Len(history) \in Nat
    BY <2>1, EntriesAre DEF FilesTyped
  <2>3. MaxFiles \in Nat /\ nextFile \in 1 .. MaxFiles
    BY <2>1, LSMAssumption DEF HistoryTyped
  <2> QED
    BY <2>1, <2>2, <2>3
<1>same. ASSUME UNCHANGED history PROVE Entries' = Entries
  BY <1>same DEF Entries, EntryOf
<1>2. ASSUME NEW k \in Keys, NEW t \in Types, Write(k, t) PROVE Typed'
  <2> DEFINE n == Len(history)
             e == [key |-> k, seq |-> n + 1, type |-> t]
  <2>1. /\ Len(history') = n + 1 /\ n + 1 <= MaxWrites /\ history' \in Seq([key : Keys, type : Types])
        /\ e \in Entries' /\ Entries \subseteq Entries' /\ mem' = mem \cup {e}
    BY <1>2, WriteAdds
  <2>2. UNCHANGED <<imm, files, snaps, comp, nextFile>>
    BY <1>2 DEF Write
  <2> HIDE DEF e
  <2>3. HistoryTyped'
    <3>1. snaps' \subseteq 1 .. Len(history')
      BY <1>1, <2>1, <2>2 DEF HistoryTyped
    <3> QED
      BY <1>1, <2>1, <2>2, <3>1 DEF HistoryTyped
  <2>4. Updates(Entries)'
    BY <2>3, EntriesAre, PTL
  <2>5. Stocked(Entries)'
    <3>1. \A l \in Levels : IsFiniteSet(files[l]) /\ \A f \in files[l] : Table(Entries', f)
      BY <1>1, <2>1, TableIn DEF Stocked
    <3>2. NumbersUnique'
      BY <1>1, <2>2 DEF Stocked, NumbersUnique
    <3> QED
      BY <2>2, <2>4, <3>1, <3>2 DEF Stocked
  <2>6. FilesTyped'
    BY <1>1, <2>2, <2>5 DEF FilesTyped
  <2>7. CompTyped'
    BY <1>1, <2>1, <2>2 DEF CompTyped
  <2> QED
    BY <2>3, <2>6, <2>7 DEF Typed
<1>3. ASSUME GetSnapshot PROVE Typed'
  <2>1. /\ UNCHANGED <<history, mem, imm, files, comp, nextFile>> /\ snaps' \subseteq 1 .. Len(history)
    <3>1. /\ UNCHANGED <<history, mem, imm, files, comp, nextFile>>
          /\ snaps' = snaps \cup {Len(history)} /\ Len(history) > 0
      BY <1>3 DEF GetSnapshot, LastSequence
    <3>2. Len(history) \in 1 .. Len(history)
      BY <1>1, <3>1
    <3> QED
      BY <1>1, <3>1, <3>2 DEF HistoryTyped
  <2>2. HistoryTyped' /\ FilesTyped' /\ CompTyped'
    BY <1>1, <1>same, <2>1 DEF HistoryTyped, FilesTyped, CompTyped, Stocked, NumbersUnique
  <2> QED
    BY <2>2 DEF Typed
<1>4. ASSUME NEW s \in snaps, ReleaseSnapshot(s) PROVE Typed'
  <2>1. /\ UNCHANGED <<history, mem, imm, files, comp, nextFile>> /\ snaps' \subseteq 1 .. Len(history)
    BY <1>1, <1>4 DEF ReleaseSnapshot, HistoryTyped
  <2>2. HistoryTyped' /\ FilesTyped' /\ CompTyped'
    BY <1>1, <1>same, <2>1 DEF HistoryTyped, FilesTyped, CompTyped, Stocked, NumbersUnique
  <2> QED
    BY <2>2 DEF Typed
<1>5. ASSUME SwitchMemTable PROVE Typed'
  <2>1. /\ UNCHANGED <<history, snaps, files, comp, nextFile>> /\ mem' \subseteq Entries /\ imm' \subseteq Entries
    BY <1>1, <1>5 DEF SwitchMemTable, HistoryTyped
  <2>2. HistoryTyped' /\ FilesTyped' /\ CompTyped'
    BY <1>1, <1>same, <2>1 DEF HistoryTyped, FilesTyped, CompTyped, Stocked, NumbersUnique
  <2> QED
    BY <2>2 DEF Typed
<1>6. ASSUME CompactMemTable PROVE Typed'
  <2>1. PICK p, f :
           /\ p \in Levels
           /\ Added(p, f) /\ Table(Entries, f) /\ Range(f.data) = imm /\ f.num = nextFile
           /\ p # 0 => \A l \in Levels : l <= p => \A g \in files[l] : ~Overlaps(g, First(f), Last(f))
    BY <1>6, FlushAdds
  <2>2. /\ UNCHANGED <<history, mem, snaps, comp>> /\ imm' = {} /\ nextFile' = nextFile + 1
        /\ nextFile < MaxFiles
    BY <1>6 DEF CompactMemTable
  <2>3. PICK E : E = Entries
    OBVIOUS
  <2>4. /\ Stocked(E)' /\ files' = [l \in Levels |-> files'[l]]
        /\ \A l \in Levels : \A g \in files'[l] : g.num < nextFile + 1
    BY <1>1, <2>1, <2>3, AddedStocked DEF FilesTyped
  <2>5. Entries' = E
    BY <1>same, <2>2, <2>3
  <2>6. FilesTyped'
    BY <2>2, <2>4, <2>5 DEF FilesTyped
  <2>7. HistoryTyped'
    BY <1>1, <2>2, <2>3, <2>5 DEF HistoryTyped
  <2>8. CompTyped'
    <3>1. \A l \in Levels : files[l] \subseteq files'[l]
      BY <2>1 DEF Added
    <3>2. comp.on => comp.level \in Levels /\ comp.level + 1 \in Levels
      BY <1>1, LSMAssumption DEF CompTyped, Levels
    <3> QED
      BY <1>1, <2>2, <3>1, <3>2 DEF CompTyped
  <2> QED
    BY <2>6, <2>7, <2>8 DEF Typed
<1>7. ASSUME NEW level \in 0 .. NumLevels - 2, NEW in0, NEW c, Selected(level, in0), SetUp(level, in0, c),
             Starts(c), UNCHANGED <<history, mem, imm, snaps, nextFile>>
      PROVE  Typed'
  <2>1. /\ Placed(c) /\ c.on = TRUE /\ c.in0 # {} /\ c.level = level
        /\ c.smallestSnapshot \in 0 .. Len(history)
    BY <1>7, StartTyped
  <2>2. comp' = c /\ files' = files
    BY <1>7 DEF Starts
  <2>3. HistoryTyped' /\ FilesTyped'
    BY <1>1, <1>7, <1>same, <2>2 DEF HistoryTyped, FilesTyped, Stocked, NumbersUnique
  <2>4. CompTyped'
    BY <1>7, <2>1, <2>2 DEF CompTyped, Placed
  <2> QED
    BY <2>3, <2>4 DEF Typed
<1>8. ASSUME NEW level \in 0 .. NumLevels - 2, NEW f \in files[level], PickCompaction(level, f) PROVE Typed'
  <2>1. PICK in0, c : /\ Selected(level, in0) /\ HullCovered(in0) /\ SetUp(level, in0, c)
                      /\ Starts(c) \/ Moves(c)
    BY <1>1, <1>8, PickChooses
  <2>2. UNCHANGED <<history, mem, imm, snaps, nextFile>> /\ ~comp.on
    BY <1>8 DEF PickCompaction
  <2>3. CASE Starts(c)
    BY <1>7, <2>1, <2>2, <2>3
  <2>4. CASE Moves(c)
    <3>1. comp' = comp /\ Replaced(c, c.in0)
      BY <2>4 DEF Moves
    <3>2. Placed(c) /\ c.level \in Levels
      <4>1. Placed(c) /\ c.level = level
        BY <2>1, StartTyped
      <4>2. level \in Levels
        BY LSMAssumption DEF Levels
      <4> QED
        BY <4>1, <4>2
    <3>3. IsFiniteSet(c.in0) /\ (\A g \in c.in0 : Table(Entries, g)) /\ \A g, h \in c.in0 : g.num = h.num => g = h
      BY <1>1, <3>2, FS_Subset DEF Placed, Stocked, NumbersUnique
    <3>4. PICK E : E = Entries
      OBVIOUS
    <3>5. PICK n : n = nextFile
      OBVIOUS
    <3>6. /\ Stocked(E)' /\ files' = [l \in Levels |-> files'[l]]
          /\ \A l \in Levels : \A g \in files'[l] : g.num < n
      <4>1. n \in Nat /\ n <= n /\ \A l \in Levels : \A g \in files[l] : g.num < n
        BY <1>1, <3>5 DEF FilesTyped
      <4>2. Stocked(E) /\ \A g \in c.in0 : Table(E, g)
        BY <1>1, <3>3, <3>4
      <4> QED
        BY <3>1, <3>2, <3>3, <4>1, <4>2, ReplacedStocked
    <3>7. Entries' = E
      BY <1>same, <2>2, <3>4
    <3>8. FilesTyped'
      BY <2>2, <3>5, <3>6, <3>7 DEF FilesTyped
    <3>9. HistoryTyped'
      BY <1>1, <2>2, <3>4, <3>7 DEF HistoryTyped
    <3>10. CompTyped'
      BY <1>1, <2>2, <3>1 DEF CompTyped
    <3> QED
      BY <3>8, <3>9, <3>10 DEF Typed
  <2> QED
    BY <2>1, <2>3, <2>4
<1>9. ASSUME NEW level \in 0 .. NumLevels - 2, NEW b \in Keys, NEW e \in Keys, CompactRange(level, b, e) PROVE Typed'
  <2>1. PICK in0, c : Selected(level, in0) /\ SetUp(level, in0, c) /\ Starts(c)
    BY <1>1, <1>9, RangeChooses
  <2>2. UNCHANGED <<history, mem, imm, snaps, nextFile>>
    BY <1>9 DEF CompactRange
  <2> QED
    BY <1>7, <2>1, <2>2
<1>10. ASSUME FinishCompaction PROVE Typed'
  <2>1. PICK N : /\ Replaced(comp, N) /\ Outputs(Entries, comp, N)
                 /\ nextFile' \in Nat /\ nextFile <= nextFile'
                 /\ \A f \in N : nextFile <= f.num /\ f.num < nextFile'
                 /\ \A f, g \in N : f.num = g.num => f = g
    BY <1>10, FinishReplaces
  <2>2. UNCHANGED <<history, mem, imm, snaps>> /\ comp' = NoCompaction /\ comp.on /\ nextFile' <= MaxFiles
    BY <1>10 DEF FinishCompaction
  <2>3. PICK E : E = Entries
    OBVIOUS
  <2>4. PICK n : n = nextFile
    OBVIOUS
  <2>5. PICK m : m = nextFile'
    OBVIOUS
  <2>6. PICK c : c = comp
    OBVIOUS
  <2>7. Placed(c)
    BY <1>1, <2>2, <2>6 DEF CompTyped, Placed
  <2>8. Stocked(E) /\ IsFiniteSet(N) /\ \A f \in N : Table(E, f)
    BY <1>1, <2>1, <2>3 DEF Outputs
  <2>9. /\ n \in Nat /\ m \in Nat /\ n <= m
        /\ \A l \in Levels : \A g \in files[l] : g.num < n
    BY <1>1, <2>1, <2>4, <2>5 DEF FilesTyped
  <2>10. Replaced(c, N) /\ \A f \in N : n <= f.num /\ f.num < m
    BY <2>1, <2>4, <2>5, <2>6
  <2>11. /\ Stocked(E)' /\ files' = [l \in Levels |-> files'[l]]
         /\ \A l \in Levels : \A g \in files'[l] : g.num < m
    BY <2>1, <2>7, <2>8, <2>9, <2>10, ReplacedStocked
  <2>12. Entries' = E
    BY <1>same, <2>2, <2>3
  <2>13. FilesTyped'
    BY <2>5, <2>11, <2>12 DEF FilesTyped
  <2>14. HistoryTyped'
    <3>1. nextFile' \in 1 .. MaxFiles
      BY <1>1, <2>1, <2>2 DEF HistoryTyped
    <3> QED
      BY <1>1, <2>2, <2>3, <2>12, <3>1 DEF HistoryTyped
  <2>15. CompTyped'
    BY <2>2 DEF CompTyped, NoCompaction
  <2> QED
    BY <2>13, <2>14, <2>15 DEF Typed
<1>11. CASE UNCHANGED vars
  <2>1. HistoryTyped' /\ FilesTyped' /\ CompTyped'
    BY <1>1, <1>11, <1>same DEF HistoryTyped, FilesTyped, CompTyped, Stocked, NumbersUnique, vars
  <2> QED
    BY <2>1 DEF Typed
<1> QED
  BY <1>2, <1>3, <1>4, <1>5, <1>6, <1>8, <1>9, <1>10, <1>11 DEF Next

-----------------------------------------------------------------------------
(* The files of a level stay apart *)

\* What the next level keeps lies before or after all of the inputs.
InputsApart(whole) ==
    comp.on => \A g \in files[comp.level + 1] \ comp.in1 : Beside(whole, g, Inputs(comp))

\* The ranges of the inputs leave no user key between them uncovered.
NoGaps == comp.on => HullCovered(Inputs(comp))

\* The inputs are as old as the oldest snapshot.
SeqsBelow == comp.on => \A e \in EntriesOf(Inputs(comp)) : e.seq <= comp.smallestSnapshot

Apart(whole) == LevelsApart(whole) /\ InputsApart(whole) /\ (whole => SeqsBelow)

LEMMA BeforeIs ==
    ASSUME NEW E, Updates(E), NEW f, NEW g, Table(E, f), Table(E, g), NEW whole \in BOOLEAN
    PROVE  /\ First(f) \in Int /\ Last(f) \in Int /\ First(g) \in Int /\ Last(g) \in Int
           /\ First(f) <= Last(f) /\ First(g) <= Last(g)
           /\ Last(f) < First(g) => FileBefore(whole, f, g)
           /\ FileBefore(whole, f, g) => Last(f) <= First(g)
<1>1. /\ First(f) \in Int /\ Last(f) \in Int /\ First(g) \in Int /\ Last(g) \in Int
      /\ First(f) <= Last(f) /\ First(g) <= Last(g)
      /\ Largest(f) \in E /\ Smallest(g) \in E
  BY TableEnds DEF Keys
<1>2. (Last(f) < First(g) => Less(Largest(f), Smallest(g))) /\ (Less(Largest(f), Smallest(g)) => Last(f) <= First(g))
  BY <1>1, LessIsOrder DEF First, Last
<1>3. Last(f) < First(g) => Last(f) <= First(g)
  BY <1>1
<1> QED
  BY <1>1, <1>2, <1>3 DEF FileBefore

LEMMA AddedApart ==
    ASSUME NEW E, Stocked(E), NEW whole \in BOOLEAN, LevelsApart(whole), NEW p \in Levels, NEW f,
           Added(p, f), Table(E, f), p # 0 => \A g \in files[p] : ~Overlaps(g, First(f), Last(f))
    PROVE  LevelsApart(whole)'
<1>1. \A l \in Levels : files'[l] = IF l = p THEN files[l] \cup {f} ELSE files[l]
  BY DEF Added
<1>2. ASSUME NEW g \in files[p], p # 0 PROVE FileBefore(whole, f, g) \/ FileBefore(whole, g, f)
  <2>1. ~(Last(g) >= First(f) /\ First(g) <= Last(f))
    BY <1>2, OverlapsIs
  <2>2. Table(E, g) /\ Updates(E)
    BY DEF Stocked
  <2>3. First(f) \in Int /\ Last(f) \in Int /\ First(g) \in Int /\ Last(g) \in Int
    BY <2>2, BeforeIs
  <2>4. Last(g) < First(f) \/ Last(f) < First(g)
    BY <2>1, <2>3
  <2> QED
    BY <2>2, <2>4, BeforeIs
<1>3. ASSUME NEW l \in Levels \ {0}, NEW g \in files'[l], NEW h \in files'[l], g # h
      PROVE  FileBefore(whole, g, h) \/ FileBefore(whole, h, g)
  <2>1. CASE g \in files[l] /\ h \in files[l]
    BY <1>3, <2>1 DEF LevelsApart
  <2>2. CASE l = p /\ g = f /\ h \in files[l]
    BY <1>2, <1>3, <2>2
  <2>3. CASE l = p /\ h = f /\ g \in files[l]
    BY <1>2, <1>3, <2>3
  <2>4. (g \in files[l] \/ (l = p /\ g = f)) /\ (h \in files[l] \/ (l = p /\ h = f))
    BY <1>1, <1>3
  <2> QED
    BY <1>3, <2>1, <2>2, <2>3, <2>4
<1> QED
  BY <1>3 DEF LevelsApart, FileBefore

\* A file that overlaps none of F, and lies in no gap of F, is beside F.
LEMMA OutsideBeside ==
    ASSUME NEW E, Updates(E), NEW whole \in BOOLEAN, NEW f, Table(E, f), NEW F, \A g \in F : Table(E, g),
           HullCovered(F), \A g \in F : ~Overlaps(g, First(f), Last(f))
    PROVE  Beside(whole, f, F)
<1>1. First(f) \in Int /\ Last(f) \in Int /\ First(f) <= Last(f) /\ First(f) \in Keys
  BY TableEnds DEF Keys
<1>2. \A g \in F : First(g) \in Int /\ Last(g) \in Int /\ First(g) <= Last(g)
  BY TableEnds DEF Keys
<1>3. \A g \in F : Last(g) < First(f) \/ Last(f) < First(g)
  BY <1>1, <1>2, OverlapsIs
<1>4. CASE \A g \in F : Last(f) < First(g)
  BY <1>4, BeforeIs DEF Beside
<1>5. CASE \A g \in F : Last(g) < First(f)
  BY <1>5, BeforeIs DEF Beside
<1>6. ASSUME NEW g \in F, NEW h \in F, Last(g) < First(f), Last(f) < First(h) PROVE FALSE
  <2>1. First(g) <= First(f) /\ First(f) <= Last(h)
    BY <1>1, <1>2, <1>6
  <2>2. Covered(F, First(f))
    BY <1>1, <2>1 DEF HullCovered, InHull
  <2>3. PICK x \in F : Last(x) >= First(f) /\ First(x) <= First(f)
    BY <2>2, OverlapsIs DEF Covered
  <2> QED
    BY <1>1, <1>2, <1>3, <2>3
<1> QED
  BY <1>3, <1>4, <1>5, <1>6

LEMMA ReplacedApart ==
    ASSUME NEW E, Stocked(E), NEW whole \in BOOLEAN, LevelsApart(whole), NEW c, Placed(c), NEW N, Replaced(c, N),
           \A g \in files[c.level + 1] \ c.in1 : Beside(whole, g, Inputs(c)),
           \A f \in N : Table(E, f), EntriesOf(N) \subseteq EntriesOf(Inputs(c)),
           \A f, g \in N : f # g => FileBefore(whole, f, g) \/ FileBefore(whole, g, f)
    PROVE  LevelsApart(whole)'
<1>1. /\ c.level \in Levels /\ c.level + 1 \in Levels \ {0} /\ c.level + 1 # c.level
      /\ \A l \in Levels : \A g \in files'[l] :
            \/ g \in files[l] /\ (l = c.level => g \notin c.in0) /\ (l = c.level + 1 => g \notin c.in1)
            \/ l = c.level + 1 /\ g \in N
  BY ReplacedFiles
<1>2. Updates(E) /\ \A l \in Levels : \A f \in files[l] : Table(E, f)
  BY DEF Stocked
<1>3. ASSUME NEW f \in N
      PROVE  (\E g \in Inputs(c) : Smallest(f) \in Range(g.data)) /\ (\E g \in Inputs(c) : Largest(f) \in Range(g.data))
  <2>1. Smallest(f) \in Range(f.data) /\ Largest(f) \in Range(f.data)
    BY <1>2, TableEnds
  <2> QED
    BY <2>1 DEF EntriesOf
<1>4. \A g \in Inputs(c) : Table(E, g)
  BY <1>1, <1>2 DEF Inputs, Placed
<1>5. ASSUME NEW g \in files[c.level + 1] \ c.in1, NEW f \in N
      PROVE  FileBefore(whole, f, g) \/ FileBefore(whole, g, f)
  <2>1. Table(E, g) /\ Table(E, f)
    BY <1>1, <1>2
  <2>g. Largest(g) \in E /\ Smallest(g) \in E /\ First(g) \in Int /\ Last(g) \in Int
    BY <1>2, <2>1, TableEnds DEF Keys
  <2>2. CASE \A h \in Inputs(c) : FileBefore(whole, g, h)
    <3>1. PICK h \in Inputs(c) : Smallest(f) \in Range(h.data)
      BY <1>3
    <3>2. /\ Smallest(h) \in E /\ Smallest(f) \in E
          /\ Smallest(f) = Smallest(h) \/ Less(Smallest(h), Smallest(f))
          /\ First(h) <= First(f) /\ First(h) \in Int /\ First(f) \in Int
      <4>1. Smallest(f) \in E /\ First(f) \in Int
        BY <1>2, <2>1, TableEnds DEF Keys
      <4>2. Table(E, h)
        BY <1>4
      <4>3. /\ Smallest(h) \in E /\ First(h) \in Int
            /\ Smallest(f) = Smallest(h) \/ Less(Smallest(h), Smallest(f))
            /\ First(h) <= Smallest(f).key
        BY <1>2, <3>1, <4>2, TableEnds DEF Keys
      <4> QED
        BY <4>1, <4>3 DEF First
    <3>3. FileBefore(whole, g, h)
      BY <2>2
    <3>4. CASE whole
      <4>1. Last(g) < First(h)
        BY <3>3, <3>4 DEF FileBefore
      <4>2. Last(g) < First(f)
        BY <2>g, <3>2, <4>1
      <4> QED
        BY <3>4, <4>2 DEF FileBefore
    <3>5. CASE ~whole
      <4>1. Less(Largest(g), Smallest(h))
        BY <3>3, <3>5 DEF FileBefore
      <4>2. Less(Largest(g), Smallest(f))
        BY <1>2, <2>g, <3>2, <4>1, LessIsOrder
      <4> QED
        BY <3>5, <4>2 DEF FileBefore
    <3> QED
      BY <3>4, <3>5
  <2>3. CASE \A h \in Inputs(c) : FileBefore(whole, h, g)
    <3>1. PICK h \in Inputs(c) : Largest(f) \in Range(h.data)
      BY <1>3
    <3>2. /\ Largest(h) \in E /\ Largest(f) \in E
          /\ Largest(f) = Largest(h) \/ Less(Largest(f), Largest(h))
          /\ Last(f) <= Last(h) /\ Last(h) \in Int /\ Last(f) \in Int
      <4>1. Largest(f) \in E /\ Last(f) \in Int
        BY <1>2, <2>1, TableEnds DEF Keys
      <4>2. Table(E, h)
        BY <1>4
      <4>3. /\ Largest(h) \in E /\ Last(h) \in Int
            /\ Largest(f) = Largest(h) \/ Less(Largest(f), Largest(h))
            /\ Largest(f).key <= Last(h)
        BY <1>2, <3>1, <4>2, TableEnds DEF Keys
      <4> QED
        BY <4>1, <4>3 DEF Last
    <3>3. FileBefore(whole, h, g)
      BY <2>3
    <3>4. CASE whole
      <4>1. Last(h) < First(g)
        BY <3>3, <3>4 DEF FileBefore
      <4>2. Last(f) < First(g)
        BY <2>g, <3>2, <4>1
      <4> QED
        BY <3>4, <4>2 DEF FileBefore
    <3>5. CASE ~whole
      <4>1. Less(Largest(h), Smallest(g))
        BY <3>3, <3>5 DEF FileBefore
      <4>2. Less(Largest(f), Smallest(g))
        BY <1>2, <2>g, <3>2, <4>1, LessIsOrder
      <4> QED
        BY <3>5, <4>2 DEF FileBefore
    <3> QED
      BY <3>4, <3>5
  <2> QED
    BY <2>2, <2>3 DEF Beside
<1>6. ASSUME NEW l \in Levels \ {0}, NEW g \in files'[l], NEW h \in files'[l], g # h
      PROVE  FileBefore(whole, g, h) \/ FileBefore(whole, h, g)
  <2>1. CASE g \in files[l] /\ h \in files[l]
    BY <1>6, <2>1 DEF LevelsApart
  <2>2. CASE l = c.level + 1 /\ g \in N /\ h \in N
    BY <1>6, <2>2
  <2>3. CASE l = c.level + 1 /\ g \in N /\ h \in files[l] \ c.in1
    BY <1>5, <2>3
  <2>4. CASE l = c.level + 1 /\ h \in N /\ g \in files[l] \ c.in1
    BY <1>5, <2>4
  <2> QED
    BY <1>1, <1>6, <2>1, <2>2, <2>3, <2>4
<1> QED
  BY <1>6 DEF LevelsApart, FileBefore

\* The outputs do not overlap; they share no user key when the inputs are all
\* as old as the oldest snapshot.
LEMMA OutputsApart ==
    ASSUME NEW E, Updates(E), NEW c, c.smallestSnapshot \in Int, NEW N, Outputs(E, c, N), NEW whole \in BOOLEAN,
           whole => \A e \in EntriesOf(Inputs(c)) : e.seq <= c.smallestSnapshot,
           NEW f \in N, NEW g \in N, f # g
    PROVE  FileBefore(whole, f, g) \/ FileBefore(whole, g, f)
<1>1. ASSUME NEW a \in N, NEW b \in N, \A x \in Range(a.data), y \in Range(b.data) : Less(x, y)
      PROVE  FileBefore(whole, a, b)
  <2> DEFINE x == Largest(a)
             y == Smallest(b)
  <2>1. x \in Range(a.data) /\ y \in Range(b.data) /\ x \in E /\ y \in E
    <3>1. Table(E, a) /\ Table(E, b)
      BY DEF Outputs
    <3> QED
      BY <3>1, TableEnds
  <2>2. Less(x, y)
    BY <1>1, <2>1
  <2>3. CASE ~whole
    BY <2>2, <2>3 DEF FileBefore
  <2>4. CASE whole
    <3>1. x.key \in Int /\ y.key \in Int /\ x.seq \in Int /\ y.seq \in Int
      BY <2>1 DEF Updates, Keys
    <3>2. x \in EntriesOf(N) /\ y \in EntriesOf(N)
      BY <2>1 DEF EntriesOf
    <3>3. x \in EntriesOf(Inputs(c)) /\ Kept(c, EntriesOf(Inputs(c)), y)
      BY <3>2 DEF Outputs
    <3> HIDE DEF x, y
    <3>4. x.seq <= c.smallestSnapshot
      BY <2>4, <3>3
    <3>5. ~(x.key = y.key /\ y.seq < x.seq)
      BY <3>1, <3>3, <3>4 DEF Kept
    <3>6. x.key < y.key
      BY <2>2, <3>1, <3>5 DEF Less
    <3> QED
      BY <2>4, <3>6 DEF FileBefore, First, Last, x, y
  <2> QED
    BY <2>3, <2>4
<1>2. \/ \A x \in Range(f.data), y \in Range(g.data) : Less(x, y)
      \/ \A x \in Range(f.data), y \in Range(g.data) : Less(y, x)
  BY DEF Outputs
<1> QED
  BY <1>1, <1>2

LEMMA StartApart ==
    ASSUME Typed, NEW whole \in BOOLEAN, LevelsApart(whole), whole => snaps = {},
           NEW level \in 0 .. NumLevels - 2, NEW in0, NEW c, Selected(level, in0), SetUp(level, in0, c)
    PROVE  /\ Placed(c) /\ c.on = TRUE /\ c.level = level /\ c.in0 # {}
           /\ \A g \in files[level + 1] \ c.in1 : Beside(whole, g, Inputs(c))
           /\ whole => \A e \in EntriesOf(Inputs(c)) : e.seq <= c.smallestSnapshot
<1>1. Placed(c) /\ c.on = TRUE /\ c.level = level /\ c.in0 # {}
  BY StartTyped
<1>s. snaps = {} => c.smallestSnapshot = Len(history)
  BY DEF SetUp, OldestSnapshot, LastSequence
<1>2. Stocked(Entries) /\ Updates(Entries) /\ \A e \in Entries : e.seq \in 1 .. Len(history)
  BY EntriesAre DEF Typed, FilesTyped
<1>3. \A g \in files[level + 1] \ c.in1 : Beside(whole, g, Inputs(c))
  BY <1>2, SetupApart DEF Selected
<1>4. EntriesOf(Inputs(c)) \subseteq Entries
  <2>1. level \in Levels /\ level + 1 \in Levels
    BY LSMAssumption DEF Levels
  <2>2. \A f \in Inputs(c) : Table(Entries, f)
    BY <1>1, <1>2, <2>1 DEF Placed, Inputs, Stocked
  <2> QED
    BY <1>2, <2>2, EntriesOfIs
<1>5. \A e \in Entries : e.seq <= Len(history)
  BY <1>2
<1>6. whole => \A e \in EntriesOf(Inputs(c)) : e.seq <= c.smallestSnapshot
  BY <1>4, <1>5, <1>s
<1> QED
  BY <1>1, <1>3, <1>6

LEMMA InitApart == ASSUME NEW whole \in BOOLEAN PROVE Init => Apart(whole) /\ NoGaps
BY DEF Init, NoCompaction, Apart, LevelsApart, InputsApart, NoGaps, SeqsBelow

\* A file of a memtable goes to a level where it is beside the running inputs.
LEMMA FlushApart ==
    ASSUME Typed, NEW whole \in BOOLEAN, LevelsApart(FALSE), Apart(whole), NoGaps, CompactMemTable
    PROVE  Apart(whole)'
<1>1. /\ HistoryTyped /\ FilesTyped /\ CompTyped /\ Stocked(Entries) /\ Updates(Entries)
  BY EntriesAre DEF Typed, FilesTyped
<1>2. PICK p, f :
         /\ p \in Levels
         /\ Added(p, f) /\ Table(Entries, f) /\ Range(f.data) = imm /\ f.num = nextFile
         /\ p # 0 => \A l \in Levels : l <= p => \A g \in files[l] : ~Overlaps(g, First(f), Last(f))
  BY FlushAdds
<1>3. comp' = comp
  BY DEF CompactMemTable
<1>4. PICK E : E = Entries
  OBVIOUS
<1>5. LevelsApart(whole)'
  <2>1. p # 0 => \A g \in files[p] : ~Overlaps(g, First(f), Last(f))
    <3>1. p <= p
      BY <1>2, LSMAssumption DEF Levels
    <3> QED
      BY <1>2, <3>1
  <2>2. Stocked(E) /\ Table(E, f) /\ Added(p, f) /\ p \in Levels
    BY <1>1, <1>2, <1>4
  <2> QED
    BY <2>1, <2>2, AddedApart DEF Apart
<1>6. ASSUME comp.on, NEW g \in files'[comp.level + 1] \ comp.in1 PROVE Beside(whole, g, Inputs(comp))
  <2>1. /\ comp.level \in 0 .. NumLevels - 2 /\ comp.level \in Levels /\ comp.level + 1 \in Levels
        /\ comp.in0 \subseteq files[comp.level] /\ comp.in1 \subseteq files[comp.level + 1]
    BY <1>1, <1>6, LSMAssumption DEF CompTyped, Levels
  <2>2. CASE g \in files[comp.level + 1]
    BY <1>6, <2>2 DEF Apart, InputsApart
  <2>3. CASE p = comp.level + 1 /\ g = f
    <3>1. p # 0 /\ comp.level <= p /\ comp.level + 1 <= p
      BY <2>1, <2>3
    <3>2. \A h \in Inputs(comp) : Table(Entries, h) /\ ~Overlaps(h, First(f), Last(f))
      BY <1>1, <1>2, <2>1, <3>1 DEF Inputs, Stocked
    <3>3. HullCovered(Inputs(comp))
      BY <1>6 DEF NoGaps
    <3> QED
      BY <1>1, <1>2, <2>3, <3>2, <3>3, OutsideBeside
  <2> QED
    BY <1>2, <1>6, <2>1, <2>2, <2>3 DEF Added
<1>7. InputsApart(whole)'
  BY <1>3, <1>6 DEF InputsApart, Beside, Inputs, FileBefore
<1>8. whole => SeqsBelow'
  BY <1>3 DEF Apart, SeqsBelow, EntriesOf, Inputs
<1> QED
  BY <1>5, <1>7, <1>8 DEF Apart

LEMMA MoveApart ==
    ASSUME Typed, NEW whole \in BOOLEAN, LevelsApart(whole), whole => snaps = {}, NEW level \in 0 .. NumLevels - 2,
           NEW in0, NEW c, Selected(level, in0), SetUp(level, in0, c), Moves(c)
    PROVE  LevelsApart(whole)'
<1>1. /\ Placed(c) /\ c.level = level /\ \A g \in files[level + 1] \ c.in1 : Beside(whole, g, Inputs(c))
  BY StartApart
<1>2. PICK E : E = Entries
  OBVIOUS
<1>3. Stocked(E)
  BY <1>2 DEF Typed, FilesTyped
<1>4. c.in1 = {} /\ (\E g : c.in0 = {g}) /\ Replaced(c, c.in0) /\ Inputs(c) = c.in0
  BY DEF Moves, Inputs
<1>5. \A f \in c.in0 : Table(E, f)
  <2>1. level \in Levels
    BY LSMAssumption DEF Levels
  <2> QED
    BY <1>1, <1>3, <2>1 DEF Placed, Stocked
<1>6. \A f, g \in c.in0 : f # g => FileBefore(whole, f, g) \/ FileBefore(whole, g, f)
  BY <1>4
<1> QED
  BY <1>1, <1>3, <1>4, <1>5, <1>6, ReplacedApart

LEMMA FinishApart ==
    ASSUME Typed, NEW whole \in BOOLEAN, Apart(whole), FinishCompaction
    PROVE  LevelsApart(whole)'
<1>1. /\ HistoryTyped /\ FilesTyped /\ CompTyped /\ Stocked(Entries) /\ Updates(Entries)
  BY EntriesAre DEF Typed, FilesTyped
<1>2. PICK N : Replaced(comp, N) /\ Outputs(Entries, comp, N)
  BY FinishReplaces
<1>3. comp.on
  BY DEF FinishCompaction
<1>4. PICK c : c = comp
  OBVIOUS
<1>5. PICK E : E = Entries
  OBVIOUS
<1>6. /\ Placed(c) /\ Replaced(c, N) /\ Outputs(E, c, N) /\ Stocked(E) /\ Updates(E) /\ c.smallestSnapshot \in Int
      /\ \A g \in files[c.level + 1] \ c.in1 : Beside(whole, g, Inputs(c))
      /\ whole => \A e \in EntriesOf(Inputs(c)) : e.seq <= c.smallestSnapshot
  BY <1>1, <1>2, <1>3, <1>4, <1>5 DEF Placed, CompTyped, Apart, InputsApart, SeqsBelow
<1>7. \A f, g \in N : f # g => FileBefore(whole, f, g) \/ FileBefore(whole, g, f)
  BY <1>6, OutputsApart
<1>8. (\A f \in N : Table(E, f)) /\ EntriesOf(N) \subseteq EntriesOf(Inputs(c))
  BY <1>6 DEF Outputs
<1>9. LevelsApart(whole)
  BY DEF Apart
<1> QED
  BY <1>6, <1>7, <1>8, <1>9, ReplacedApart

\* The levels stay apart when compactions leave no gaps: by internal keys; and,
\* as long as there are no snapshots, with all of their user keys.
LEMMA ApartStep ==
    ASSUME NEW whole \in BOOLEAN, Typed, LevelsApart(FALSE), Apart(whole), NoGaps, whole => snaps = {}, [Next]_vars
    PROVE  Apart(whole)'
<1>1. Stocked(Entries)
  BY DEF Typed, FilesTyped
<1>2. ASSUME UNCHANGED <<files, comp>> PROVE Apart(whole)'
  <2>1. LevelsApart(whole)' /\ InputsApart(whole)' /\ (whole => SeqsBelow')
    BY <1>2 DEF Apart, LevelsApart, InputsApart, SeqsBelow, FileBefore, Beside, Inputs, EntriesOf
  <2> QED
    BY <2>1 DEF Apart
<1>3. ASSUME NEW level \in 0 .. NumLevels - 2, NEW in0, NEW c, Selected(level, in0), SetUp(level, in0, c), Starts(c)
      PROVE  Apart(whole)'
  <2>1. /\ c.level = level /\ \A g \in files[level + 1] \ c.in1 : Beside(whole, g, Inputs(c))
        /\ whole => \A e \in EntriesOf(Inputs(c)) : e.seq <= c.smallestSnapshot
    BY <1>3, StartApart DEF Apart
  <2>2. comp' = c /\ files' = files
    BY <1>3 DEF Starts
  <2>3. LevelsApart(whole)'
    BY <2>2 DEF Apart, LevelsApart, FileBefore
  <2>4. InputsApart(whole)'
    BY <2>1, <2>2 DEF InputsApart, Beside, Inputs, FileBefore
  <2>5. whole => SeqsBelow'
    BY <2>1, <2>2 DEF SeqsBelow, EntriesOf, Inputs
  <2> QED
    BY <2>3, <2>4, <2>5 DEF Apart
<1>4. ASSUME NEW level \in 0 .. NumLevels - 2, NEW f \in files[level], PickCompaction(level, f) PROVE Apart(whole)'
  <2>1. PICK in0, c : /\ Selected(level, in0) /\ HullCovered(in0) /\ SetUp(level, in0, c)
                      /\ Starts(c) \/ Moves(c)
    BY <1>1, <1>4, PickChooses
  <2>2. CASE Starts(c)
    BY <1>3, <2>1, <2>2
  <2>3. CASE Moves(c)
    <3>1. LevelsApart(whole)'
      BY <2>1, <2>3, MoveApart DEF Apart
    <3>2. comp' = comp /\ ~comp.on
      BY <1>4, <2>3 DEF PickCompaction, Moves
    <3> QED
      BY <3>1, <3>2 DEF Apart, InputsApart, SeqsBelow
  <2> QED
    BY <2>1, <2>2, <2>3
<1>5. ASSUME NEW level \in 0 .. NumLevels - 2, NEW b \in Keys, NEW e \in Keys, CompactRange(level, b, e)
      PROVE  Apart(whole)'
  <2>1. PICK in0, c : Selected(level, in0) /\ SetUp(level, in0, c) /\ Starts(c)
    BY <1>1, <1>5, RangeChooses
  <2> QED
    BY <1>3, <2>1
<1>6. CASE CompactMemTable
  BY <1>6, FlushApart
<1>7. CASE FinishCompaction
  <2>1. LevelsApart(whole)'
    BY <1>7, FinishApart
  <2>2. ~comp'.on
    BY <1>7 DEF FinishCompaction, NoCompaction
  <2> QED
    BY <2>1, <2>2 DEF Apart, InputsApart, SeqsBelow
<1>8. CASE \/ \E k \in Keys, t \in Types : Write(k, t)
           \/ GetSnapshot \/ SwitchMemTable \/ (\E s \in snaps : ReleaseSnapshot(s)) \/ UNCHANGED vars
  BY <1>2, <1>8 DEF Write, GetSnapshot, SwitchMemTable, ReleaseSnapshot, vars
<1> QED
  BY <1>4, <1>5, <1>6, <1>7, <1>8 DEF Next

\* Automatic compactions leave no gaps.
LEMMA NoGapsStep ==
    ASSUME Manual = FALSE, Typed, NoGaps, [Next]_vars
    PROVE  NoGaps'
<1>1. Stocked(Entries)
  BY DEF Typed, FilesTyped
<1>2. ASSUME UNCHANGED comp PROVE NoGaps'
  BY <1>2 DEF NoGaps, HullCovered, InHull, Covered, Inputs
<1>3. ASSUME NEW level \in 0 .. NumLevels - 2, NEW f \in files[level], PickCompaction(level, f) PROVE NoGaps'
  <2>1. PICK in0, c : /\ Selected(level, in0) /\ HullCovered(in0) /\ SetUp(level, in0, c)
                      /\ Starts(c) \/ Moves(c)
    BY <1>1, <1>3, PickChooses
  <2>2. HullCovered(Inputs(c))
    BY <2>1 DEF SetUp
  <2>3. CASE Starts(c)
    BY <2>2, <2>3 DEF Starts, NoGaps, HullCovered, InHull, Covered, Inputs
  <2>4. CASE Moves(c)
    BY <1>2, <2>4 DEF Moves
  <2> QED
    BY <2>1, <2>3, <2>4
<1>4. CASE FinishCompaction
  BY <1>4 DEF FinishCompaction, NoCompaction, NoGaps
<1>5. CASE \/ \E k \in Keys, t \in Types : Write(k, t)
           \/ GetSnapshot \/ SwitchMemTable \/ CompactMemTable \/ (\E s \in snaps : ReleaseSnapshot(s)) \/ UNCHANGED vars
  BY <1>2, <1>5 DEF Write, GetSnapshot, SwitchMemTable, CompactMemTable, ReleaseSnapshot, vars
<1>6. \A level, b, e : ~CompactRange(level, b, e)
  BY DEF CompactRange
<1> QED
  BY <1>3, <1>4, <1>5, <1>6 DEF Next

-----------------------------------------------------------------------------
(* Newer entries are found first *)

KeysWhole == LevelsApart(TRUE)

NewerThan(f, g) == \A e \in Range(f.data), d \in Range(g.data) : e.key = d.key => d.seq < e.seq
NoSharedKey(f, g) == \A e \in Range(f.data), d \in Range(g.data) : e.key # d.key
InFiles == UNION {EntriesOf(files[l]) : l \in Levels}
Stored == mem \cup imm \cup InFiles

MemNewest ==
    /\ \A e \in mem, d \in imm : d.seq < e.seq
    /\ \A e \in mem \cup imm, d \in InFiles : d.seq < e.seq
DeeperOlder == \A l, m \in Levels : l < m => \A f \in files[l], g \in files[m] : NewerThan(f, g)
LaterNewer == \A f, g \in files[0] : g.num < f.num => NewerThan(f, g)

\* What the level of a running compaction keeps is newer than what it gives up,
\* and what the next level keeps shares no key with that.
LeftNewer == comp.on => \A f \in files[comp.level] \ comp.in0, g \in comp.in0 : NewerThan(f, g)
InputsClosed == comp.on => \A f \in files[comp.level + 1] \ comp.in1, g \in comp.in0 : NoSharedKey(f, g)

\* Files that have come below a running compaction share no key with it.
BaseKept ==
    comp.on => \A l \in Levels : l >= comp.level + 2 =>
        \A f \in files[l] : f \in comp.base[l] \/ \A g \in Inputs(comp) : NoSharedKey(f, g)
SnapshotsKept == comp.on => \A s \in snaps \cup {Len(history)} : comp.smallestSnapshot <= s

\* What the last update of a key before a snapshot wrote is stored, or it is a
\* deletion and nothing older of the key is stored.
NewestAt(k, s, i) == history[i].key = k /\ \A j \in i + 1 .. s : history[j].key # k
Current ==
    \A k \in Keys, s \in snaps \cup {Len(history)} : \A i \in 1 .. s :
        NewestAt(k, s, i) =>
            \/ EntryOf(i) \in Stored
            \/ history[i].type = "deletion" /\ \A e \in Stored : e.key = k => i < e.seq

Running == LeftNewer /\ InputsClosed /\ BaseKept /\ SnapshotsKept
Fresh == MemNewest /\ DeeperOlder /\ LaterNewer /\ Running /\ Current

LEMMA InFilesIs == \A e : e \in InFiles <=> \E l \in Levels : \E f \in files[l] : e \in Range(f.data)
BY DEF InFiles, EntriesOf

LEMMA DisjointKeys ==
    ASSUME NEW E, Updates(E), NEW f, NEW g, Table(E, f), Table(E, g),
           Last(f) < First(g) \/ Last(g) < First(f) \/ ~Overlaps(f, First(g), Last(g))
    PROVE  NoSharedKey(f, g) /\ NoSharedKey(g, f) /\ NewerThan(f, g) /\ NewerThan(g, f)
<1>1. /\ \A e \in Range(f.data) : e.key \in Int /\ First(f) <= e.key /\ e.key <= Last(f)
      /\ \A e \in Range(g.data) : e.key \in Int /\ First(g) <= e.key /\ e.key <= Last(g)
      /\ First(f) \in Int /\ Last(f) \in Int /\ First(g) \in Int /\ Last(g) \in Int
  <2>1. Range(f.data) \subseteq E /\ Range(g.data) \subseteq E
    BY TableEnds
  <2>2. \A e \in E : e.key \in Int
    BY DEF Updates, Keys
  <2> QED
    BY <2>1, <2>2, TableEnds DEF Keys
<1>2. Last(f) < First(g) \/ Last(g) < First(f)
  BY <1>1, OverlapsIs
<1>3. \A e \in Range(f.data), d \in Range(g.data) : e.key # d.key
  BY <1>1, <1>2
<1> QED
  BY <1>3 DEF NoSharedKey, NewerThan

\* A compaction that starts leaves nothing that shares a key with its inputs.
LEMMA StartRunning ==
    ASSUME Typed, KeysWhole, NEW level \in 0 .. NumLevels - 2, NEW in0, NEW c,
           Selected(level, in0), SetUp(level, in0, c)
    PROVE  /\ \A f \in files[level] \ c.in0, g \in c.in0 : NewerThan(f, g)
           /\ \A f \in files[level + 1] \ c.in1, g \in c.in0 : NoSharedKey(f, g)
<1>1. Stocked(Entries) /\ Updates(Entries)
  BY EntriesAre DEF Typed, FilesTyped
<1>2. level \in Levels /\ level + 1 \in Levels
  BY LSMAssumption DEF Levels
<1>3. Placed(c) /\ c.level = level
  BY StartTyped
<1>4. \A f \in files[level] \cup files[level + 1] : Table(Entries, f)
  BY <1>1, <1>2 DEF Stocked
<1>5. \A f \in c.in0 : f \in files[level]
  BY <1>3 DEF Placed
<1>6. ASSUME NEW f \in files[level] \ c.in0, NEW g \in c.in0 PROVE NewerThan(f, g)
  <2>1. Last(f) < First(g) \/ Last(g) < First(f)
    <3>1. CASE level = 0
      BY <1>6, <3>1 DEF SetUp, Selected, Closed
    <3>2. CASE level # 0
      <4>1. FileBefore(TRUE, f, g) \/ FileBefore(TRUE, g, f)
        BY <1>2, <1>5, <1>6, <3>2 DEF KeysWhole, LevelsApart
      <4> QED
        BY <4>1 DEF FileBefore
    <3> QED
      BY <3>1, <3>2
  <2> QED
    BY <1>1, <1>4, <1>5, <2>1, DisjointKeys
<1>7. ASSUME NEW f \in files[level + 1] \ c.in1, NEW g \in c.in0 PROVE NoSharedKey(f, g)
  <2>1. Beside(TRUE, f, Inputs(c))
    BY <1>1, <1>7, SetupApart DEF KeysWhole, Selected
  <2>2. Last(f) < First(g) \/ Last(g) < First(f)
    BY <2>1 DEF Beside, Inputs, FileBefore
  <2> QED
    BY <1>1, <1>4, <1>5, <2>2, DisjointKeys
<1> QED
  BY <1>6, <1>7

LEMMA ReplacedNewer ==
    ASSUME NEW c, Placed(c), NEW N, Replaced(c, N), EntriesOf(N) \subseteq EntriesOf(Inputs(c)),
           DeeperOlder, LaterNewer, \A f \in files[c.level] \ c.in0, g \in c.in0 : NewerThan(f, g)
    PROVE  DeeperOlder' /\ LaterNewer' /\ InFiles' \subseteq InFiles
<1>1. /\ c.level \in Levels /\ c.level + 1 \in Levels \ {0} /\ c.level + 1 # c.level
      /\ \A l \in Levels : \A g \in files'[l] :
            \/ g \in files[l] /\ (l = c.level => g \notin c.in0) /\ (l = c.level + 1 => g \notin c.in1)
            \/ l = c.level + 1 /\ g \in N
  BY ReplacedFiles
<1>2. \A f \in N : \A e \in Range(f.data) : \E h \in Inputs(c) : e \in Range(h.data)
  BY DEF EntriesOf
<1>3. \A h \in Inputs(c) : (h \in c.in0 /\ h \in files[c.level]) \/ h \in files[c.level + 1]
  BY DEF Inputs, Placed
<1>4. c.level \in Int /\ \A l \in Levels : l \in Int
  BY DEF Placed, Levels
<1>5. ASSUME NEW l \in Levels, NEW m \in Levels, l < m, NEW f \in files'[l], NEW g \in files'[m],
             NEW e \in Range(f.data), NEW d \in Range(g.data), e.key = d.key
      PROVE  d.seq < e.seq
  <2>1. CASE f \in files[l] /\ g \in files[m]
    BY <1>5, <2>1 DEF DeeperOlder, NewerThan
  <2>2. CASE f \in files[l] /\ (l = c.level => f \notin c.in0) /\ g \in N /\ m = c.level + 1
    <3>1. PICK h \in Inputs(c) : d \in Range(h.data)
      BY <1>2, <2>2
    <3>2. l < c.level \/ l = c.level
      BY <1>4, <1>5, <2>2
    <3>3. CASE h \in files[c.level + 1]
      BY <1>1, <1>5, <2>2, <3>1, <3>3 DEF DeeperOlder, NewerThan
    <3>4. CASE h \in c.in0 /\ h \in files[c.level] /\ l < c.level
      BY <1>1, <1>5, <2>2, <3>1, <3>4 DEF DeeperOlder, NewerThan
    <3>5. CASE h \in c.in0 /\ l = c.level
      BY <1>1, <1>5, <2>2, <3>1, <3>5 DEF NewerThan
    <3> QED
      BY <1>3, <3>2, <3>3, <3>4, <3>5
  <2>3. CASE f \in N /\ l = c.level + 1 /\ g \in files[m]
    <3>1. PICK h \in Inputs(c) : e \in Range(h.data)
      BY <1>2, <2>3
    <3>2. c.level < m /\ c.level + 1 < m
      BY <1>4, <1>5, <2>3
    <3>3. CASE h \in files[c.level + 1]
      BY <1>1, <1>5, <2>3, <3>1, <3>2, <3>3 DEF DeeperOlder, NewerThan
    <3>4. CASE h \in files[c.level]
      BY <1>1, <1>5, <2>3, <3>1, <3>2, <3>4 DEF DeeperOlder, NewerThan
    <3> QED
      BY <1>3, <3>3, <3>4
  <2>4. ~(l = c.level + 1 /\ m = c.level + 1)
    BY <1>4, <1>5
  <2> QED
    BY <1>1, <2>1, <2>2, <2>3, <2>4
<1>6. DeeperOlder'
  BY <1>5 DEF DeeperOlder, NewerThan
<1>7. LaterNewer'
  <2>1. files'[0] \subseteq files[0]
    <3>1. 0 \in Levels /\ 0 # c.level + 1
      BY <1>1, LSMAssumption DEF Levels
    <3> QED
      BY <1>1, <3>1
  <2> QED
    BY <2>1 DEF LaterNewer, NewerThan
<1>8. InFiles' \subseteq InFiles
  <2>1. ASSUME NEW l \in Levels, NEW f \in files'[l], NEW e \in Range(f.data) PROVE e \in InFiles
    <3>1. CASE f \in files[l]
      BY <3>1 DEF InFiles, EntriesOf
    <3>2. CASE f \in N
      <4>1. PICK h \in Inputs(c) : e \in Range(h.data)
        BY <1>2, <3>2
      <4> QED
        BY <1>1, <1>3, <4>1 DEF InFiles, EntriesOf
    <3> QED
      BY <1>1, <3>1, <3>2
  <2> QED
    BY <2>1 DEF InFiles, EntriesOf
<1> QED
  BY <1>6, <1>7, <1>8

\* Current does not depend on which of the entries are stored where.
LEMMA CurrentStays ==
    ASSUME Current, UNCHANGED history, snaps' \subseteq snaps \cup {Len(history)}, Stored' = Stored
    PROVE  Current'
<1>1. Len(history') = Len(history) /\ snaps' \cup {Len(history')} \subseteq snaps \cup {Len(history)}
  OBVIOUS
<1>2. ASSUME NEW k \in Keys, NEW s \in snaps' \cup {Len(history')}, NEW i \in 1 .. s, NewestAt(k, s, i)'
      PROVE  \/ EntryOf(i)' \in Stored'
             \/ history'[i].type = "deletion" /\ \A e \in Stored' : e.key = k => i < e.seq
  <2>1. NewestAt(k, s, i) /\ EntryOf(i)' = EntryOf(i) /\ history' = history
    BY <1>2 DEF NewestAt, EntryOf
  <2>2. s \in snaps \cup {Len(history)}
    BY <1>1
  <2> QED
    BY <2>1, <2>2 DEF Current
<1> QED
  BY <1>2 DEF Current, NewestAt, EntryOf

LEMMA WriteFresh ==
    ASSUME Typed, Fresh, NEW k \in Keys, NEW t \in Types, Write(k, t) PROVE Fresh'
<1> DEFINE n == Len(history)
           new == [key |-> k, seq |-> n + 1, type |-> t]
<1>1. /\ n \in Nat /\ Len(history') = n + 1 /\ mem' = mem \cup {new}
      /\ \A i \in 1 .. n : history'[i] = history[i] /\ EntryOf(i)' = EntryOf(i)
      /\ \A i \in {n + 1} : history'[i].key = k /\ EntryOf(i)' = new
  BY WriteAdds DEF Typed
<1>2. UNCHANGED <<imm, files, snaps, comp, nextFile>>
  BY DEF Write
<1>3. new.key = k /\ new.seq = n + 1
  OBVIOUS
<1> HIDE DEF new
<1>4. Stocked(Entries) /\ Updates(Entries) /\ HistoryTyped /\ CompTyped /\ \A e \in Entries : e.seq \in 1 .. n
  BY EntriesAre DEF Typed, FilesTyped
<1>5. Stored \subseteq Entries /\ InFiles \subseteq Entries
  <2>1. \A l \in Levels : \A f \in files[l] : Range(f.data) \subseteq Entries
    BY <1>4, TableEnds DEF Stocked
  <2> QED
    BY <1>4, <2>1 DEF Stored, InFiles, EntriesOf, HistoryTyped
<1>6. Stored' = Stored \cup {new} /\ InFiles' = InFiles
  BY <1>1, <1>2 DEF Stored, InFiles, EntriesOf
<1>7. MemNewest'
  <2>1. \A d \in imm \cup InFiles : d.seq < new.seq
    BY <1>1, <1>3, <1>4, <1>5 DEF HistoryTyped
  <2> QED
    BY <1>1, <1>2, <1>6, <2>1 DEF MemNewest, Fresh
<1>8. DeeperOlder' /\ LaterNewer' /\ LeftNewer' /\ InputsClosed' /\ BaseKept'
  BY <1>2 DEF Fresh, Running, DeeperOlder, LaterNewer, LeftNewer, InputsClosed, BaseKept, NewerThan, NoSharedKey, Inputs
<1>9. SnapshotsKept'
  <2>1. ASSUME comp.on, NEW s \in snaps \cup {n + 1} PROVE comp.smallestSnapshot <= s
    <3>1. CASE s \in snaps
      BY <2>1, <3>1 DEF Fresh, Running, SnapshotsKept
    <3>2. CASE s = n + 1
      <4>1. comp.smallestSnapshot <= n /\ comp.smallestSnapshot \in Int
        BY <1>4, <2>1 DEF Fresh, Running, SnapshotsKept, CompTyped
      <4> QED
        BY <1>1, <3>2, <4>1
    <3> QED
      BY <2>1, <3>1, <3>2
  <2> QED
    BY <1>1, <1>2, <2>1 DEF SnapshotsKept
<1>10. ASSUME NEW x \in Keys, NEW s \in snaps' \cup {n + 1}, NEW i \in 1 .. s, NewestAt(x, s, i)'
       PROVE  \/ EntryOf(i)' \in Stored'
              \/ history'[i].type = "deletion" /\ \A e \in Stored' : e.key = x => i < e.seq
  <2>1. CASE i = n + 1
    BY <1>1, <1>6, <2>1
  <2>2. CASE i # n + 1
    <3> DEFINE r == IF s \in snaps THEN s ELSE n
    <3>1. snaps \subseteq 1 .. n /\ (s \in snaps \/ s = n + 1)
      BY <1>2, <1>4 DEF HistoryTyped
    <3>2. r \in snaps \cup {Len(history)} /\ i \in 1 .. r /\ i \in 1 .. n /\ r <= s /\ s \in Int /\ r \in 1 .. n
      <4>1. CASE s \in snaps
        <5>1. r = s /\ s \in 1 .. n
          BY <3>1, <4>1
        <5> QED
          BY <1>1, <4>1, <5>1
      <4>2. CASE s \notin snaps
        <5>1. r = n /\ s = n + 1
          BY <3>1, <4>2
        <5> QED
          BY <1>1, <2>2, <5>1
      <4> QED
        BY <4>1, <4>2
    <3> HIDE DEF r
    <3>3. history'[i].key = x /\ \A j \in i + 1 .. s : history'[j].key # x
      BY <1>10 DEF NewestAt
    <3>4. \A j \in i + 1 .. r : j \in 1 .. n /\ j \in i + 1 .. s
      BY <1>1, <3>2
    <3>5. NewestAt(x, r, i)
      BY <1>1, <3>2, <3>3, <3>4 DEF NewestAt
    <3>6. \/ EntryOf(i) \in Stored
          \/ history[i].type = "deletion" /\ \A e \in Stored : e.key = x => i < e.seq
      BY <3>2, <3>5 DEF Fresh, Current
    <3>7. i < new.seq
      BY <1>1, <1>3, <3>2
    <3> QED
      BY <1>1, <1>6, <3>2, <3>6, <3>7
  <2> QED
    BY <2>1, <2>2
<1>11. Current'
  BY <1>1, <1>10 DEF Current, NewestAt, EntryOf
<1> QED
  BY <1>7, <1>8, <1>9, <1>11 DEF Fresh, Running

\* KeysWhole says more than that the files do not overlap.
LEMMA WholeApart == ASSUME Typed, KeysWhole PROVE LevelsApart(FALSE)
<1>1. Stocked(Entries) /\ Updates(Entries)
  BY EntriesAre DEF Typed, FilesTyped
<1>2. ASSUME NEW l \in Levels, NEW f \in files[l], NEW g \in files[l], FileBefore(TRUE, f, g)
      PROVE  FileBefore(FALSE, f, g)
  <2>1. Table(Entries, f) /\ Table(Entries, g)
    BY <1>1 DEF Stocked
  <2>2. Last(f) < First(g)
    BY <1>2 DEF FileBefore
  <2> QED
    BY <1>1, <2>1, <2>2, BeforeIs
<1> QED
  BY <1>2 DEF KeysWhole, LevelsApart

LEMMA FlushFresh ==
    ASSUME Typed, KeysWhole, Fresh, CompactMemTable PROVE Fresh'
<1>0. LevelsApart(FALSE)
  BY WholeApart
<1>1. PICK p, f :
         /\ p \in Levels
         /\ Added(p, f) /\ Table(Entries, f) /\ Range(f.data) = imm /\ f.num = nextFile
         /\ p # 0 => \A l \in Levels : l <= p => \A g \in files[l] : ~Overlaps(g, First(f), Last(f))
  BY <1>0, FlushAdds
<1>2. UNCHANGED <<history, mem, snaps, comp>> /\ imm' = {}
  BY DEF CompactMemTable
<1>3. /\ HistoryTyped /\ CompTyped /\ Stocked(Entries) /\ Updates(Entries)
      /\ \A l \in Levels : \A g \in files[l] : g.num < nextFile /\ g.num \in Nat
  BY EntriesAre DEF Typed, FilesTyped, Stocked, Table
<1>4. \A l \in Levels : \A g \in files'[l] : g \in files[l] \/ (l = p /\ g = f)
  BY <1>1 DEF Added
<1>5. \A l \in Levels : files[l] \subseteq files'[l]
  BY <1>1 DEF Added
<1>6. f \in files'[p]
  BY <1>1 DEF Added
<1>7. InFiles' = InFiles \cup imm
  <2>1. ASSUME NEW l \in Levels, NEW g \in files'[l], NEW e \in Range(g.data) PROVE e \in InFiles \cup imm
    BY <1>1, <1>4, <2>1 DEF InFiles, EntriesOf
  <2>2. ASSUME NEW e \in imm PROVE e \in InFiles'
    BY <1>1, <1>6, <2>2 DEF InFiles, EntriesOf
  <2>3. ASSUME NEW l \in Levels, NEW g \in files[l], NEW e \in Range(g.data) PROVE e \in InFiles'
    BY <1>5, <2>3 DEF InFiles, EntriesOf
  <2> QED
    BY <2>1, <2>2, <2>3 DEF InFiles, EntriesOf
<1>8. Stored' = Stored
  BY <1>2, <1>7 DEF Stored
<1>9. \A l \in Levels : \A g \in files[l] : NewerThan(f, g)
  BY <1>1 DEF Fresh, MemNewest, NewerThan, InFiles, EntriesOf
<1>10. ASSUME p # 0, NEW l \in Levels, l <= p, NEW g \in files[l] PROVE NoSharedKey(f, g) /\ NewerThan(g, f)
  <2>1. Table(Entries, g) /\ ~Overlaps(g, First(f), Last(f))
    BY <1>1, <1>3, <1>10 DEF Stocked
  <2> QED
    BY <1>1, <1>3, <2>1, DisjointKeys
<1>11. MemNewest'
  BY <1>2, <1>7 DEF Fresh, MemNewest
<1>12. \A l \in Levels : l \in Nat
  BY DEF Levels
<1>13. DeeperOlder'
  <2>1. ASSUME NEW l \in Levels, NEW m \in Levels, l < m, NEW g \in files'[l], NEW h \in files'[m]
        PROVE  NewerThan(g, h)
    <3>1. CASE g \in files[l] /\ h \in files[m]
      BY <2>1, <3>1 DEF Fresh, DeeperOlder
    <3>2. CASE g = f /\ h \in files[m]
      BY <1>9, <3>2
    <3>3. CASE g \in files[l] /\ m = p /\ h = f
      <4>1. p # 0 /\ l <= p
        BY <1>12, <2>1, <3>3
      <4> QED
        BY <1>10, <3>3, <4>1
    <3>4. ~(l = p /\ m = p)
      BY <1>12, <2>1
    <3> QED
      BY <1>4, <3>1, <3>2, <3>3, <3>4
  <2> QED
    BY <2>1 DEF DeeperOlder, NewerThan
<1>14. LaterNewer'
  <2>1. ASSUME NEW g \in files'[0], NEW h \in files'[0], h.num < g.num PROVE NewerThan(g, h)
    <3>0. 0 \in Levels
      BY LSMAssumption DEF Levels
    <3>1. CASE g \in files[0] /\ h \in files[0]
      BY <2>1, <3>1 DEF Fresh, LaterNewer
    <3>2. CASE g = f /\ h \in files[0]
      BY <1>9, <3>0, <3>2
    <3>3. CASE g \in files[0] /\ h = f
      <4>1. g.num < nextFile /\ g.num \in Int /\ h.num = nextFile /\ nextFile \in Int
        BY <1>1, <1>3, <3>0, <3>3 DEF HistoryTyped
      <4> QED
        BY <2>1, <4>1
    <3>4. CASE g = f /\ h = f
      BY <1>1, <1>3, <2>1, <3>4 DEF HistoryTyped
    <3> QED
      BY <1>4, <3>0, <3>1, <3>2, <3>3, <3>4
  <2> QED
    BY <2>1 DEF LaterNewer, NewerThan
<1>15. ASSUME comp.on
       PROVE  /\ comp.level \in Levels /\ comp.level + 1 \in Levels /\ comp.level \in Nat
              /\ comp.in0 \subseteq files[comp.level] /\ comp.in1 \subseteq files[comp.level + 1]
  BY <1>3, <1>15, LSMAssumption DEF CompTyped, Levels
<1>16. LeftNewer'
  <2>1. ASSUME comp.on, NEW g \in files'[comp.level] \ comp.in0, NEW h \in comp.in0 PROVE NewerThan(g, h)
    <3>1. CASE g = f
      BY <1>9, <1>15, <2>1, <3>1
    <3>2. CASE g \in files[comp.level]
      BY <2>1, <3>2 DEF Fresh, Running, LeftNewer
    <3> QED
      BY <1>4, <1>15, <2>1, <3>1, <3>2
  <2> QED
    BY <1>2, <2>1 DEF LeftNewer, NewerThan
<1>17. InputsClosed'
  <2>1. ASSUME comp.on, NEW g \in files'[comp.level + 1] \ comp.in1, NEW h \in comp.in0 PROVE NoSharedKey(g, h)
    <3>1. CASE g = f /\ p = comp.level + 1
      <4>1. p # 0 /\ comp.level <= p
        BY <1>15, <2>1, <3>1
      <4> QED
        BY <1>10, <1>15, <2>1, <3>1, <4>1
    <3>2. CASE g \in files[comp.level + 1]
      BY <2>1, <3>2 DEF Fresh, Running, InputsClosed
    <3> QED
      BY <1>4, <1>15, <2>1, <3>1, <3>2
  <2> QED
    BY <1>2, <2>1 DEF InputsClosed, NoSharedKey
<1>18. BaseKept'
  <2>1. ASSUME comp.on, NEW l \in Levels, l >= comp.level + 2, NEW g \in files'[l]
        PROVE  g \in comp.base[l] \/ \A h \in Inputs(comp) : NoSharedKey(g, h)
    <3>1. CASE g = f /\ l = p
      <4>1. p # 0 /\ comp.level <= p /\ comp.level + 1 <= p
        BY <1>12, <1>15, <2>1, <3>1
      <4> QED
        BY <1>10, <1>15, <2>1, <3>1, <4>1 DEF Inputs
    <3>2. CASE g \in files[l]
      BY <2>1, <3>2 DEF Fresh, Running, BaseKept
    <3> QED
      BY <1>4, <2>1, <3>1, <3>2
  <2> QED
    BY <1>2, <2>1 DEF BaseKept, NoSharedKey, Inputs
<1>19. SnapshotsKept'
  BY <1>2 DEF Fresh, Running, SnapshotsKept
<1>20. Current'
  <2>1. Current /\ UNCHANGED history /\ snaps' \subseteq snaps \cup {Len(history)}
    BY <1>2 DEF Fresh
  <2> QED
    BY <1>8, <2>1, CurrentStays
<1> QED
  BY <1>11, <1>13, <1>14, <1>16, <1>17, <1>18, <1>19, <1>20 DEF Fresh, Running

\* A compaction loses nothing that a snapshot, or the newest state, reads.
LEMMA FinishCurrent ==
    ASSUME Typed, KeysWhole, Fresh, comp.on, NEW N, Replaced(comp, N), Outputs(Entries, comp, N),
           UNCHANGED <<history, mem, imm, snaps>>
    PROVE  Current'
<1> DEFINE In == EntriesOf(Inputs(comp))
<1>1. /\ HistoryTyped /\ CompTyped /\ Stocked(Entries) /\ Updates(Entries)
      /\ \A e \in Entries : e.seq \in 1 .. Len(history) /\ e = EntryOf(e.seq) /\ history[e.seq].key = e.key
  BY EntriesAre DEF Typed, FilesTyped
<1>2. /\ Placed(comp) /\ comp.level \in Levels /\ comp.level + 1 \in Levels \ {0} /\ comp.level \in Int
      /\ comp.in0 \subseteq files[comp.level] /\ comp.in1 \subseteq files[comp.level + 1]
      /\ comp.smallestSnapshot \in Int
  BY <1>1, LSMAssumption DEF CompTyped, Placed, Levels, HistoryTyped
<1>3. /\ \A l \in Levels : \A g \in files'[l] :
            \/ g \in files[l] /\ (l = comp.level => g \notin comp.in0) /\ (l = comp.level + 1 => g \notin comp.in1)
            \/ l = comp.level + 1 /\ g \in N
      /\ \A l \in Levels : \A g \in files[l] :
            g \in files'[l] \/ (l = comp.level /\ g \in comp.in0) \/ (l = comp.level + 1 /\ g \in comp.in1)
      /\ N \subseteq files'[comp.level + 1]
  <2>1. PICK c : c = comp
    OBVIOUS
  <2>2. Placed(c) /\ Replaced(c, N)
    BY <1>2, <2>1
  <2> QED
    BY <2>1, <2>2, ReplacedFiles
<1>4. /\ \A e \in EntriesOf(N) : e \in In /\ Kept(comp, In, e)
      /\ \A e \in In : e \in EntriesOf(N) \/ Dropped(comp, In, e)
  BY DEF Outputs
<1>5. \A l \in Levels : \A g \in files[l] : Table(Entries, g) /\ Range(g.data) \subseteq Entries
  BY <1>1, TableEnds DEF Stocked
<1>6. \A e \in In : e \in Entries /\ \E h \in Inputs(comp) : e \in Range(h.data)
  BY <1>2, <1>5 DEF EntriesOf, Inputs
<1>7. \A e \in Entries : e.seq \in Int /\ e.key \in Keys /\ e.key \in Int
  BY <1>1 DEF Updates, Keys
<1> HIDE DEF In
\* What is stored afterwards was stored before.
<1>8. Stored' = mem \cup imm \cup InFiles'
  BY DEF Stored
<1> DEFINE Remains(e) ==
             \E l \in Levels : \E g \in files[l] :
                 e \in Range(g.data) /\ (l = comp.level => g \notin comp.in0) /\ (l = comp.level + 1 => g \notin comp.in1)
<1>9. ASSUME NEW e \in InFiles' PROVE e \in EntriesOf(N) \/ Remains(e)
  <2>l. PICK l \in Levels : \E g \in files'[l] : e \in Range(g.data)
    BY <1>9 DEF InFiles, EntriesOf
  <2>1. PICK g \in files'[l] : e \in Range(g.data)
    BY <2>l
  <2> QED
    BY <1>3, <2>1 DEF EntriesOf
<1> HIDE DEF Remains
<1>10. EntriesOf(N) \subseteq InFiles'
  BY <1>2, <1>3 DEF InFiles, EntriesOf
<1>11. In \subseteq InFiles
  BY <1>2 DEF In, InFiles, EntriesOf, Inputs
<1>12. Stored' \subseteq Stored /\ Stored \subseteq Entries
  <2>1. InFiles' \subseteq InFiles
    <3>1. ASSUME NEW e \in InFiles' PROVE e \in InFiles
      <4>1. CASE e \in EntriesOf(N)
        BY <1>4, <1>11, <4>1
      <4>2. CASE Remains(e)
        BY <4>2, InFilesIs DEF Remains
      <4> QED
        BY <1>9, <4>1, <4>2
    <3> QED
      BY <3>1
  <2>2. InFiles \subseteq Entries
    BY <1>5 DEF InFiles, EntriesOf
  <2> QED
    BY <1>1, <1>8, <2>1, <2>2 DEF Stored, HistoryTyped
<1>13. ASSUME NEW e \in Stored, e \notin Stored' PROVE e \in In /\ Dropped(comp, In, e)
  <2>1. e \in InFiles /\ e \notin InFiles'
    BY <1>8, <1>13 DEF Stored
  <2>l. PICK l \in Levels : \E g \in files[l] : e \in Range(g.data)
    BY <2>1 DEF InFiles, EntriesOf
  <2>2. PICK g \in files[l] : e \in Range(g.data)
    BY <2>l
  <2>3. g \notin files'[l]
    BY <2>1, <2>2 DEF InFiles, EntriesOf
  <2>4. g \in Inputs(comp)
    BY <1>3, <2>3 DEF Inputs
  <2>5. e \in In
    BY <2>2, <2>4 DEF In, EntriesOf
  <2> QED
    BY <1>4, <1>10, <2>1, <2>5
\* A deletion that is dropped with nothing below it leaves nothing older.
<1>14. ASSUME NEW e \in In, NEW x \in Stored', x.key = e.key, x.seq < e.seq, e \notin Stored',
              e.seq <= comp.smallestSnapshot, IsBaseLevelForKey(comp, e.key)
       PROVE  FALSE
  <2>1. e \in Entries /\ x \in Entries /\ e.seq \in Int /\ x.seq \in Int /\ e.key \in Int
    BY <1>6, <1>7, <1>12
  <2>2. PICK h \in Inputs(comp) : e \in Range(h.data)
    BY <1>6
  <2>3. x \notin mem \cup imm
    <3>1. SUFFICES ASSUME x \in mem \cup imm PROVE FALSE
      OBVIOUS
    <3>2. e.seq < x.seq
      BY <1>11, <3>1 DEF Fresh, MemNewest
    <3> QED
      BY <1>14, <2>1, <3>2
  <2>4. CASE x \in EntriesOf(N)
    <3>1. comp.smallestSnapshot < e.seq
      BY <1>4, <1>14, <2>4 DEF Kept
    <3> QED
      BY <1>2, <1>14, <2>1, <3>1
  <2>5. ASSUME NEW l \in Levels, NEW g \in files[l], x \in Range(g.data), l = comp.level => g \notin comp.in0,
               l = comp.level + 1 => g \notin comp.in1
        PROVE  FALSE
    <3>1. ~NewerThan(g, h)
      <4>1. SUFFICES ASSUME NewerThan(g, h) PROVE FALSE
        OBVIOUS
      <4>2. e.seq < x.seq
        BY <1>14, <2>2, <2>5, <4>1 DEF NewerThan
      <4> QED
        BY <1>14, <2>1, <4>2
    <3>2. ~NoSharedKey(g, h)
      BY <1>14, <2>2, <2>5 DEF NoSharedKey
    <3>3. (h \in comp.in0 /\ h \in files[comp.level]) \/ (h \in comp.in1 /\ h \in files[comp.level + 1])
      BY <1>2, <2>2 DEF Inputs
    <3>4. l \in Int
      BY DEF Levels
    <3>5. CASE l < comp.level
      <4>1. l < comp.level + 1
        BY <1>2, <3>4, <3>5
      <4> QED
        BY <1>2, <2>5, <3>1, <3>3, <3>5, <4>1 DEF Fresh, DeeperOlder
    <3>6. CASE l = comp.level
      <4>1. l < comp.level + 1
        BY <1>2, <3>4, <3>6
      <4>2. CASE h \in comp.in0
        BY <2>5, <3>1, <3>6, <4>2 DEF Fresh, Running, LeftNewer
      <4>3. CASE h \in files[comp.level + 1]
        BY <1>2, <2>5, <3>1, <4>1, <4>3 DEF Fresh, DeeperOlder
      <4> QED
        BY <3>3, <4>2, <4>3
    <3>7. CASE l = comp.level + 1
      <4>1. CASE h \in comp.in0
        BY <2>5, <3>2, <3>7, <4>1 DEF Fresh, Running, InputsClosed
      <4>2. CASE h \in comp.in1 /\ h \in files[comp.level + 1]
        <5>1. g # h
          BY <2>5, <3>7, <4>2
        <5>2. Last(g) < First(h) \/ Last(h) < First(g)
          BY <1>2, <2>5, <3>7, <4>2, <5>1 DEF KeysWhole, LevelsApart, FileBefore
        <5>3. Table(Entries, g) /\ Table(Entries, h)
          BY <1>2, <1>5, <2>5, <4>2
        <5> QED
          BY <1>1, <3>2, <5>2, <5>3, DisjointKeys
      <4> QED
        BY <3>3, <4>1, <4>2
    <3>8. CASE l >= comp.level + 2
      <4>1. g \in comp.base[l]
        BY <2>2, <2>5, <3>2, <3>8 DEF Fresh, Running, BaseKept
      <4>2. ~Overlaps(g, e.key, e.key)
        BY <1>14, <3>8, <4>1 DEF IsBaseLevelForKey
      <4>3. Table(Entries, g) /\ First(g) <= x.key /\ x.key <= Last(g) /\ First(g) \in Int /\ Last(g) \in Int
        BY <1>1, <1>5, <2>5, TableEnds DEF Keys
      <4> QED
        BY <1>14, <2>1, <4>2, <4>3, OverlapsIs
    <3> QED
      BY <1>2, <3>4, <3>5, <3>6, <3>7, <3>8
  <2>6. x \in InFiles'
    BY <1>8, <2>3
  <2>7. CASE Remains(x)
    <3>1. PICK l \in Levels : \E g \in files[l] :
             x \in Range(g.data) /\ (l = comp.level => g \notin comp.in0) /\ (l = comp.level + 1 => g \notin comp.in1)
      BY <2>7 DEF Remains
    <3> QED
      BY <2>5, <3>1
  <2> QED
    BY <1>9, <2>4, <2>6, <2>7
<1>15. ASSUME NEW k \in Keys, NEW s \in snaps \cup {Len(history)}, NEW i \in 1 .. s, NewestAt(k, s, i)
       PROVE  \/ EntryOf(i) \in Stored'
              \/ history[i].type = "deletion" /\ \A e \in Stored' : e.key = k => i < e.seq
  <2> DEFINE e == EntryOf(i)
  <2>1. CASE e \notin Stored
    BY <1>12, <1>15, <2>1 DEF Fresh, Current
  <2>2. CASE e \in Stored'
    BY <2>2
  <2>3. CASE e \in Stored /\ e \notin Stored'
    <3>1. e \in In /\ Dropped(comp, In, e)
      BY <1>13, <2>3
    <3>2. e.seq = i /\ e.key = k /\ e.type = history[i].type
      BY <1>15 DEF EntryOf, NewestAt
    <3> HIDE DEF e
    <3>3. comp.smallestSnapshot <= s /\ s \in Int
      BY <1>1 DEF Fresh, Running, SnapshotsKept, HistoryTyped
    <3>4. ~ \E d \in In : d.key = e.key /\ e.seq < d.seq /\ d.seq <= comp.smallestSnapshot
      <4>1. SUFFICES ASSUME NEW d \in In, d.key = e.key, e.seq < d.seq, d.seq <= comp.smallestSnapshot PROVE FALSE
        OBVIOUS
      <4>2. d.seq \in Int /\ history[d.seq].key = k
        BY <1>1, <1>6, <1>7, <3>2, <4>1
      <4>3. d.seq \in i + 1 .. s
        BY <1>2, <3>2, <3>3, <4>1, <4>2
      <4> QED
        BY <1>15, <4>2, <4>3 DEF NewestAt
    <3>5. e.type = "deletion" /\ e.seq <= comp.smallestSnapshot /\ IsBaseLevelForKey(comp, e.key)
      BY <3>1, <3>4 DEF Dropped
    <3>6. ASSUME NEW x \in Stored', x.key = k PROVE i < x.seq
      <4>1. ~(x.seq < e.seq)
        BY <1>14, <2>3, <3>1, <3>2, <3>5, <3>6
      <4>2. x.seq # e.seq
        <5>1. e \in Entries /\ x \in Entries
          BY <1>6, <1>12, <3>1
        <5> QED
          BY <1>1, <2>3, <5>1
      <4>3. x.seq \in Int /\ e.seq \in Int
        BY <1>6, <1>7, <1>12, <3>1
      <4> QED
        BY <3>2, <4>1, <4>2, <4>3
    <3> QED
      BY <3>2, <3>5, <3>6
  <2> QED
    BY <2>1, <2>2, <2>3
<1>16. history' = history /\ snaps' = snaps /\ \A i : EntryOf(i)' = EntryOf(i)
  BY DEF EntryOf
<1> QED
  BY <1>15, <1>16 DEF Current, NewestAt

LEMMA FreshStep == Typed /\ KeysWhole /\ Fresh /\ [Next]_vars => Fresh'
<1> SUFFICES ASSUME Typed, KeysWhole, Fresh, [Next]_vars PROVE Fresh'
  OBVIOUS
<1>1. Stocked(Entries) /\ HistoryTyped /\ CompTyped /\ Len(history) \in Nat
  BY EntriesAre DEF Typed, FilesTyped
<1>2. ASSUME UNCHANGED <<history, files, comp, mem, imm>>, snaps' \subseteq snaps \cup {Len(history)} PROVE Fresh'
  <2>1. /\ MemNewest' /\ DeeperOlder' /\ LaterNewer' /\ LeftNewer' /\ InputsClosed' /\ BaseKept'
        /\ Stored' = Stored
    BY <1>2 DEF Fresh, Running, MemNewest, DeeperOlder, LaterNewer, LeftNewer, InputsClosed, BaseKept,
                NewerThan, NoSharedKey, Inputs, InFiles, EntriesOf, Stored
  <2>2. SnapshotsKept'
    BY <1>2 DEF Fresh, Running, SnapshotsKept
  <2>3. Current'
    BY <1>2, <2>1, CurrentStays DEF Fresh
  <2> QED
    BY <2>1, <2>2, <2>3 DEF Fresh, Running
<1>3. CASE SwitchMemTable
  <2>1. UNCHANGED <<history, files, snaps, comp, nextFile>> /\ imm = {} /\ imm' = mem /\ mem' = {}
    BY <1>3 DEF SwitchMemTable
  <2>2. /\ DeeperOlder' /\ LaterNewer' /\ LeftNewer' /\ InputsClosed' /\ BaseKept' /\ SnapshotsKept'
        /\ InFiles' = InFiles
    BY <2>1 DEF Fresh, Running, DeeperOlder, LaterNewer, LeftNewer, InputsClosed, BaseKept, SnapshotsKept,
                NewerThan, NoSharedKey, Inputs, InFiles, EntriesOf
  <2>3. MemNewest' /\ Stored' = Stored
    BY <2>1, <2>2 DEF Fresh, MemNewest, Stored
  <2>4. Current'
    BY <2>1, <2>3, CurrentStays DEF Fresh
  <2> QED
    BY <2>2, <2>3, <2>4 DEF Fresh, Running
<1>4. ASSUME NEW level \in 0 .. NumLevels - 2, NEW in0, NEW c, Selected(level, in0), SetUp(level, in0, c), Starts(c),
             UNCHANGED <<history, mem, imm, snaps>>
      PROVE  Fresh'
  <2>1. comp' = c /\ files' = files /\ c.level = level /\ c.base = files
    BY <1>4 DEF Starts, SetUp
  <2>2. /\ \A f \in files[level] \ c.in0, g \in c.in0 : NewerThan(f, g)
        /\ \A f \in files[level + 1] \ c.in1, g \in c.in0 : NoSharedKey(f, g)
    BY <1>4, StartRunning
  <2>3. \A s \in snaps \cup {Len(history)} : c.smallestSnapshot <= s
    BY <1>4, StartTyped
  <2>4. LeftNewer' /\ InputsClosed' /\ BaseKept' /\ SnapshotsKept'
    BY <1>4, <2>1, <2>2, <2>3 DEF LeftNewer, InputsClosed, BaseKept, SnapshotsKept, NewerThan, NoSharedKey
  <2>5. MemNewest' /\ DeeperOlder' /\ LaterNewer' /\ Stored' = Stored
    BY <1>4, <2>1 DEF Fresh, MemNewest, DeeperOlder, LaterNewer, NewerThan, InFiles, EntriesOf, Stored
  <2>6. Current'
    BY <1>4, <2>5, CurrentStays DEF Fresh
  <2> QED
    BY <2>4, <2>5, <2>6 DEF Fresh, Running
<1>5. ASSUME NEW level \in 0 .. NumLevels - 2, NEW f \in files[level], PickCompaction(level, f) PROVE Fresh'
  <2>1. PICK in0, c : /\ Selected(level, in0) /\ HullCovered(in0) /\ SetUp(level, in0, c)
                      /\ Starts(c) \/ Moves(c)
    BY <1>1, <1>5, PickChooses
  <2>2. UNCHANGED <<history, mem, imm, snaps, nextFile>> /\ ~comp.on
    BY <1>5 DEF PickCompaction
  <2>3. CASE Starts(c)
    BY <1>4, <2>1, <2>2, <2>3
  <2>4. CASE Moves(c)
    <3>1. comp' = comp /\ Replaced(c, c.in0) /\ c.in1 = {} /\ Inputs(c) = c.in0
      BY <2>4 DEF Moves, Inputs
    <3>2. Placed(c) /\ c.level = level
      BY <2>1, StartTyped
    <3>3. \A f1 \in files[level] \ c.in0, g \in c.in0 : NewerThan(f1, g)
      BY <2>1, StartRunning
    <3>4. DeeperOlder' /\ LaterNewer' /\ InFiles' \subseteq InFiles
      BY <3>1, <3>2, <3>3, ReplacedNewer DEF Fresh
    <3>5. InFiles \subseteq InFiles'
      <4>1. /\ \A l \in Levels : \A g \in files[l] :
                  g \in files'[l] \/ (l = c.level /\ g \in c.in0) \/ (l = c.level + 1 /\ g \in c.in1)
            /\ c.in0 \subseteq files'[c.level + 1] /\ c.level + 1 \in Levels
        BY <3>1, <3>2, ReplacedFiles
      <4> QED
        BY <3>1, <4>1 DEF InFiles, EntriesOf
    <3>6. InFiles' = InFiles /\ Stored' = Stored
      BY <2>2, <3>4, <3>5 DEF Stored
    <3>7. MemNewest'
      BY <2>2, <3>6 DEF Fresh, MemNewest
    <3>8. Current'
      BY <2>2, <3>6, CurrentStays DEF Fresh
    <3>9. Running'
      BY <2>2, <3>1 DEF Running, LeftNewer, InputsClosed, BaseKept, SnapshotsKept
    <3> QED
      BY <3>4, <3>7, <3>8, <3>9 DEF Fresh
  <2> QED
    BY <2>1, <2>3, <2>4
<1>6. ASSUME NEW level \in 0 .. NumLevels - 2, NEW b \in Keys, NEW e \in Keys, CompactRange(level, b, e) PROVE Fresh'
  <2>1. PICK in0, c : Selected(level, in0) /\ SetUp(level, in0, c) /\ Starts(c)
    BY <1>1, <1>6, RangeChooses
  <2>2. UNCHANGED <<history, mem, imm, snaps>>
    BY <1>6 DEF CompactRange
  <2> QED
    BY <1>4, <2>1, <2>2
<1>7. CASE FinishCompaction
  <2>1. PICK N : Replaced(comp, N) /\ Outputs(Entries, comp, N)
    BY <1>7, FinishReplaces
  <2>2. comp.on /\ comp' = NoCompaction /\ UNCHANGED <<history, mem, imm, snaps>>
    BY <1>7 DEF FinishCompaction
  <2>3. PICK c : c = comp
    OBVIOUS
  <2>4. /\ Placed(c) /\ Replaced(c, N) /\ EntriesOf(N) \subseteq EntriesOf(Inputs(c))
        /\ \A f \in files[c.level] \ c.in0, g \in c.in0 : NewerThan(f, g)
    BY <1>1, <2>1, <2>2, <2>3 DEF Fresh, Running, LeftNewer, Outputs, CompTyped, Placed
  <2>5. DeeperOlder' /\ LaterNewer' /\ InFiles' \subseteq InFiles
    BY <2>4, ReplacedNewer DEF Fresh
  <2>6. MemNewest'
    BY <2>2, <2>5 DEF Fresh, MemNewest
  <2>7. Running'
    BY <2>2 DEF NoCompaction, Running, LeftNewer, InputsClosed, BaseKept, SnapshotsKept
  <2>8. Current'
    BY <2>1, <2>2, FinishCurrent
  <2> QED
    BY <2>5, <2>6, <2>7, <2>8 DEF Fresh
<1>8. CASE GetSnapshot
  BY <1>2, <1>8 DEF GetSnapshot, LastSequence
<1>9. ASSUME NEW s \in snaps, ReleaseSnapshot(s) PROVE Fresh'
  BY <1>2, <1>9 DEF ReleaseSnapshot
<1>10. CASE UNCHANGED vars
  BY <1>2, <1>10 DEF vars
<1>11. CASE \E k \in Keys, t \in Types : Write(k, t)
  BY <1>11, WriteFresh
<1>12. CASE CompactMemTable
  BY <1>12, FlushFresh
<1> QED
  BY <1>3, <1>5, <1>6, <1>7, <1>8, <1>9, <1>10, <1>11, <1>12 DEF Next

LEMMA InitFresh == Init => Fresh
<1> SUFFICES ASSUME Init PROVE Fresh
  OBVIOUS
<1>1. /\ Len(history) = 0 /\ snaps = {} /\ mem = {} /\ imm = {} /\ comp = NoCompaction
      /\ \A l \in Levels : files[l] = {}
  BY DEF Init
<1>2. 0 \in Levels
  BY LSMAssumption DEF Levels
<1>3. InFiles = {}
  BY <1>1 DEF InFiles, EntriesOf
<1>4. MemNewest /\ DeeperOlder /\ LaterNewer
  BY <1>1, <1>2, <1>3 DEF MemNewest, DeeperOlder, LaterNewer
<1>5. Running
  BY <1>1 DEF NoCompaction, Running, LeftNewer, InputsClosed, BaseKept, SnapshotsKept
<1>6. Current
  BY <1>1 DEF Current
<1> QED
  BY <1>4, <1>5, <1>6 DEF Fresh

-----------------------------------------------------------------------------
(* Get *)

Seen(S, k, s) == {e \in S : e.key = k /\ e.seq <= s}
Newer(A, B) == \A e \in A, d \in B : e.key = d.key => d.seq < e.seq
Found(k, s) == {p \in Places(k, s) : SeekIn(p.data, k, s) # {}}

\* A search in a table or memtable gives the newest entry the snapshot sees.
LEMMA SeekIs ==
    ASSUME NEW E, Updates(E), NEW S, S \subseteq E, NEW k \in Keys, NEW s \in Int
    PROVE  /\ SeekIn(S, k, s) \subseteq Seen(S, k, s)
           /\ \A e \in Seen(S, k, s) : (\A x \in Seen(S, k, s) : x.seq <= e.seq) => SeekIn(S, k, s) = {e}
<1> DEFINE t == [key |-> k, seq |-> s]
<1>1. /\ \A e \in S : e.key \in Int /\ e.seq \in Int
      /\ \A e, d \in S : e.seq = d.seq => e = d
      /\ k \in Int
  BY DEF Updates, Keys
<1>2. t.key = k /\ t.seq = s
  OBVIOUS
<1> HIDE DEF t
<1>3. \A e \in S : ~Less(e, t) <=> k < e.key \/ (e.key = k /\ e.seq <= s)
  BY <1>1, <1>2 DEF Less
<1>4. \A e \in S : e \in SeekIn(S, k, s) <=>
         e.key = k /\ e.seq <= s /\ \A x \in S : (k < x.key \/ (x.key = k /\ x.seq <= s)) => ~Less(x, e)
  BY <1>1, <1>3 DEF SeekIn, t
<1>5. SeekIn(S, k, s) \subseteq S
  BY DEF SeekIn
<1>6. ASSUME NEW e \in Seen(S, k, s), \A x \in Seen(S, k, s) : x.seq <= e.seq PROVE SeekIn(S, k, s) = {e}
  <2>1. e \in S /\ e.key = k /\ e.seq <= s
    BY DEF Seen
  <2>2. e \in SeekIn(S, k, s)
    <3>1. ASSUME NEW x \in S, k < x.key \/ (x.key = k /\ x.seq <= s) PROVE ~Less(x, e)
      <4>1. x.key = k => x.seq <= e.seq
        BY <1>1, <1>6, <3>1 DEF Seen
      <4> QED
        BY <1>1, <2>1, <3>1, <4>1 DEF Less
    <3> QED
      BY <1>4, <2>1, <3>1
  <2>3. ASSUME NEW y \in SeekIn(S, k, s) PROVE y = e
    <3>1. y \in S /\ y.key = k /\ y.seq <= s /\ ~Less(e, y)
      BY <1>4, <1>5, <2>1
    <3>2. y.seq <= e.seq
      BY <1>6, <3>1 DEF Seen
    <3>3. ~(e.seq > y.seq)
      BY <2>1, <3>1 DEF Less
    <3> QED
      BY <1>1, <2>1, <3>1, <3>2, <3>3
  <2> QED
    BY <2>2, <2>3
<1> QED
  BY <1>4, <1>5, <1>6 DEF Seen

\* A level is searched in every file that holds what the snapshot sees; below
\* level 0 that is at most one file.
LEMMA SearchFinds ==
    ASSUME Typed, KeysWhole, NEW l \in Levels, NEW k \in Keys, NEW s \in Int
    PROVE  /\ FilesToSearch(l, k, s) \subseteq files[l]
           /\ l # 0 => \A f, g \in FilesToSearch(l, k, s) : f = g
           /\ \A f \in files[l] : Seen(Range(f.data), k, s) # {} => f \in FilesToSearch(l, k, s)
<1>1. Stocked(Entries) /\ Updates(Entries) /\ \A f \in files[l] : Table(Entries, f)
  BY EntriesAre DEF Typed, FilesTyped, Stocked
<1>2. \A e \in Entries : e.key \in Int /\ e.seq \in Int
  BY <1>1 DEF Updates, Keys
<1>3. CASE l = 0
  <2>1. ASSUME NEW f \in files[l], NEW e \in Range(f.data), e.key = k PROVE Overlaps(f, k, k)
    <3>1. First(f) <= k /\ k <= Last(f) /\ Last(f) \in Int /\ k \in Int
      BY <1>1, <2>1, TableEnds DEF Keys
    <3> QED
      BY <3>1, OverlapsIs
  <2>2. FilesToSearch(l, k, s) = {f \in files[l] : Overlaps(f, k, k)}
    BY <1>3 DEF FilesToSearch
  <2> QED
    BY <1>3, <2>1, <2>2 DEF Seen
<1>4. CASE l # 0
  <2> DEFINE fs == InOrder(files[l])
             t == [key |-> k, seq |-> s]
             n == FindFile(fs, t)
  <2>1. /\ Len(fs) \in Nat /\ \A i \in 1 .. Len(fs) : fs[i] \in files[l]
        /\ \A f \in files[l] : \E i \in 1 .. Len(fs) : fs[i] = f
        /\ \A i, j \in 1 .. Len(fs) : i < j => Less(Largest(fs[i]), Smallest(fs[j])) /\ Last(fs[i]) <= First(fs[j])
    BY <1>1, <1>4, WholeApart, LevelInOrder
  <2>2. FilesToSearch(l, k, s) = IF n < Len(fs) /\ Smallest(fs[n + 1]).key <= k THEN {fs[n + 1]} ELSE {}
    BY <1>4 DEF FilesToSearch
  <2>3. t.key = k /\ t.seq = s /\ k \in Int
    BY DEF Keys
  <2> HIDE DEF fs, t
  <2>4. \A i \in 1 .. Len(fs) : /\ Smallest(fs[i]) \in Entries /\ Largest(fs[i]) \in Entries
                                /\ Smallest(fs[i]) = Largest(fs[i]) \/ Less(Smallest(fs[i]), Largest(fs[i]))
                                /\ First(fs[i]) \in Int /\ Last(fs[i]) \in Int /\ First(fs[i]) <= Last(fs[i])
    <3>1. ASSUME NEW f \in files[l]
          PROVE  /\ Smallest(f) \in Entries /\ Largest(f) \in Entries
                 /\ Smallest(f) = Largest(f) \/ Less(Smallest(f), Largest(f))
                 /\ First(f) \in Int /\ Last(f) \in Int /\ First(f) <= Last(f)
      BY <1>1, TableEnds DEF Keys
    <3> QED
      BY <2>1, <3>1
  <2>5. ASSUME NEW i \in 1 .. Len(fs), NEW j \in 1 .. Len(fs), i < j, Less(Largest(fs[j]), t)
        PROVE  Less(Largest(fs[i]), t)
    <3>1. Less(Largest(fs[i]), Largest(fs[j]))
      BY <1>1, <2>1, <2>4, <2>5, LessIsOrder
    <3> DEFINE p == Largest(fs[i])
               q == Largest(fs[j])
    <3>2. p.key \in Int /\ p.seq \in Int /\ q.key \in Int /\ q.seq \in Int /\ Less(p, q) /\ Less(q, t)
      BY <1>2, <2>4, <2>5, <3>1
    <3> HIDE DEF p, q
    <3>3. Less(p, t)
      BY <2>3, <3>2 DEF Less
    <3> QED
      BY <3>3 DEF p
  <2>6. n \in 0 .. Len(fs) /\ \A i \in 1 .. Len(fs) : i <= n <=> Less(Largest(fs[i]), t)
    BY <2>1, <2>5, FindFileIs
  <2> HIDE DEF n
  <2>7. FilesToSearch(l, k, s) \subseteq files[l] /\ \A f, g \in FilesToSearch(l, k, s) : f = g
    <3>1. n < Len(fs) => fs[n + 1] \in files[l]
      BY <2>1, <2>6
    <3> QED
      BY <2>2, <3>1
  <2>8. ASSUME NEW f \in files[l], NEW e \in Range(f.data), e.key = k, e.seq <= s PROVE f \in FilesToSearch(l, k, s)
    <3>1. PICK j \in 1 .. Len(fs) : fs[j] = f
      BY <2>1
    <3>2. /\ e \in Entries /\ (e = Largest(f) \/ Less(e, Largest(f)))
          /\ First(f) <= k /\ k <= Last(f) /\ Largest(f) \in Entries
      BY <1>1, <2>8, TableEnds
    <3>3. ~Less(Largest(f), t)
      <4> DEFINE q == Largest(f)
      <4>1. q.key \in Int /\ q.seq \in Int /\ e.key \in Int /\ e.seq \in Int /\ (e = q \/ Less(e, q))
        BY <1>2, <3>2
      <4> HIDE DEF q
      <4>2. ~Less(q, t)
        BY <2>3, <2>8, <4>1 DEF Less
      <4> QED
        BY <4>2 DEF q
    <3>4. n < j /\ n + 1 \in 1 .. Len(fs) /\ n < Len(fs) /\ (n + 1 = j \/ n + 1 < j)
      BY <2>1, <2>6, <3>1, <3>3
    <3>5. CASE n + 1 = j
      <4>1. Smallest(fs[n + 1]).key <= k
        BY <3>1, <3>2, <3>5 DEF First
      <4> QED
        BY <2>2, <3>1, <3>4, <3>5, <4>1
    <3>6. CASE n + 1 < j
      <4> DEFINE g == fs[n + 1]
      <4>1. /\ Last(g) <= First(f) /\ First(g) <= Last(g) /\ First(g) \in Int /\ Last(g) \in Int
            /\ First(f) \in Int /\ Last(f) \in Int
        BY <2>1, <2>4, <3>1, <3>4, <3>6
      <4>2. ~Less(Largest(g), t)
        BY <2>6, <3>4
      <4>3. g \in files[l]
        BY <2>1, <3>4
      <4>4. g # f => Last(g) < First(f) \/ Last(f) < First(g)
        BY <1>4, <4>3 DEF KeysWhole, LevelsApart, FileBefore
      <4>5. k <= Last(g)
        BY <2>3, <4>1, <4>2 DEF Less, Last
      <4> HIDE DEF g
      <4>6. g = f
        BY <2>3, <3>2, <4>1, <4>4, <4>5
      <4>7. Smallest(fs[n + 1]).key <= k
        BY <3>2, <4>6 DEF First, g
      <4> QED
        BY <2>2, <3>4, <4>6, <4>7 DEF g
    <3> QED
      BY <3>4, <3>5, <3>6
  <2> QED
    BY <2>7, <2>8 DEF Seen
<1> QED
  BY <1>3, <1>4

\* An entry that is stored is found in some place that Get looks at.
LEMMA PlacesHold ==
    ASSUME Typed, KeysWhole, NEW k \in Keys, NEW s \in Int
    PROVE  /\ \A p \in Places(k, s) : p.data \subseteq Stored
           /\ \A e \in Stored : e.key = k /\ e.seq <= s => \E p \in Places(k, s) : e \in p.data
<1> DEFINE M == [at |-> <<-2, 0>>, data |-> mem]
           I == [at |-> <<-1, 0>>, data |-> imm]
           T(l, f) == [at |-> <<l, -f.num>>, data |-> Range(f.data)]
<1>1. \A p : p \in Places(k, s) <=> p = M \/ p = I \/ \E l \in Levels : \E f \in FilesToSearch(l, k, s) : p = T(l, f)
  BY DEF Places
<1>2. M.data = mem /\ I.data = imm /\ \A l, f : T(l, f).data = Range(f.data)
  OBVIOUS
<1> HIDE DEF M, I, T
<1>3. ASSUME NEW p \in Places(k, s) PROVE p.data \subseteq Stored
  <2>1. CASE p = M \/ p = I
    BY <1>2, <2>1 DEF Stored
  <2>2. ASSUME NEW l \in Levels, NEW f \in FilesToSearch(l, k, s), p = T(l, f) PROVE p.data \subseteq Stored
    <3>1. f \in files[l]
      BY SearchFinds
    <3> QED
      BY <1>2, <2>2, <3>1 DEF Stored, InFiles, EntriesOf
  <2> QED
    BY <1>1, <2>1, <2>2
<1>4. ASSUME NEW e \in Stored, e.key = k, e.seq <= s PROVE \E p \in Places(k, s) : e \in p.data
  <2>1. CASE e \in mem \cup imm
    BY <1>1, <1>2, <2>1
  <2>2. CASE e \in InFiles
    <3>1. PICK l \in Levels : \E f \in files[l] : e \in Range(f.data)
      BY <2>2 DEF InFiles, EntriesOf
    <3>2. PICK f \in files[l] : e \in Range(f.data)
      BY <3>1
    <3>3. f \in FilesToSearch(l, k, s)
      <4>1. Seen(Range(f.data), k, s) # {}
        BY <1>4, <3>2 DEF Seen
      <4> QED
        BY <4>1, SearchFinds
    <3> QED
      BY <1>1, <1>2, <3>2, <3>3
  <2> QED
    BY <2>1, <2>2 DEF Stored
<1> QED
  BY <1>3, <1>4

\* What Get looks at earlier is newer.
Precedes(p, q) == Earlier(p, q) /\ ~Earlier(q, p) /\ Newer(p.data, q.data)

LEMMA PlacesOrdered ==
    ASSUME Typed, KeysWhole, Fresh, NEW k \in Keys, NEW s \in Int
    PROVE  \A p, q \in Places(k, s) : p = q \/ Precedes(p, q) \/ Precedes(q, p)
<1> DEFINE M == [at |-> <<-2, 0>>, data |-> mem]
           I == [at |-> <<-1, 0>>, data |-> imm]
           T(l, f) == [at |-> <<l, -f.num>>, data |-> Range(f.data)]
<1>1. \A p : p \in Places(k, s) <=> p = M \/ p = I \/ \E l \in Levels : \E f \in FilesToSearch(l, k, s) : p = T(l, f)
  BY DEF Places
<1>2. /\ M.data = mem /\ M.at[1] = -2
      /\ I.data = imm /\ I.at[1] = -1
      /\ \A l, f : T(l, f).data = Range(f.data) /\ T(l, f).at[1] = l /\ T(l, f).at[2] = -f.num
  OBVIOUS
<1> HIDE DEF M, I, T
<1>3. \A l \in Levels : l \in Nat
  BY DEF Levels
<1>4. Precedes(M, I)
  BY <1>2 DEF Fresh, MemNewest, Newer, Precedes, Earlier
<1>5. ASSUME NEW l \in Levels, NEW f \in files[l]
      PROVE  /\ Precedes(M, T(l, f)) /\ Precedes(I, T(l, f))
             /\ \A m \in Levels : \A g \in files[m] : l < m => Precedes(T(l, f), T(m, g))
  <2>1. Range(f.data) \subseteq InFiles
    BY DEF InFiles, EntriesOf
  <2>2. Newer(mem, Range(f.data)) /\ Newer(imm, Range(f.data))
    BY <2>1 DEF Fresh, MemNewest, Newer
  <2>3. Earlier(M, T(l, f)) /\ ~Earlier(T(l, f), M) /\ Earlier(I, T(l, f)) /\ ~Earlier(T(l, f), I)
    BY <1>2, <1>3 DEF Earlier
  <2>4. ASSUME NEW m \in Levels, NEW g \in files[m], l < m PROVE Precedes(T(l, f), T(m, g))
    <3>1. Newer(Range(f.data), Range(g.data))
      BY <2>4 DEF Fresh, DeeperOlder, NewerThan, Newer
    <3>2. Earlier(T(l, f), T(m, g)) /\ ~Earlier(T(m, g), T(l, f))
      BY <1>2, <1>3, <2>4 DEF Earlier
    <3> QED
      BY <1>2, <3>1, <3>2 DEF Precedes
  <2> QED
    BY <1>2, <2>2, <2>3, <2>4 DEF Precedes
<1>6. ASSUME NEW f \in files[0], NEW g \in files[0], f # g
      PROVE  Precedes(T(0, f), T(0, g)) \/ Precedes(T(0, g), T(0, f))
  <2>1. f.num \in Nat /\ g.num \in Nat /\ f.num # g.num
    <3>1. 0 \in Levels
      BY LSMAssumption DEF Levels
    <3>2. Table(Entries, f) /\ Table(Entries, g) /\ f.num # g.num
      BY <1>6, <3>1 DEF Typed, FilesTyped, Stocked, NumbersUnique
    <3> QED
      BY <3>2 DEF Table
  <2>2. ASSUME NEW a \in files[0], NEW b \in files[0], a.num \in Nat, b.num \in Nat, b.num < a.num
        PROVE  Precedes(T(0, a), T(0, b))
    <3>1. Newer(Range(a.data), Range(b.data))
      BY <2>2 DEF Fresh, LaterNewer, NewerThan, Newer
    <3>2. -a.num < -b.num /\ ~(-b.num < -a.num)
      BY <2>2
    <3>3. Earlier(T(0, a), T(0, b)) /\ ~Earlier(T(0, b), T(0, a))
      BY <1>2, <3>2 DEF Earlier
    <3> QED
      BY <1>2, <3>1, <3>3 DEF Precedes
  <2>3. g.num < f.num \/ f.num < g.num
    BY <2>1
  <2> QED
    BY <2>1, <2>2, <2>3
<1>7. ASSUME NEW l \in Levels, NEW f \in FilesToSearch(l, k, s), NEW m \in Levels, NEW g \in FilesToSearch(m, k, s)
      PROVE  T(l, f) = T(m, g) \/ Precedes(T(l, f), T(m, g)) \/ Precedes(T(m, g), T(l, f))
  <2>1. f \in files[l] /\ g \in files[m] /\ (l # 0 /\ m = l => f = g)
    BY SearchFinds
  <2>2. l < m \/ m < l \/ l = m
    BY <1>3
  <2>3. CASE l < m \/ m < l
    BY <1>5, <2>1, <2>3
  <2>4. CASE l = m /\ f # g
    BY <1>6, <2>1, <2>4
  <2> QED
    BY <2>2, <2>3, <2>4
<1>8. \A l \in Levels : FilesToSearch(l, k, s) \subseteq files[l]
  BY SearchFinds
<1> QED
  BY <1>1, <1>4, <1>5, <1>7, <1>8

\* Get returns what the last update before the snapshot wrote.
LEMMA GetIs ==
    ASSUME Typed, KeysWhole, Fresh, NEW k \in Keys, NEW s \in snaps \cup {LastSequence}
    PROVE  Get(k, s) = Reference(k, s)
<1> DEFINE at == {i \in 1 .. s : history[i].key = k}
<1>1. /\ Updates(Entries) /\ HistoryTyped /\ LastSequence = Len(history) /\ Len(history) \in Nat
      /\ s \in 0 .. Len(history) /\ s \in Int
      /\ \A e \in Entries : e.seq \in 1 .. Len(history) /\ e = EntryOf(e.seq) /\ history[e.seq].key = e.key
  BY EntriesAre DEF Typed, HistoryTyped, LastSequence
<1>2. Stored \subseteq Entries
  <2>1. \A l \in Levels : \A f \in files[l] : Range(f.data) \subseteq Entries
    BY <1>1, TableEnds DEF Typed, FilesTyped, Stocked
  <2> QED
    BY <1>1, <2>1 DEF Stored, InFiles, EntriesOf, HistoryTyped
<1>3. \A p \in Places(k, s) : p.data \subseteq Stored
  BY <1>1, PlacesHold
<1>4. \A p \in Places(k, s) : SeekIn(p.data, k, s) \subseteq Seen(p.data, k, s)
  BY <1>1, <1>2, <1>3, SeekIs
<1>5. \A e \in Stored : e.key = k /\ e.seq <= s => e.seq \in at
  BY <1>1, <1>2
<1>6. ASSUME \A e \in Stored : ~(e.key = k /\ e.seq <= s) PROVE Get(k, s) = 0
  <2>1. Found(k, s) = {}
    BY <1>3, <1>4, <1>6 DEF Found, Seen
  <2> QED
    BY <2>1 DEF Get, Found
<1>7. CASE at = {}
  <2>1. Reference(k, s) = 0
    BY <1>7 DEF Reference
  <2> QED
    BY <1>5, <1>6, <1>7, <2>1
<1>8. CASE at # {}
  <2> DEFINE i == Max(at)
             e0 == EntryOf(i)
  <2>1. i \in at /\ \A j \in at : i >= j
    <3>1. at \subseteq 0 .. s
      OBVIOUS
    <3> HIDE DEF at
    <3> QED
      BY <1>1, <1>8, <3>1, MaxIs
  <2>2. Reference(k, s) = IF history[i].type = "value" THEN i ELSE 0
    BY <1>8 DEF Reference
  <2> HIDE DEF i
  <2>3. i \in 1 .. s /\ NewestAt(k, s, i)
    <3>1. i \in 1 .. s /\ history[i].key = k
      BY <2>1
    <3>2. ASSUME NEW j \in i + 1 .. s PROVE history[j].key # k
      <4>1. j \in 1 .. s /\ ~(i >= j)
        BY <1>1, <3>1
      <4> QED
        BY <2>1, <4>1
    <3> QED
      BY <3>1, <3>2 DEF NewestAt
  <2>4. e0.key = k /\ e0.seq = i /\ e0.type = history[i].type
    BY <2>3 DEF EntryOf, NewestAt
  <2>5. e0 \in Stored \/ (history[i].type = "deletion" /\ \A e \in Stored : e.key = k => i < e.seq)
    BY <1>1, <2>3 DEF Fresh, Current
  <2>6. \A e \in Stored : e.key = k /\ e.seq <= s => e.seq <= i /\ e.seq \in Int
    BY <1>1, <1>2, <1>5, <2>1, <2>3
  <2> HIDE DEF e0, at
  <2>7. CASE history[i].type = "deletion" /\ \A e \in Stored : e.key = k => i < e.seq
    <3>1. \A e \in Stored : ~(e.key = k /\ e.seq <= s)
      BY <2>3, <2>6, <2>7
    <3> QED
      BY <1>6, <2>2, <2>7, <3>1
  <2>8. CASE e0 \in Stored
    <3>1. i <= s /\ i \in Int
      BY <1>1, <2>3
    <3>2. PICK p0 \in Places(k, s) : e0 \in p0.data
      BY <1>1, <2>4, <2>8, <3>1, PlacesHold
    <3>3. SeekIn(p0.data, k, s) = {e0}
      <4>1. e0 \in Seen(p0.data, k, s) /\ \A x \in Seen(p0.data, k, s) : x.seq <= e0.seq
        BY <1>3, <2>4, <2>6, <3>1, <3>2 DEF Seen
      <4>2. p0.data \subseteq Entries
        BY <1>2, <1>3
      <4> QED
        BY <1>1, <4>1, <4>2, SeekIs
    <3>4. p0 \in Found(k, s)
      BY <3>3 DEF Found
    <3>5. ASSUME NEW q \in Found(k, s), q # p0 PROVE Earlier(p0, q) /\ ~Earlier(q, p0)
      <4>1. q \in Places(k, s)
        BY DEF Found
      <4>2. PICK d \in SeekIn(q.data, k, s) : TRUE
        BY DEF Found
      <4>3. d \in q.data /\ d.key = k /\ d.seq <= s /\ d \in Stored
        BY <1>3, <1>4, <4>1, <4>2 DEF Seen
      <4>4. d.seq <= i /\ d.seq \in Int
        BY <2>6, <4>3
      <4>5. ~Newer(q.data, p0.data)
        <5>1. SUFFICES ASSUME Newer(q.data, p0.data) PROVE FALSE
          OBVIOUS
        <5>2. e0.seq < d.seq
          BY <2>4, <3>2, <4>3, <5>1 DEF Newer
        <5> QED
          BY <2>4, <3>1, <4>4, <5>2
      <4> QED
        BY <1>1, <3>5, <4>1, <4>5, PlacesOrdered DEF Precedes
    <3> DEFINE first == CHOOSE p \in Found(k, s) : \A q \in Found(k, s) \ {p} : Earlier(p, q)
    <3>6. first = p0
      <4>1. first \in Found(k, s) /\ \A q \in Found(k, s) \ {first} : Earlier(first, q)
        BY <3>4, <3>5
      <4> QED
        BY <3>4, <3>5, <4>1
    <3>7. Get(k, s) = LET e == CHOOSE x \in SeekIn(first.data, k, s) : TRUE
                      IN  IF e.type = "value" THEN e.seq ELSE 0
      BY <3>4 DEF Get, Found
    <3> HIDE DEF first
    <3>8. Get(k, s) = LET e == CHOOSE x \in {e0} : TRUE IN IF e.type = "value" THEN e.seq ELSE 0
      BY <3>3, <3>6, <3>7
    <3>9. (CHOOSE x \in {e0} : TRUE) = e0
      OBVIOUS
    <3>10. Get(k, s) = IF e0.type = "value" THEN e0.seq ELSE 0
      BY <3>8, <3>9
    <3> QED
      BY <2>2, <2>4, <3>10
  <2> QED
    BY <2>5, <2>7, <2>8
<1> QED
  BY <1>7, <1>8

-----------------------------------------------------------------------------
(* The theorems *)

LEMMA ApartTyped == ASSUME NEW whole \in BOOLEAN, Typed, Apart(whole) PROVE LevelsApart(FALSE)
<1>1. CASE whole = FALSE
  BY <1>1 DEF Apart
<1>2. CASE whole = TRUE
  BY <1>2, WholeApart DEF Apart, KeysWhole
<1> QED
  BY <1>1, <1>2

LEMMA WellFormed == Typed /\ LevelsApart(FALSE) => VersionWellFormed
<1> SUFFICES ASSUME Typed, LevelsApart(FALSE) PROVE VersionWellFormed
  OBVIOUS
<1>1. /\ HistoryTyped /\ CompTyped /\ Stocked(Entries) /\ Updates(Entries) /\ LastSequence = Len(history)
      /\ \A e \in Entries : e.seq \in 1 .. LastSequence
  BY EntriesAre DEF Typed, FilesTyped, LastSequence
<1>2. ASSUME NEW l \in Levels, NEW f \in files[l]
      PROVE  f.data # <<>> /\ \A e \in Range(f.data) : e.seq \in 1 .. LastSequence
  <2>1. Table(Entries, f)
    BY <1>1 DEF Stocked
  <2> QED
    BY <1>1, <2>1, TableEnds DEF Table
<1>3. LSMTypeOK
  BY <1>1, <1>2 DEF HistoryTyped, CompTyped, LSMTypeOK
<1>4. LevelsDisjoint
  <2>1. \A l \in Levels \ {0} : \A f, g \in files[l] :
          f # g => Less(Largest(f), Smallest(g)) \/ Less(Largest(g), Smallest(f))
    BY DEF LevelsApart, FileBefore
  <2>2. \A l, m \in Levels : \A f \in files[l], g \in files[m] : f.num = g.num => l = m /\ f = g
    BY <1>1 DEF Stocked, NumbersUnique
  <2> QED
    BY <2>1, <2>2 DEF LevelsDisjoint
<1> QED
  BY <1>3, <1>4 DEF VersionWellFormed

\* The state of a version is typed and its files lie apart, as long as no
\* compaction's inputs leave a gap.
THEOREM StaysApart == Spec /\ []NoGaps => [](Typed /\ Apart(FALSE))
<1>1. Init => Typed /\ Apart(FALSE)
  BY InitTyped, InitApart
<1>2. Typed /\ Apart(FALSE) /\ NoGaps /\ [Next]_vars => (Typed /\ Apart(FALSE))'
  <2> SUFFICES ASSUME Typed, Apart(FALSE), NoGaps, [Next]_vars PROVE (Typed /\ Apart(FALSE))'
    OBVIOUS
  <2>1. LevelsApart(FALSE)
    BY DEF Apart
  <2>2. Typed'
    BY <2>1, TypedStep
  <2>3. Apart(FALSE)'
    BY <2>1, ApartStep
  <2> QED
    BY <2>2, <2>3
<1> QED
  BY <1>1, <1>2, PTL DEF Spec

\* Every version is well formed while no compaction's inputs leave a gap.
THEOREM VersionsWellFormed == Spec /\ []NoGaps => []VersionWellFormed
<1>1. Typed /\ Apart(FALSE) => VersionWellFormed
  BY WellFormed DEF Apart
<1> QED
  BY <1>1, StaysApart, PTL

\* An automatic compaction never leaves a gap.
THEOREM NoGapsAutomatic == ASSUME Manual = FALSE PROVE Spec => []NoGaps
<1>1. Init => Typed /\ Apart(FALSE) /\ NoGaps
  BY InitTyped, InitApart
<1>2. Typed /\ Apart(FALSE) /\ NoGaps /\ [Next]_vars => (Typed /\ Apart(FALSE) /\ NoGaps)'
  <2> SUFFICES ASSUME Typed, Apart(FALSE), NoGaps, [Next]_vars PROVE (Typed /\ Apart(FALSE) /\ NoGaps)'
    OBVIOUS
  <2>1. LevelsApart(FALSE)
    BY DEF Apart
  <2>2. Typed'
    BY <2>1, TypedStep
  <2>3. Apart(FALSE)'
    BY <2>1, ApartStep
  <2>4. NoGaps'
    BY NoGapsStep
  <2> QED
    BY <2>2, <2>3, <2>4
<1> QED
  BY <1>1, <1>2, PTL DEF Spec

\* With automatic compactions alone every version is well formed.
THEOREM AutomaticWellFormed == ASSUME Manual = FALSE PROVE Spec => []VersionWellFormed
BY NoGapsAutomatic, VersionsWellFormed, PTL

\* Get returns the last update before each snapshot, as long as no two files
\* of a level below 0 share a user key.
THEOREM ReadsAreLatest == Spec /\ []KeysWhole => []ReadsLatest
<1>1. Init => Typed /\ Fresh
  BY InitTyped, InitFresh
<1>2. Typed /\ Fresh /\ KeysWhole /\ [Next]_vars => (Typed /\ Fresh)'
  <2> SUFFICES ASSUME Typed, Fresh, KeysWhole, [Next]_vars PROVE (Typed /\ Fresh)'
    OBVIOUS
  <2>1. Typed'
    BY WholeApart, TypedStep
  <2>2. Fresh'
    BY FreshStep
  <2> QED
    BY <2>1, <2>2
<1>3. Typed /\ Fresh /\ KeysWhole => ReadsLatest
  BY GetIs DEF ReadsLatest
<1> QED
  BY <1>1, <1>2, <1>3, PTL DEF Spec

\* Without snapshots and manual compactions no two files of a level below 0
\* share a user key.
THEOREM KeysStayWhole == ASSUME Manual = FALSE, MaxSnapshots = 0 PROVE Spec => []KeysWhole
<1> DEFINE IInv == Typed /\ Apart(TRUE) /\ NoGaps /\ snaps = {}
<1>1. Init => IInv
  BY InitTyped, InitApart DEF Init
<1>2. IInv /\ [Next]_vars => IInv'
  <2> SUFFICES ASSUME Typed, Apart(TRUE), NoGaps, snaps = {}, [Next]_vars PROVE IInv'
    OBVIOUS
  <2>1. LevelsApart(FALSE)
    BY ApartTyped
  <2>2. Typed'
    BY <2>1, TypedStep
  <2>3. Apart(TRUE)'
    BY <2>1, ApartStep
  <2>4. NoGaps'
    BY NoGapsStep
  <2>5. snaps' = {}
    <3>1. ~GetSnapshot
      BY FS_EmptySet DEF GetSnapshot
    <3> QED
      BY <3>1 DEF Next, vars, Write, ReleaseSnapshot, SwitchMemTable, CompactMemTable, PickCompaction,
                  CompactRange, FinishCompaction
  <2> QED
    BY <2>2, <2>3, <2>4, <2>5
<1>3. IInv => KeysWhole
  BY DEF Apart, KeysWhole
<1> QED
  BY <1>1, <1>2, <1>3, PTL DEF Spec

\* Without snapshots and manual compactions Get returns the last update.
THEOREM ReadsAreLatestAlone == ASSUME Manual = FALSE, MaxSnapshots = 0 PROVE Spec => []ReadsLatest
BY KeysStayWhole, ReadsAreLatest, PTL
=============================================================================
