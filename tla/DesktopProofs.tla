--------------------------- MODULE DesktopProofs ----------------------------
(***************************************************************************)
(* What the macOS client shows, for every set of notifications, ids and    *)
(* answers and any number of posts, replies, kills and lost connections.   *)
(***************************************************************************)
EXTENDS Desktop, FiniteSetTheorems, FunctionTheorems, TLAPS

Texts == {m.text : m \in Sent}
Messages == {Value("app", v) : v \in Posts \cup {Nil}} \cup {Value("remove", i) : i \in Ids \cup {Nil}}
Written == {Clear} \cup {Value("desktop", r) : r \in Replies}

\* The types of all that the client and the slots hold.
Types ==
    /\ server \in [app : Posts \cup {Nil}, remove : Ids \cup {Nil}, desktop : Replies \cup {Nil}]
    /\ app \in {"open", "closed", "dead"} /\ connected \in BOOLEAN
    /\ cache \in [app : Posts \cup {Nil, Unknown}, remove : Ids \cup {Nil, Unknown}]
    /\ writes \in Seq(Written) /\ arrived \in 0 .. Len(writes)
    /\ down \in Seq(Messages \cup {Ack}) /\ events \in Seq(Messages)
    /\ notifData \in [Ids -> Shows \cup {Nil}] /\ center \in [Ids -> Shows \cup {Nil}]
    /\ since \in [Ids -> SUBSET (Texts \ {NoText})]
    /\ count \in [Counted -> Nat] /\ \A c \in Counted : count[c] <= Bound[c]

\* Each acknowledgement under way is for a write that the server has applied.
Acks(q) == {k \in DOMAIN q : q[k] = Ack}
AcksCounted ==
    /\ Cardinality(Acks(down)) = arrived
    /\ ~connected => down = <<>> /\ arrived = 0

\* An observer of "app" is called, and the slot cleared, only when something is
\* known of it.
Known ==
    Clear \in Range(writes) \/ (\E e \in Range(events) : e.slot = "app") => cache.app # Unknown

\* Notifications are numbered in the order they are posted.
Numbered ==
    /\ server.app # Nil => server.app.num <= count["post"]
    /\ \A k \in safe \cup lost : k \in 1 .. count["post"]

\* A notification that was written while the client was in step, is still in the
\* slot and was not shown: the client has no clearing under way, and the next it
\* hears or its observer is called with of the slot is this notification.
Awaited == server.app # Nil /\ server.app.num \in safe \ shown
Unerased ==
    Awaited =>
        /\ app = "open" /\ Clear \notin Range(writes) /\ cache.app \in {Nil, server.app}
        /\ \A d \in Range(down) \cup Range(events) : d.slot = "app" => d.val = server.app

\* The inductive invariant.
DeskInv ==
    /\ Types /\ AcksCounted /\ Known /\ Numbered /\ Unerased /\ KeepsUp /\ TextSinceReply

-----------------------------------------------------------------------------
(* Values and sequences of them.                                           *)

LEMMA ValuesAre ==
  /\ Nil # Unknown /\ Nil \notin Posts /\ Unknown \notin Posts /\ Nil \notin Shows
  /\ \A v \in Posts : /\ v.app \in {m.app : m \in Sent} /\ v.id \in Ids /\ v.text \in Texts
                      /\ v.num \in 1 .. MaxPosts
  /\ \A d \in Messages : /\ d # Ack /\ d.slot \in {"app", "remove"}
                         /\ d.slot = "app" => d.val \in Posts \cup {Nil}
                         /\ d.slot = "remove" => d.val \in Ids \cup {Nil}
  /\ \A v \in Posts \cup {Nil} : Value("app", v) \in Messages
  /\ \A i \in Ids \cup {Nil} : Value("remove", i) \in Messages
  /\ Clear \in Messages /\ Ack.slot = "ack" /\ Clear.slot = "app" /\ Clear.val = Nil
<1>1. Nil # Unknown /\ Nil \notin Posts /\ Unknown \notin Posts /\ Nil \notin Shows
  BY DesktopAssumption, ValuesAssumption
<1>2. \A v \in Posts : /\ v.app \in {m.app : m \in Sent} /\ v.id \in Ids /\ v.text \in Texts
                       /\ v.num \in 1 .. MaxPosts
  BY DesktopAssumption DEF Posts, Texts
<1>3. \A d \in Messages : /\ d # Ack /\ d.slot \in {"app", "remove"}
                          /\ d.slot = "app" => d.val \in Posts \cup {Nil}
                          /\ d.slot = "remove" => d.val \in Ids \cup {Nil}
  BY DEF Messages, Value, Ack
<1>4. /\ \A v \in Posts \cup {Nil} : Value("app", v) \in Messages
      /\ \A i \in Ids \cup {Nil} : Value("remove", i) \in Messages
  BY DEF Messages
<1>5. Clear \in Messages /\ Ack.slot = "ack" /\ Clear.slot = "app" /\ Clear.val = Nil
  BY <1>4 DEF Clear, Ack, Value
<1> QED
  BY <1>1, <1>2, <1>3, <1>4, <1>5

LEMMA Extended ==
  ASSUME NEW S, NEW q \in Seq(S), NEW x \in S
  PROVE  /\ Append(q, x) \in Seq(S) /\ Len(Append(q, x)) = Len(q) + 1
         /\ Range(Append(q, x)) = Range(q) \cup {x} /\ q \o <<x>> = Append(q, x)
<1>1. /\ Append(q, x) \in Seq(S) /\ Len(Append(q, x)) = Len(q) + 1 /\ Len(q) \in Nat
      /\ q \o <<x>> = Append(q, x)
  OBVIOUS
<1>2. /\ DOMAIN Append(q, x) = 1 .. Len(q) + 1 /\ DOMAIN q = 1 .. Len(q)
      /\ \A k \in 1 .. Len(q) : Append(q, x)[k] = q[k]
      /\ Append(q, x)[Len(q) + 1] = x
  BY <1>1
<1>3. Range(Append(q, x)) = Range(q) \cup {x}
  BY <1>1, <1>2 DEF Range
<1> QED
  BY <1>1, <1>3

LEMMA Shortened ==
  ASSUME NEW S, NEW q \in Seq(S), q # <<>>
  PROVE  /\ Head(q) \in S /\ Head(q) \in Range(q) /\ Tail(q) \in Seq(S)
         /\ Len(Tail(q)) = Len(q) - 1 /\ Range(Tail(q)) \subseteq Range(q)
<1>1. /\ Head(q) \in S /\ Tail(q) \in Seq(S) /\ Len(Tail(q)) = Len(q) - 1 /\ Len(q) \in Nat \ {0}
      /\ Head(q) = q[1] /\ \A k \in 1 .. Len(q) - 1 : Tail(q)[k] = q[k + 1]
  OBVIOUS
<1>2. DOMAIN q = 1 .. Len(q) /\ DOMAIN Tail(q) = 1 .. Len(q) - 1
  BY <1>1
<1>3. Head(q) \in Range(q)
  BY <1>1, <1>2 DEF Range
<1>4. ASSUME NEW y \in Range(Tail(q)) PROVE y \in Range(q)
  <2>1. PICK k \in 1 .. Len(q) - 1 : y = Tail(q)[k]
    BY <1>2 DEF Range
  <2>2. k + 1 \in DOMAIN q /\ y = q[k + 1]
    BY <2>1, <1>1, <1>2
  <2> QED
    BY <2>2 DEF Range
<1> QED
  BY <1>1, <1>3, <1>4

LEMMA RangeEmpty == Range(<<>>) = {} /\ \A x : Range(<<x>>) = {x}
<1>1. Range(<<>>) = {}
  BY DEF Range
<1>2. \A x : DOMAIN <<x>> = {1} /\ <<x>>[1] = x
  OBVIOUS
<1> QED
  BY <1>1, <1>2 DEF Range

\* Acknowledgements are counted.
LEMMA AcksFinite ==
  ASSUME NEW S, NEW q \in Seq(S)
  PROVE  IsFiniteSet(Acks(q)) /\ Cardinality(Acks(q)) \in Nat
<1>1. IsFiniteSet(1 .. Len(q)) /\ Acks(q) \subseteq 1 .. Len(q)
  BY FS_Interval DEF Acks
<1> QED
  BY <1>1, FS_Subset, FS_CardinalityType

LEMMA AcksExtended ==
  ASSUME NEW S, NEW q \in Seq(S), NEW x \in S
  PROVE  Cardinality(Acks(Append(q, x))) = Cardinality(Acks(q)) + (IF x = Ack THEN 1 ELSE 0)
<1>1. /\ DOMAIN Append(q, x) = 1 .. Len(q) + 1 /\ DOMAIN q = 1 .. Len(q) /\ Len(q) \in Nat
      /\ \A k \in 1 .. Len(q) : Append(q, x)[k] = q[k]
      /\ Append(q, x)[Len(q) + 1] = x
  OBVIOUS
<1>2. CASE x = Ack
  <2>1. Acks(Append(q, x)) = Acks(q) \cup {Len(q) + 1} /\ Len(q) + 1 \notin Acks(q)
    BY <1>1, <1>2 DEF Acks
  <2> QED
    BY <2>1, <1>2, AcksFinite, FS_AddElement
<1>3. CASE x # Ack
  <2>1. Acks(Append(q, x)) = Acks(q)
    BY <1>1, <1>3 DEF Acks
  <2> QED
    BY <2>1, <1>3, AcksFinite
<1> QED
  BY <1>2, <1>3

LEMMA AcksShortened ==
  ASSUME NEW S, NEW q \in Seq(S), q # <<>>
  PROVE  /\ Cardinality(Acks(q)) = Cardinality(Acks(Tail(q))) + (IF Head(q) = Ack THEN 1 ELSE 0)
<1> DEFINE A == Acks(q) \ {1}
           B == Acks(Tail(q))
           f == [k \in A |-> k - 1]
<1>1. /\ DOMAIN q = 1 .. Len(q) /\ DOMAIN Tail(q) = 1 .. Len(q) - 1 /\ Len(q) \in Nat \ {0}
      /\ Head(q) = q[1] /\ \A k \in 1 .. Len(q) - 1 : Tail(q)[k] = q[k + 1]
      /\ Tail(q) \in Seq(S)
  OBVIOUS
<1>2. \A k \in A : k \in 2 .. Len(q) /\ k - 1 \in 1 .. Len(q) - 1 /\ q[k] = Ack
  BY <1>1 DEF Acks
<1>3. f \in [A -> B]
  <2>1. ASSUME NEW k \in A PROVE k - 1 \in B
    <3>1. Tail(q)[k - 1] = q[(k - 1) + 1] /\ (k - 1) + 1 = k
      BY <1>1, <1>2
    <3> QED
      BY <3>1, <1>1, <1>2 DEF Acks
  <2> QED
    BY <2>1
<1>4. \A k, l \in A : f[k] = f[l] => k = l
  BY <1>2
<1>5. ASSUME NEW j \in B PROVE \E k \in A : f[k] = j
  <2>1. j \in 1 .. Len(q) - 1 /\ q[j + 1] = Ack /\ j + 1 \in 2 .. Len(q)
    BY <1>1 DEF Acks
  <2>2. j + 1 \in A /\ (j + 1) - 1 = j
    BY <2>1, <1>1 DEF Acks
  <2> QED
    BY <2>2
<1>6. ExistsBijection(A, B)
  <2>1. f \in Bijection(A, B)
    BY <1>3, <1>4, <1>5 DEF Bijection, Injection, IsInjective, Surjection
  <2> QED
    BY <2>1 DEF ExistsBijection
<1>7. IsFiniteSet(Acks(q)) /\ Cardinality(Acks(q)) \in Nat /\ IsFiniteSet(B) /\ Cardinality(B) \in Nat
  BY <1>1, AcksFinite
<1>8. /\ IsFiniteSet(A)
      /\ Cardinality(A) = IF 1 \in Acks(q) THEN Cardinality(Acks(q)) - 1 ELSE Cardinality(Acks(q))
  BY <1>7, FS_RemoveElement
<1>9. Cardinality(B) = Cardinality(A)
  BY <1>6, <1>8, FS_Bijection
<1>10. 1 \in Acks(q) <=> Head(q) = Ack
  BY <1>1 DEF Acks
<1> HIDE DEF A, B
<1> QED
  BY <1>7, <1>8, <1>9, <1>10 DEF B

LEMMA AcksOnly ==
  ASSUME NEW n \in Nat
  PROVE  /\ Cardinality(Acks([k \in 1 .. n |-> Ack])) = n
         /\ [k \in 1 .. n |-> Ack] \in Seq({Ack})
         /\ Range([k \in 1 .. n |-> Ack]) \subseteq {Ack}
<1>1. Acks([k \in 1 .. n |-> Ack]) = 1 .. n
  BY DEF Acks
<1>2. Cardinality(1 .. n) = n
  BY FS_Interval
<1> QED
  BY <1>1, <1>2 DEF Range
-----------------------------------------------------------------------------
(* Steps.                                                                  *)

\* A count goes up by one, within its bound.
LEMMA CountsUp ==
  ASSUME Types, NEW c \in Counted, Counts(c)
  PROVE  /\ count' \in [Counted -> Nat] /\ \A x \in Counted : count'[x] <= Bound[x]
         /\ count'[c] = count[c] + 1 /\ count[c] + 1 \in 1 .. Bound[c]
         /\ \A x \in Counted \ {c} : count'[x] = count[x]
<1>1. Bound \in [Counted -> Nat]
  BY DesktopAssumption DEF Bound, Counted
<1>2. /\ count \in [Counted -> Nat] /\ \A x \in Counted : count[x] <= Bound[x]
      /\ count[c] < Bound[c] /\ count' = [count EXCEPT ![c] = count[c] + 1]
  BY DEF Counts, Types
<1>3. /\ count' \in [Counted -> Nat] /\ count'[c] = count[c] + 1
      /\ \A x \in Counted \ {c} : count'[x] = count[x]
  BY <1>2
<1>4. count[c] \in Nat /\ Bound[c] \in Nat
  BY <1>1, <1>2
<1>5. count'[c] <= Bound[c] /\ count[c] + 1 \in 1 .. Bound[c]
  BY <1>2, <1>3, <1>4
<1>6. \A x \in Counted : count'[x] <= Bound[x]
  BY <1>2, <1>3, <1>5
<1> QED
  BY <1>3, <1>5, <1>6

\* The observers' call is one more event, or none.
LEMMA RaiseIs ==
  ASSUME NEW S, NEW q \in Seq(S), NEW ca, NEW ws, Value("app", View(ca, ws)) \in S
  PROVE  /\ Raise(q, ca, ws) \in Seq(S)
         /\ \/ Raise(q, ca, ws) = q /\ Same(View(ca, ws), View(cache.app, writes))
            \/ /\ Range(Raise(q, ca, ws)) = Range(q) \cup {Value("app", View(ca, ws))}
               /\ ~Same(View(ca, ws), View(cache.app, writes))
<1>1. CASE Same(View(ca, ws), View(cache.app, writes))
  BY <1>1 DEF Raise
<1>2. CASE ~Same(View(ca, ws), View(cache.app, writes))
  BY <1>2, Extended DEF Raise
<1> QED
  BY <1>1, <1>2

\* What is pushed to the client.
LEMMA PushIs ==
  ASSUME Types, NEW slot, NEW v, Value(slot, v) \in Messages
  PROVE  /\ Push(slot, v) \in Seq(Messages \cup {Ack})
         /\ Range(Push(slot, v)) \subseteq Range(down) \cup {Value(slot, v)}
         /\ Cardinality(Acks(Push(slot, v))) = Cardinality(Acks(down))
         /\ ~connected => Push(slot, v) = down
<1>1. Value(slot, v) # Ack /\ down \in Seq(Messages \cup {Ack}) /\ Cardinality(Acks(down)) \in Nat
  BY ValuesAre, AcksFinite DEF Types
<1> QED
  BY <1>1, Extended, AcksExtended DEF Push

\* The numbers and the safe notifications are as they were, or fewer are safe:
\* what is awaited was awaited before.
LEMMA StillAwaited ==
  ASSUME server'.app = server.app, safe' \subseteq safe, shown \subseteq shown', Awaited'
  PROVE  Awaited
BY DEF Awaited

\* handleNotifyNotifications.
LEMMA PostKeeps ==
  ASSUME DeskInv, NEW m \in Sent, Post(m)
  PROVE  DeskInv'
<1> DEFINE c == count["post"]
           v == [app |-> m.app, id |-> m.id, text |-> m.text, num |-> c + 1]
<1>1. Types /\ AcksCounted /\ Known /\ Numbered /\ Unerased /\ KeepsUp /\ TextSinceReply
  BY DEF DeskInv
<1>2. /\ Counts("post")
      /\ UNCHANGED <<app, connected, cache, writes, arrived, events, notifData, center, shown, lost, since>>
      /\ \/ UNCHANGED <<server, down, safe>>
         \/ /\ server' = [server EXCEPT !.app = v] /\ down' = Push("app", v)
            /\ safe' = IF InStep THEN safe \cup {v.num} ELSE safe
  BY DEF Post
<1>3. /\ count' \in [Counted -> Nat] /\ \A x \in Counted : count'[x] <= Bound[x]
      /\ count'["post"] = c + 1 /\ c + 1 \in 1 .. MaxPosts /\ c \in Nat
  BY <1>1, <1>2, CountsUp DEF Counted, Bound, Types
<1>4. v \in Posts /\ Value("app", v) \in Messages /\ v.num = c + 1 /\ v # Nil
  BY <1>3, ValuesAre DEF Posts
<1> HIDE DEF v, c
<1>5. CASE UNCHANGED <<server, down, safe>>
  <2>1. Types' /\ AcksCounted' /\ Known' /\ KeepsUp' /\ TextSinceReply'
    BY <1>1, <1>2, <1>3, <1>5 DEF Types, AcksCounted, Known, KeepsUp, TextSinceReply
  <2>2. Numbered'
    BY <1>1, <1>2, <1>3, <1>5, ValuesAre DEF Numbered, Types, c
  <2>3. Unerased'
    BY <1>1, <1>2, <1>5 DEF Unerased, Awaited
  <2> QED
    BY <2>1, <2>2, <2>3 DEF DeskInv
<1>6. CASE /\ server' = [server EXCEPT !.app = v] /\ down' = Push("app", v)
           /\ safe' = IF InStep THEN safe \cup {v.num} ELSE safe
  <2>1. /\ down' \in Seq(Messages \cup {Ack}) /\ Range(down') \subseteq Range(down) \cup {Value("app", v)}
        /\ Cardinality(Acks(down')) = Cardinality(Acks(down)) /\ (~connected => down' = down)
    BY <1>1, <1>4, <1>6, PushIs
  <2>2. /\ server'.app = v
        /\ server' \in [app : Posts \cup {Nil}, remove : Ids \cup {Nil}, desktop : Replies \cup {Nil}]
    BY <1>1, <1>4, <1>6 DEF Types
  <2>3. Types'
    BY <1>1, <1>2, <1>3, <2>1, <2>2 DEF Types
  <2>4. AcksCounted' /\ Known' /\ TextSinceReply'
    BY <1>1, <1>2, <2>1 DEF AcksCounted, Known, TextSinceReply
  <2>5. \A k \in safe \cup lost : k \in 1 .. c
    BY <1>1 DEF Numbered, c
  <2>6. Numbered'
    BY <1>2, <1>3, <1>4, <1>6, <2>2, <2>5 DEF Numbered
  <2>7. KeepsUp'
    BY <1>1, <1>2, <1>3, <1>4, <1>6, <2>5 DEF KeepsUp
  <2>8. Unerased'
    <3>1. SUFFICES ASSUME Awaited' PROVE Unerased'
      BY DEF Unerased
    <3>2. InStep
      BY <3>1, <1>3, <1>4, <1>6, <2>2, <2>5 DEF Awaited
    <3>3. /\ app' = "open" /\ writes' = <<>> /\ events' = <<>> /\ down = <<>> /\ cache'.app = Nil
      BY <3>2, <1>2 DEF InStep
    <3>4. Range(writes') = {} /\ Range(events') = {} /\ Range(down') \subseteq {Value("app", v)}
      BY <3>3, <2>1, RangeEmpty
    <3> QED
      BY <3>3, <3>4, <2>2 DEF Unerased, Value
  <2> QED
    BY <2>3, <2>4, <2>6, <2>7, <2>8 DEF DeskInv
<1> QED
  BY <1>2, <1>5, <1>6

\* onNotificationRemoved.
LEMMA RemoveIdKeeps ==
  ASSUME DeskInv, NEW i \in Ids, RemoveId(i)
  PROVE  DeskInv'
<1>1. Types /\ AcksCounted /\ Known /\ Numbered /\ Unerased /\ KeepsUp /\ TextSinceReply
  BY DEF DeskInv
<1>2. /\ Counts("remove") /\ server' = [server EXCEPT !.remove = i]
      /\ down' = IF server.remove = i THEN down ELSE Push("remove", i)
      /\ UNCHANGED <<app, connected, cache, writes, arrived, events, notifData, center, shown, lost, safe, since>>
  BY DEF RemoveId, histVars
<1>3. /\ count' \in [Counted -> Nat] /\ \A x \in Counted : count'[x] <= Bound[x]
      /\ count'["post"] = count["post"]
  BY <1>1, <1>2, CountsUp DEF Counted
<1>4. /\ down' \in Seq(Messages \cup {Ack}) /\ Range(down') \subseteq Range(down) \cup {Value("remove", i)}
      /\ Cardinality(Acks(down')) = Cardinality(Acks(down)) /\ (~connected => down' = down)
  BY <1>1, <1>2, PushIs, ValuesAre DEF Types
<1>5. /\ server'.app = server.app
      /\ server' \in [app : Posts \cup {Nil}, remove : Ids \cup {Nil}, desktop : Replies \cup {Nil}]
  BY <1>1, <1>2 DEF Types
<1>6. Types'
  BY <1>1, <1>2, <1>3, <1>4, <1>5 DEF Types
<1>7. AcksCounted' /\ Known' /\ Numbered' /\ KeepsUp' /\ TextSinceReply'
  BY <1>1, <1>2, <1>3, <1>4, <1>5 DEF AcksCounted, Known, Numbered, KeepsUp, TextSinceReply
<1>8. Unerased'
  BY <1>1, <1>2, <1>4, <1>5 DEF Unerased, Awaited, Value
<1> QED
  BY <1>6, <1>7, <1>8 DEF DeskInv

\* A sequence without acknowledgements.
LEMMA NoAcks ==
  /\ Cardinality(Acks(<<>>)) = 0
  /\ \A a, b : a # Ack /\ b # Ack => Cardinality(Acks(<<a, b>>)) = 0
  /\ \A S : \A a, b \in S : <<a, b>> \in Seq(S) /\ Range(<<a, b>>) = {a, b}
<1>1. Acks(<<>>) = {}
  BY DEF Acks
<1>2. \A a, b : DOMAIN <<a, b>> = {1, 2} /\ <<a, b>>[1] = a /\ <<a, b>>[2] = b
  OBVIOUS
<1>3. \A a, b : a # Ack /\ b # Ack => Acks(<<a, b>>) = {}
  BY <1>2 DEF Acks
<1>4. \A a, b : Range(<<a, b>>) = {a, b}
  BY <1>2 DEF Range
<1>5. ASSUME NEW S, NEW a \in S, NEW b \in S PROVE <<a, b>> \in Seq(S)
  OBVIOUS
<1>6. Cardinality({}) = 0
  BY FS_EmptySet
<1>7. \A a, b : a # Ack /\ b # Ack => Cardinality(Acks(<<a, b>>)) = 0
  BY <1>3, <1>6
<1> QED
  BY <1>1, <1>4, <1>5, <1>6, <1>7

\* messagesListener.onDataChange.
LEMMA OnDataChangeKeeps ==
  ASSUME DeskInv, onDataChange
  PROVE  DeskInv'
<1>1. UNCHANGED <<server, app, connected, cache, writes, arrived, down, events, notifData, center,
                  count, shown, lost, safe, since>>
  BY DEF onDataChange, clientVars, histVars
<1>2. Types' /\ AcksCounted' /\ Known' /\ Numbered' /\ KeepsUp' /\ TextSinceReply'
  BY <1>1 DEF DeskInv, Types, AcksCounted, Known, Numbered, KeepsUp, TextSinceReply
<1>3. Unerased'
  BY <1>1 DEF DeskInv, Unerased, Awaited
<1> QED
  BY <1>2, <1>3 DEF DeskInv

\* The client connects.
LEMMA ConnectKeeps ==
  ASSUME DeskInv, Connect
  PROVE  DeskInv'
<1> DEFINE a == Value("app", server.app)
           r == Value("remove", server.remove)
<1>1. Types /\ AcksCounted /\ Known /\ Numbered /\ Unerased /\ KeepsUp /\ TextSinceReply
  BY DEF DeskInv
<1>2. /\ ~connected /\ connected' = TRUE /\ down' = IF app = "open" THEN <<a, r>> ELSE <<>>
      /\ UNCHANGED <<server, app, cache, writes, arrived, events, notifData, center,
                     count, shown, lost, safe, since>>
  BY DEF Connect, histVars
<1>3. a \in Messages /\ r \in Messages /\ a # Ack /\ r # Ack
  BY <1>1, ValuesAre DEF Types
<1>4. /\ down' \in Seq(Messages \cup {Ack}) /\ Cardinality(Acks(down')) = 0
      /\ Range(down') \subseteq {a, r}
  <2>1. /\ <<a, r>> \in Seq(Messages \cup {Ack}) /\ Cardinality(Acks(<<a, r>>)) = 0
        /\ Range(<<a, r>>) = {a, r}
    BY <1>3, NoAcks
  <2>2. /\ <<>> \in Seq(Messages \cup {Ack}) /\ Cardinality(Acks(<<>>)) = 0 /\ Range(<<>>) = {}
    BY NoAcks, RangeEmpty
  <2> QED
    BY <1>2, <2>1, <2>2
<1> HIDE DEF a, r
<1>5. Types'
  BY <1>1, <1>2, <1>4 DEF Types
<1>6. AcksCounted' /\ Known' /\ Numbered' /\ KeepsUp' /\ TextSinceReply'
  BY <1>1, <1>2, <1>4 DEF AcksCounted, Known, Numbered, KeepsUp, TextSinceReply
<1>7. Unerased'
  <2>1. \A e \in {a, r} : e.slot = "app" => e.val = server.app
    BY DEF Value, a, r
  <2>2. Awaited' <=> Awaited
    BY <1>2 DEF Awaited
  <2> QED
    BY <1>1, <1>2, <1>4, <2>1, <2>2 DEF Unerased
<1> QED
  BY <1>5, <1>6, <1>7 DEF DeskInv

\* The connection is lost.
LEMMA DisconnectKeeps ==
  ASSUME DeskInv, Disconnect
  PROVE  DeskInv'
<1>1. Types /\ AcksCounted /\ Known /\ Numbered /\ Unerased /\ KeepsUp /\ TextSinceReply
  BY DEF DeskInv
<1>2. /\ Counts("drop") /\ connected' = FALSE /\ down' = <<>> /\ arrived' = 0
      /\ UNCHANGED <<server, app, cache, writes, events, notifData, center, shown, lost, safe, since>>
  BY DEF Disconnect, SendAgain, histVars
<1>3. /\ count' \in [Counted -> Nat] /\ \A x \in Counted : count'[x] <= Bound[x]
      /\ count'["post"] = count["post"]
  BY <1>1, <1>2, CountsUp DEF Counted
<1>4. Types'
  <2>1. down' \in Seq(Messages \cup {Ack}) /\ arrived' \in 0 .. Len(writes)
    BY <1>1, <1>2 DEF Types
  <2> QED
    BY <1>1, <1>2, <1>3, <2>1 DEF Types
<1>5. AcksCounted' /\ Known' /\ Numbered' /\ KeepsUp' /\ TextSinceReply'
  BY <1>1, <1>2, <1>3, NoAcks DEF AcksCounted, Known, Numbered, KeepsUp, TextSinceReply
<1>6. Unerased'
  BY <1>1, <1>2, RangeEmpty DEF Unerased, Awaited
<1> QED
  BY <1>4, <1>5, <1>6 DEF DeskInv

\* The server applies a write.
LEMMA ApplyKeeps ==
  ASSUME DeskInv, Apply
  PROVE  DeskInv'
<1> DEFINE w == writes[arrived + 1]
           old == server[w.slot]
<1>1. Types /\ AcksCounted /\ Known /\ Numbered /\ Unerased /\ KeepsUp /\ TextSinceReply
  BY DEF DeskInv
<1>2. /\ connected /\ arrived < Len(writes) /\ arrived' = arrived + 1
      /\ server' = [server EXCEPT ![w.slot] = w.val]
      /\ UNCHANGED <<app, connected, cache, writes, events, notifData, center, count, shown, safe, since>>
      /\ IF w.slot = "app"
           THEN /\ down' = (IF old = Nil THEN down ELSE Push("app", Nil)) \o <<Ack>>
                /\ lost' = IF old # Nil /\ old.num \notin shown THEN lost \cup {old.num} ELSE lost
           ELSE down' = Append(down, Ack) /\ lost' = lost
  BY DEF Apply
<1>3. arrived + 1 \in 1 .. Len(writes) /\ w \in Written /\ w \in Range(writes)
  <2>1. arrived + 1 \in 1 .. Len(writes) /\ writes \in Seq(Written)
    BY <1>1, <1>2 DEF Types
  <2>2. DOMAIN writes = 1 .. Len(writes)
    BY <2>1
  <2> QED
    BY <2>1, <2>2 DEF Range
<1>4. /\ down \in Seq(Messages \cup {Ack}) /\ Cardinality(Acks(down)) \in Nat
      /\ Ack \in Messages \cup {Ack} /\ arrived \in Nat /\ arrived + 1 \in 0 .. Len(writes)
  BY <1>1, <1>3, AcksFinite DEF Types
<1> HIDE DEF w
<1>5. CASE w = Clear
  <2>1. w.slot = "app" /\ w.val = Nil /\ old = server.app
    BY <1>5, ValuesAre
  <2>2. PICK q \in Seq(Messages \cup {Ack}) : /\ Cardinality(Acks(q)) = Cardinality(Acks(down))
                                              /\ down' = q \o <<Ack>>
    <3>1. CASE old = Nil
      BY <1>2, <1>4, <2>1, <3>1
    <3>2. CASE old # Nil
      <4>1. Value("app", Nil) \in Messages
        BY ValuesAre
      <4>2. /\ Push("app", Nil) \in Seq(Messages \cup {Ack})
            /\ Cardinality(Acks(Push("app", Nil))) = Cardinality(Acks(down))
        BY <1>1, <4>1, PushIs
      <4> QED
        BY <1>2, <2>1, <3>2, <4>2
    <3> QED
      BY <3>1, <3>2
  <2>3. /\ down' \in Seq(Messages \cup {Ack})
        /\ Cardinality(Acks(down')) = Cardinality(Acks(down)) + 1
    <3>1. q \o <<Ack>> = Append(q, Ack) /\ Append(q, Ack) \in Seq(Messages \cup {Ack})
      BY <1>4, Extended
    <3>2. Cardinality(Acks(Append(q, Ack))) = Cardinality(Acks(q)) + 1
      BY <1>4, AcksExtended
    <3> QED
      BY <2>2, <3>1, <3>2
  <2>4. /\ server'.app = Nil
        /\ server' \in [app : Posts \cup {Nil}, remove : Ids \cup {Nil}, desktop : Replies \cup {Nil}]
    BY <1>1, <1>2, <2>1 DEF Types
  <2>5. Types'
    BY <1>1, <1>2, <1>4, <2>3, <2>4 DEF Types
  <2>6. AcksCounted' /\ Known' /\ TextSinceReply'
    BY <1>1, <1>2, <2>3 DEF AcksCounted, Known, TextSinceReply
  <2>7. /\ lost' \subseteq lost \cup {server.app.num}
        /\ lost' = lost \/ (server.app # Nil /\ server.app.num \notin shown)
    <3>1. lost' = IF server.app # Nil /\ server.app.num \notin shown
                  THEN lost \cup {server.app.num} ELSE lost
      BY <1>2, <2>1
    <3> QED
      BY <3>1
  <2>8. server.app # Nil => server.app.num \in 1 .. count["post"]
    BY <1>1, ValuesAre DEF Numbered, Types, Counted
  <2>9. Numbered'
    BY <1>1, <1>2, <2>4, <2>7, <2>8 DEF Numbered
  <2>10. KeepsUp'
    <3>1. ~Awaited
      BY <1>1, <1>3, <1>5 DEF Unerased
    <3> QED
      BY <1>1, <1>2, <2>7, <3>1 DEF KeepsUp, Awaited
  <2>11. Unerased'
    BY <2>4 DEF Unerased, Awaited
  <2> QED
    BY <2>5, <2>6, <2>9, <2>10, <2>11 DEF DeskInv
<1>6. CASE \E r \in Replies : w = Value("desktop", r)
  <2>1. w.slot = "desktop" /\ w.val \in Replies
    BY <1>6 DEF Value
  <2>2. down' = Append(down, Ack) /\ lost' = lost
    BY <1>2, <2>1
  <2>3. /\ down' \in Seq(Messages \cup {Ack}) /\ Range(down') = Range(down) \cup {Ack}
        /\ Cardinality(Acks(down')) = Cardinality(Acks(down)) + 1
    BY <2>2, <1>4, Extended, AcksExtended
  <2>4. /\ server'.app = server.app
        /\ server' \in [app : Posts \cup {Nil}, remove : Ids \cup {Nil}, desktop : Replies \cup {Nil}]
    BY <1>1, <1>2, <2>1 DEF Types
  <2>5. Types'
    BY <1>1, <1>2, <1>4, <2>3, <2>4 DEF Types
  <2>6. AcksCounted' /\ Known' /\ TextSinceReply' /\ Numbered' /\ KeepsUp'
    BY <1>1, <1>2, <2>2, <2>3, <2>4 DEF AcksCounted, Known, TextSinceReply, Numbered, KeepsUp
  <2>7. Unerased'
    BY <1>1, <1>2, <2>3, <2>4, ValuesAre DEF Unerased, Awaited
  <2> QED
    BY <2>5, <2>6, <2>7 DEF DeskInv
<1> QED
  BY <1>3, <1>5, <1>6 DEF Written

\* The client takes a message.
LEMMA ReceiveKeeps ==
  ASSUME DeskInv, Receive
  PROVE  DeskInv'
<1> DEFINE d == Head(down)
<1>1. Types /\ AcksCounted /\ Known /\ Numbered /\ Unerased /\ KeepsUp /\ TextSinceReply
  BY DEF DeskInv
<1>2. /\ down # <<>> /\ down' = Tail(down)
      /\ UNCHANGED <<server, app, connected, notifData, center, count, shown, lost, safe, since>>
  BY DEF Receive, histVars
<1>3. /\ d \in Messages \cup {Ack} /\ d \in Range(down) /\ Tail(down) \in Seq(Messages \cup {Ack})
      /\ Range(Tail(down)) \subseteq Range(down)
      /\ Cardinality(Acks(down)) = Cardinality(Acks(Tail(down))) + (IF d = Ack THEN 1 ELSE 0)
      /\ Cardinality(Acks(Tail(down))) \in Nat /\ connected
  <2>1. Tail(down) \in Seq(Messages \cup {Ack})
    BY <1>1, <1>2, Shortened DEF Types
  <2> QED
    BY <1>1, <1>2, <2>1, Shortened, AcksShortened, AcksFinite DEF Types, AcksCounted
<1> HIDE DEF d
<1>10. /\ Cardinality(Acks(down')) = Cardinality(Acks(down)) - (IF d = Ack THEN 1 ELSE 0)
       /\ connected'
  <2>1. Acks(down') = Acks(Tail(down))
    BY <1>2
  <2>2. Cardinality(Acks(down)) \in Nat
    BY <1>1, AcksFinite DEF Types
  <2> QED
    BY <2>1, <2>2, <1>2, <1>3
<1>4. /\ writes \in Seq(Written) /\ events \in Seq(Messages) /\ arrived \in 0 .. Len(writes)
      /\ cache \in [app : Posts \cup {Nil, Unknown}, remove : Ids \cup {Nil, Unknown}]
      /\ cache.app \in Posts \cup {Nil, Unknown}
  BY <1>1 DEF Types
<1>5. Numbered' /\ KeepsUp' /\ TextSinceReply'
  BY <1>1, <1>2 DEF Numbered, KeepsUp, TextSinceReply
<1>6. Awaited' <=> Awaited
  BY <1>2 DEF Awaited
<1>7. CASE d = Ack
  <2>1. /\ writes' = Tail(writes) /\ arrived' = arrived - 1 /\ cache' = cache
        /\ events' = IF app = "open" THEN Raise(events, cache.app, Tail(writes)) ELSE events
    BY <1>3, <1>7, ValuesAre DEF Receive, d
  <2>2. arrived \in 1 .. Len(writes) /\ writes # <<>>
    BY <1>1, <1>3, <1>4, <1>7 DEF AcksCounted
  <2>3. /\ Tail(writes) \in Seq(Written) /\ Range(Tail(writes)) \subseteq Range(writes)
        /\ arrived - 1 \in 0 .. Len(Tail(writes))
    BY <1>4, <2>2, Shortened
  <2>4. Clear \notin Range(writes) => events' = events
    BY <2>1, <2>3 DEF Raise, View, Same
  <2>5. /\ events' \in Seq(Messages)
        /\ events' = events \/ cache.app # Unknown
    <3>1. CASE Clear \notin Range(writes)
      BY <2>4, <3>1, <1>4
    <3>2. CASE Clear \in Range(writes)
      <4>1. cache.app # Unknown
        BY <1>1, <3>2 DEF Known
      <4>2. Value("app", View(cache.app, Tail(writes))) \in Messages
        BY <1>4, <4>1, ValuesAre DEF View
      <4>3. Raise(events, cache.app, Tail(writes)) \in Seq(Messages)
        BY <1>4, <4>2, RaiseIs
      <4> QED
        BY <1>4, <2>1, <4>1, <4>3
    <3> QED
      BY <3>1, <3>2
  <2>6. Types'
    BY <1>1, <1>2, <1>3, <2>1, <2>3, <2>5 DEF Types
  <2>7. AcksCounted'
    BY <1>1, <1>7, <1>10, <2>1 DEF AcksCounted
  <2>8. Known'
    BY <1>1, <2>1, <2>3, <2>5 DEF Known
  <2>9. Unerased'
    BY <1>1, <1>2, <1>3, <1>6, <2>1, <2>3, <2>4 DEF Unerased
  <2> QED
    BY <1>5, <2>6, <2>7, <2>8, <2>9 DEF DeskInv
<1>8. CASE d # Ack /\ d.slot = "app"
  <2>1. /\ cache' = [cache EXCEPT !.app = d.val] /\ events' = Raise(events, d.val, writes)
        /\ writes' = writes /\ arrived' = arrived
    BY <1>8 DEF Receive, d
  <2>2. d.val \in Posts \cup {Nil} /\ d.val # Unknown
    BY <1>3, <1>8, ValuesAre
  <2>3. /\ cache' \in [app : Posts \cup {Nil, Unknown}, remove : Ids \cup {Nil, Unknown}]
        /\ cache'.app = d.val
    BY <1>4, <2>1, <2>2
  <2>4. /\ events' \in Seq(Messages)
        /\ Range(events') \subseteq Range(events) \cup {Value("app", View(d.val, writes))}
    <3>1. Value("app", View(d.val, writes)) \in Messages
      BY <2>2, ValuesAre DEF View
    <3>2. /\ Raise(events, d.val, writes) \in Seq(Messages)
          /\ \/ Raise(events, d.val, writes) = events
             \/ Range(Raise(events, d.val, writes)) = Range(events) \cup {Value("app", View(d.val, writes))}
      BY <1>4, <3>1, RaiseIs
    <3> QED
      BY <2>1, <3>2
  <2>5. Types'
    BY <1>1, <1>2, <1>3, <2>1, <2>3, <2>4 DEF Types
  <2>6. AcksCounted' /\ Known'
    <3>1. Cardinality(Acks(down')) = Cardinality(Acks(down))
      BY <1>1, <1>8, <1>10, AcksFinite DEF Types
    <3> QED
      BY <1>1, <1>10, <2>1, <2>2, <2>3, <3>1 DEF AcksCounted, Known
  <2>7. Unerased'
    <3>1. SUFFICES ASSUME Awaited' PROVE Unerased'
      BY DEF Unerased
    <3>2. /\ app = "open" /\ Clear \notin Range(writes)
          /\ \A e \in Range(down) \cup Range(events) : e.slot = "app" => e.val = server.app
      BY <1>1, <1>6, <3>1 DEF Unerased
    <3>3. d.val = server.app /\ View(d.val, writes) = server.app
      BY <1>3, <1>8, <3>2 DEF View
    <3>4. /\ Range(down') \subseteq Range(down)
          /\ Range(events') \subseteq Range(events) \cup {Value("app", server.app)}
      BY <1>2, <1>3, <2>4, <3>3
    <3>5. \A e \in Range(down') \cup Range(events') : e.slot = "app" => e.val = server.app
      BY <3>2, <3>4 DEF Value
    <3> QED
      BY <1>2, <2>1, <2>3, <3>2, <3>3, <3>5 DEF Unerased
  <2> QED
    BY <1>5, <2>5, <2>6, <2>7 DEF DeskInv
<1>9. CASE d # Ack /\ d.slot = "remove"
  <2>1. /\ cache' = [cache EXCEPT !.remove = d.val]
        /\ events' = (IF d.val = cache.remove THEN events ELSE Append(events, d))
        /\ writes' = writes /\ arrived' = arrived
    BY <1>9 DEF Receive, d
  <2>2. d.val \in Ids \cup {Nil} /\ d \in Messages
    BY <1>3, <1>9, ValuesAre
  <2>3. /\ cache' \in [app : Posts \cup {Nil, Unknown}, remove : Ids \cup {Nil, Unknown}]
        /\ cache'.app = cache.app
    BY <1>4, <2>1, <2>2
  <2>4. events' \in Seq(Messages) /\ Range(events') \subseteq Range(events) \cup {d}
    BY <1>4, <2>1, <2>2, Extended
  <2>5. Types'
    BY <1>1, <1>2, <1>3, <2>1, <2>3, <2>4 DEF Types
  <2>6. AcksCounted'
    <3>1. Cardinality(Acks(down')) = Cardinality(Acks(down))
      BY <1>1, <1>9, <1>10, AcksFinite DEF Types
    <3> QED
      BY <1>1, <1>10, <2>1, <3>1 DEF AcksCounted
  <2>7. Known'
    BY <1>1, <1>9, <2>1, <2>3, <2>4 DEF Known
  <2>8. Unerased'
    BY <1>1, <1>2, <1>3, <1>6, <1>9, <2>1, <2>3, <2>4 DEF Unerased
  <2> QED
    BY <1>5, <2>5, <2>6, <2>7, <2>8 DEF DeskInv
<1> QED
  BY <1>3, <1>7, <1>8, <1>9, ValuesAre

\* The app is gone.
LEMMA DiesKeeps ==
  ASSUME DeskInv, Dies, count' \in [Counted -> Nat], \A x \in Counted : count'[x] <= Bound[x],
         count'["post"] = count["post"]
  PROVE  DeskInv'
<1>1. Types /\ AcksCounted /\ Known /\ Numbered /\ Unerased /\ KeepsUp /\ TextSinceReply
  BY DEF DeskInv
<1>2. /\ app' = "dead" /\ connected' = FALSE /\ arrived' = 0 /\ down' = <<>> /\ events' = <<>>
      /\ notifData' = [i \in Ids |-> Nil] /\ since' = [i \in Ids |-> {}] /\ safe' = {}
      /\ UNCHANGED <<server, cache, writes, center, shown, lost>>
  BY DEF Dies
<1>3. Types'
  <2>1. /\ down' \in Seq(Messages \cup {Ack}) /\ events' \in Seq(Messages)
        /\ arrived' \in 0 .. Len(writes)
    BY <1>1, <1>2 DEF Types
  <2>2. /\ notifData' \in [Ids -> Shows \cup {Nil}]
        /\ since' \in [Ids -> SUBSET (Texts \ {NoText})]
    BY <1>2
  <2> QED
    BY <1>1, <1>2, <2>1, <2>2 DEF Types
<1>4. AcksCounted' /\ Known' /\ Numbered'
  BY <1>1, <1>2, NoAcks, RangeEmpty DEF AcksCounted, Known, Numbered
<1>5. KeepsUp' /\ TextSinceReply'
  BY <1>1, <1>2 DEF KeepsUp, TextSinceReply
<1>6. Unerased'
  BY <1>2 DEF Unerased, Awaited
<1> QED
  BY <1>3, <1>4, <1>5, <1>6 DEF DeskInv

LEMMA KillKeeps ==
  ASSUME DeskInv, Kill
  PROVE  DeskInv'
<1>1. Types /\ Counts("kill") /\ Dies
  BY DEF DeskInv, Kill
<1>2. /\ count' \in [Counted -> Nat] /\ \A x \in Counted : count'[x] <= Bound[x]
      /\ count'["post"] = count["post"]
  BY <1>1, CountsUp DEF Counted
<1> QED
  BY <1>1, <1>2, DiesKeeps

\* The observers are added.
LEMMA ViewDidLoadKeeps ==
  ASSUME DeskInv, viewDidLoad
  PROVE  DeskInv'
<1> DEFINE v == View(cache.app, writes)
           p == IF v = Unknown THEN <<>> ELSE <<Value("app", v)>>
           q == IF cache.remove = Unknown THEN <<>> ELSE <<Value("remove", cache.remove)>>
<1>1. Types /\ AcksCounted /\ Known /\ Numbered /\ Unerased /\ KeepsUp /\ TextSinceReply
  BY DEF DeskInv
<1>2. /\ app = "dead" /\ app' = "open" /\ events' = p \o q
      /\ UNCHANGED <<server, connected, cache, writes, arrived, down, notifData, center, count,
                     shown, lost, safe, since>>
  BY DEF viewDidLoad, histVars
<1>3. /\ cache.app \in Posts \cup {Nil, Unknown} /\ cache.remove \in Ids \cup {Nil, Unknown}
      /\ v \in Posts \cup {Nil, Unknown}
  BY <1>1 DEF Types, View
<1>4. p \in Seq(Messages) /\ q \in Seq(Messages)
  BY <1>3, ValuesAre
<1>5. \A e \in Range(p \o q) : e.slot = "app" => v # Unknown
  <2>1. CASE v # Unknown
    BY <2>1
  <2>2. CASE v = Unknown
    <3>1. p \o q = q
      BY <2>2, <1>4
    <3>2. \A e \in Range(q) : e.slot = "remove"
      BY RangeEmpty DEF Value
    <3> QED
      BY <3>1, <3>2
  <2> QED
    BY <2>1, <2>2
<1>6. p \o q \in Seq(Messages)
  BY <1>4
<1> HIDE DEF p, q
<1>7. Types'
  BY <1>1, <1>2, <1>6 DEF Types
<1>8. Known'
  BY <1>1, <1>2, <1>5 DEF Known, View
<1>9. AcksCounted' /\ Numbered' /\ KeepsUp' /\ TextSinceReply'
  BY <1>1, <1>2 DEF AcksCounted, Numbered, KeepsUp, TextSinceReply
<1>10. Unerased'
  BY <1>1, <1>2 DEF Unerased, Awaited
<1> QED
  BY <1>7, <1>8, <1>9, <1>10 DEF DeskInv

\* The window is closed.
LEMMA ViewDidDisappearKeeps ==
  ASSUME DeskInv, viewDidDisappear
  PROVE  DeskInv'
<1>1. Types /\ AcksCounted /\ Known /\ Numbered /\ Unerased /\ KeepsUp /\ TextSinceReply
  BY DEF DeskInv
<1>2. /\ app' = "closed" /\ events' = <<>> /\ down' = [k \in 1 .. arrived |-> Ack] /\ safe' = {}
      /\ UNCHANGED <<server, connected, cache, writes, arrived, notifData, center, count,
                     shown, lost, since>>
  BY DEF viewDidDisappear
<1>3. arrived \in Nat
  BY <1>1 DEF Types
<1>4. /\ down' \in Seq(Messages \cup {Ack}) /\ Cardinality(Acks(down')) = arrived
      /\ arrived = 0 => down' = <<>>
  BY <1>2, <1>3, AcksOnly
<1>5. Types'
  BY <1>1, <1>2, <1>4 DEF Types
<1>6. AcksCounted' /\ Known' /\ Numbered' /\ KeepsUp' /\ TextSinceReply'
  BY <1>1, <1>2, <1>4, RangeEmpty DEF AcksCounted, Known, Numbered, KeepsUp, TextSinceReply
<1>7. Unerased'
  BY <1>2 DEF Unerased, Awaited
<1> QED
  BY <1>5, <1>6, <1>7 DEF DeskInv

\* The observer of "app" clears the slot, whatever it shows; the head of the
\* waiting calls is its own.
LEMMA SetNilKeeps ==
  ASSUME DeskInv, events # <<>>, Head(events).slot = "app", setNil
  PROVE  /\ writes' \in Seq(Written) /\ Len(writes') = Len(writes) + 1
         /\ events' \in Seq(Messages) /\ cache.app # Unknown
         /\ Head(events).val \in Posts \cup {Nil}
         /\ Awaited => Head(events).val = server.app
<1>1. /\ writes \in Seq(Written) /\ events \in Seq(Messages) /\ Known /\ Unerased
      /\ writes' = Append(writes, Clear)
      /\ events' = Raise(Tail(events), cache.app, Append(writes, Clear))
  BY DEF DeskInv, Types, setNil
<1>2. Head(events) \in Messages /\ Head(events) \in Range(events) /\ Tail(events) \in Seq(Messages)
  BY <1>1, Shortened
<1>3. Head(events).val \in Posts \cup {Nil}
  BY <1>2, ValuesAre
<1>4. cache.app # Unknown /\ (Awaited => Head(events).val = server.app)
  BY <1>1, <1>2 DEF Known, Unerased
<1>5. Clear \in Written
  BY DEF Written
<1>6. /\ writes' \in Seq(Written) /\ Len(writes') = Len(writes) + 1
      /\ Range(Append(writes, Clear)) = Range(writes) \cup {Clear}
  BY <1>1, <1>5, Extended
<1>7. Value("app", View(cache.app, Append(writes, Clear))) \in Messages
  BY <1>6, ValuesAre DEF View, Clear
<1>8. events' \in Seq(Messages)
  BY <1>1, <1>2, <1>7, RaiseIs
<1> QED
  BY <1>3, <1>4, <1>6, <1>8

\* What is shown is a text, to which the message is added.
LEMMA Adds ==
  ASSUME NEW n \in Shows, NEW m, m.text \in Texts \ {NoText}
  PROVE  /\ AddText(n, m) \in Shows /\ Range(AddText(n, m).text) = Range(n.text) \cup {m.text}
<1>1. n.app \in {x.app : x \in Sent} /\ n.text \in Seq(Texts \ {NoText}) /\ n = [app |-> n.app, text |-> n.text]
  BY DEF Shows, Texts
<1>2. CASE n.text = <<m.text>>
  BY <1>1, <1>2, RangeEmpty DEF AddText
<1>3. CASE n.text # <<m.text>>
  <2>1. AddText(n, m) = [app |-> n.app, text |-> Append(n.text, m.text)]
    BY <1>1, <1>3 DEF AddText
  <2>2. /\ Append(n.text, m.text) \in Seq(Texts \ {NoText})
        /\ Range(Append(n.text, m.text)) = Range(n.text) \cup {m.text}
    BY <1>1, Extended
  <2> QED
    BY <1>1, <2>1, <2>2 DEF Shows, Texts
<1> QED
  BY <1>2, <1>3

LEMMA Starts ==
  ASSUME NEW m \in Posts, m.text # NoText
  PROVE  /\ [app |-> m.app, text |-> <<m.text>>] \in Shows
         /\ Range([app |-> m.app, text |-> <<m.text>>].text) = {m.text}
<1>1. m.app \in {x.app : x \in Sent} /\ m.text \in Texts \ {NoText}
  BY ValuesAre
<1>2. <<m.text>> \in Seq(Texts \ {NoText})
  BY <1>1
<1>3. Range(<<m.text>>) = {m.text}
  BY RangeEmpty
<1> QED
  BY <1>1, <1>2, <1>3 DEF Shows, Texts

\* msgListener.
LEMMA MsgListenerKeeps ==
  ASSUME DeskInv, msgListener
  PROVE  DeskInv'
<1> DEFINE v == Head(events).val
<1>1. Types /\ AcksCounted /\ Known /\ Numbered /\ Unerased /\ KeepsUp /\ TextSinceReply
  BY DEF DeskInv
<1>2. app = "open" /\ events # <<>> /\ Head(events).slot = "app" /\ count' = count
  BY DEF msgListener
<1>3. CASE Dies
  <2>1. /\ count' \in [Counted -> Nat] /\ \A x \in Counted : count'[x] <= Bound[x]
        /\ count'["post"] = count["post"]
    BY <1>1, <1>2 DEF Types
  <2> QED
    BY <1>3, <2>1, DiesKeeps
<1>4. ASSUME setNil, UNCHANGED <<server, app, connected, cache, arrived, down, lost, safe>>,
             shown \subseteq shown', v = Nil \/ v.num \in shown',
             notifData' \in [Ids -> Shows \cup {Nil}], center' \in [Ids -> Shows \cup {Nil}],
             since' \in [Ids -> SUBSET (Texts \ {NoText})], TextSinceReply'
      PROVE  DeskInv'
  <2>1. /\ writes' \in Seq(Written) /\ Len(writes') = Len(writes) + 1
        /\ events' \in Seq(Messages) /\ cache.app # Unknown
        /\ Awaited => v = server.app
    BY <1>2, <1>4, SetNilKeeps
  <2> HIDE DEF v
  <2>2. Types'
    <3>1. arrived' \in 0 .. Len(writes')
      BY <1>1, <1>4, <2>1 DEF Types
    <3> QED
      BY <1>1, <1>2, <1>4, <2>1, <3>1 DEF Types
  <2>3. AcksCounted' /\ Known' /\ Numbered' /\ KeepsUp'
    BY <1>1, <1>2, <1>4, <2>1 DEF AcksCounted, Known, Numbered, KeepsUp
  <2>4. ~Awaited'
    BY <1>4, <2>1 DEF Awaited
  <2>5. Unerased'
    BY <2>4 DEF Unerased
  <2> QED
    BY <1>4, <2>2, <2>3, <2>5 DEF DeskInv
<1>5. CASE /\ v # Nil /\ v.text # NoText /\ showNotification(v) /\ setNil
           /\ UNCHANGED <<server, app, connected, cache, arrived, down, lost, safe>>
  <2> DEFINE n == IF notifData[v.id] = Nil THEN [app |-> v.app, text |-> <<v.text>>]
                                           ELSE AddText(notifData[v.id], v)
  <2>1. v \in Posts /\ v.id \in Ids /\ v.text \in Texts \ {NoText}
    BY <1>2, <1>5, SetNilKeeps, ValuesAre
  <2>2. /\ notifData' = [notifData EXCEPT ![v.id] = n] /\ center' = [center EXCEPT ![v.id] = n]
        /\ shown' = shown \cup {v.num} /\ since' = [since EXCEPT ![v.id] = since[v.id] \cup {v.text}]
    BY <1>5 DEF showNotification
  <2>3. /\ notifData \in [Ids -> Shows \cup {Nil}] /\ center \in [Ids -> Shows \cup {Nil}]
        /\ since \in [Ids -> SUBSET (Texts \ {NoText})]
        /\ since[v.id] = IF notifData[v.id] = Nil THEN {} ELSE Range(notifData[v.id].text)
    BY <1>1, <2>1 DEF Types, TextSinceReply
  <2> HIDE DEF v
  <2>4. n \in Shows /\ n # Nil /\ Range(n.text) = since[v.id] \cup {v.text}
    <3>1. CASE notifData[v.id] = Nil
      BY <2>1, <2>3, <3>1, <1>5, Starts, ValuesAre
    <3>2. CASE notifData[v.id] # Nil
      <4>1. notifData[v.id] \in Shows /\ n = AddText(notifData[v.id], v)
        BY <2>1, <2>3, <3>2
      <4>2. n \in Shows /\ Range(n.text) = Range(notifData[v.id].text) \cup {v.text}
        BY <2>1, <4>1, Adds
      <4> QED
        BY <2>3, <3>2, <4>2, ValuesAre
    <3> QED
      BY <3>1, <3>2
  <2> HIDE DEF n
  <2>5. /\ notifData' \in [Ids -> Shows \cup {Nil}] /\ center' \in [Ids -> Shows \cup {Nil}]
        /\ since' \in [Ids -> SUBSET (Texts \ {NoText})]
    BY <2>1, <2>2, <2>3, <2>4
  <2>6. TextSinceReply'
    <3>1. SUFFICES ASSUME NEW i \in Ids
                   PROVE since'[i] = IF notifData'[i] = Nil THEN {} ELSE Range(notifData'[i].text)
      BY DEF TextSinceReply
    <3>2. CASE i = v.id
      <4>1. notifData'[i] = n /\ since'[i] = since[v.id] \cup {v.text}
        BY <2>1, <2>2, <2>3, <3>2
      <4> QED
        BY <4>1, <2>4
    <3>3. CASE i # v.id
      <4>1. notifData'[i] = notifData[i] /\ since'[i] = since[i]
        BY <2>1, <2>2, <2>3, <3>3
      <4> QED
        BY <4>1, <1>1 DEF TextSinceReply
    <3> QED
      BY <3>2, <3>3
  <2> QED
    BY <1>4, <1>5, <2>2, <2>5, <2>6
<1>6. CASE /\ v = Nil /\ setNil
           /\ UNCHANGED <<server, app, connected, cache, arrived, down, notifData, center,
                          shown, lost, safe, since>>
  <2>1. /\ notifData' \in [Ids -> Shows \cup {Nil}] /\ center' \in [Ids -> Shows \cup {Nil}]
        /\ since' \in [Ids -> SUBSET (Texts \ {NoText})] /\ TextSinceReply'
    BY <1>1, <1>6 DEF Types, TextSinceReply
  <2> QED
    BY <1>4, <1>6, <2>1
<1> QED
  BY <1>3, <1>5, <1>6 DEF msgListener, histVars

\* notificationRemoveListener.
LEMMA RemoveListenerKeeps ==
  ASSUME DeskInv, notificationRemoveListener
  PROVE  DeskInv'
<1>1. Types /\ AcksCounted /\ Known /\ Numbered /\ Unerased /\ KeepsUp /\ TextSinceReply
  BY DEF DeskInv
<1>2. /\ events # <<>> /\ events' = Tail(events)
      /\ center' = [i \in Ids |-> IF i = Head(events).val THEN Nil ELSE center[i]]
      /\ UNCHANGED <<server, app, connected, cache, writes, arrived, down, notifData, count,
                     shown, lost, safe, since>>
  BY DEF notificationRemoveListener, histVars
<1>3. Tail(events) \in Seq(Messages) /\ Range(Tail(events)) \subseteq Range(events)
  BY <1>1, <1>2, Shortened DEF Types
<1>4. center' \in [Ids -> Shows \cup {Nil}]
  BY <1>1, <1>2 DEF Types
<1>5. Types'
  BY <1>1, <1>2, <1>3, <1>4 DEF Types
<1>6. AcksCounted' /\ Known' /\ Numbered' /\ KeepsUp' /\ TextSinceReply'
  BY <1>1, <1>2, <1>3 DEF AcksCounted, Known, Numbered, KeepsUp, TextSinceReply
<1>7. Unerased'
  BY <1>1, <1>2, <1>3 DEF Unerased, Awaited
<1> QED
  BY <1>5, <1>6, <1>7 DEF DeskInv

\* The user replies.
LEMMA DidActivateKeeps ==
  ASSUME DeskInv, NEW i \in Ids, NEW answer \in Answers, didActivate(i, answer)
  PROVE  DeskInv'
<1> DEFINE r == Response(i, answer)
<1>1. Types /\ AcksCounted /\ Known /\ Numbered /\ Unerased /\ KeepsUp /\ TextSinceReply
  BY DEF DeskInv
<1>2. /\ center[i] # Nil /\ Counts("reply") /\ writes' = Append(writes, Value("desktop", r))
      /\ notifData' = [notifData EXCEPT ![i] = Nil] /\ center' = [center EXCEPT ![i] = Nil]
      /\ since' = [since EXCEPT ![i] = {}]
      /\ UNCHANGED <<server, app, connected, cache, arrived, down, events, shown, lost, safe>>
  BY DEF didActivate, removeValue
<1>3. /\ count' \in [Counted -> Nat] /\ \A x \in Counted : count'[x] <= Bound[x]
      /\ count'["post"] = count["post"] /\ count["reply"] + 1 \in 1 .. MaxReplies
  BY <1>1, <1>2, CountsUp DEF Counted, Bound
<1>4. r \in Replies
  <2>1. center[i] \in Shows
    BY <1>1, <1>2 DEF Types
  <2>2. center[i].app \in {m.app : m \in Sent}
    BY <2>1 DEF Shows
  <2> QED
    BY <1>3, <2>2 DEF Response, Replies
<1> HIDE DEF r
<1>5. Value("desktop", r) \in Written /\ Value("desktop", r) # Clear
  BY <1>4 DEF Written, Clear, Value
<1>6. /\ writes' \in Seq(Written) /\ Len(writes') = Len(writes) + 1
      /\ Range(writes') = Range(writes) \cup {Value("desktop", r)} /\ writes \in Seq(Written)
  BY <1>1, <1>2, <1>5, Extended DEF Types
<1>7. /\ notifData' \in [Ids -> Shows \cup {Nil}] /\ center' \in [Ids -> Shows \cup {Nil}]
      /\ since' \in [Ids -> SUBSET (Texts \ {NoText})]
  BY <1>1, <1>2 DEF Types
<1>8. Types'
  <2>1. arrived' \in 0 .. Len(writes')
    BY <1>1, <1>2, <1>6 DEF Types
  <2> QED
    BY <1>1, <1>2, <1>3, <1>6, <1>7, <2>1 DEF Types
<1>9. Clear \in Range(writes') <=> Clear \in Range(writes)
  BY <1>5, <1>6
<1>10. AcksCounted' /\ Known' /\ Numbered' /\ KeepsUp'
  BY <1>1, <1>2, <1>3, <1>9 DEF AcksCounted, Known, Numbered, KeepsUp
<1>11. TextSinceReply'
  BY <1>1, <1>2 DEF Types, TextSinceReply
<1>12. Unerased'
  BY <1>1, <1>2, <1>9 DEF Unerased, Awaited
<1> QED
  BY <1>8, <1>10, <1>11, <1>12 DEF DeskInv

-----------------------------------------------------------------------------
(* The theorem.                                                            *)

LEMMA InitKeeps == DeskInit => DeskInv
<1> SUFFICES ASSUME DeskInit PROVE DeskInv
  OBVIOUS
<1>1. /\ server = [app |-> Nil, remove |-> Nil, desktop |-> Nil] /\ app = "dead" /\ connected = FALSE
      /\ cache = [app |-> Unknown, remove |-> Unknown] /\ writes = <<>> /\ arrived = 0
      /\ down = <<>> /\ events = <<>> /\ notifData = [i \in Ids |-> Nil]
      /\ center = [i \in Ids |-> Nil] /\ count = [c \in Counted |-> 0]
      /\ shown = {} /\ lost = {} /\ safe = {} /\ since = [i \in Ids |-> {}]
  BY DEF DeskInit
<1>2. Types
  <2>1. \A c \in Counted : 0 <= Bound[c]
    BY DesktopAssumption DEF Counted, Bound
  <2>2. /\ server \in [app : Posts \cup {Nil}, remove : Ids \cup {Nil}, desktop : Replies \cup {Nil}]
        /\ cache \in [app : Posts \cup {Nil, Unknown}, remove : Ids \cup {Nil, Unknown}]
    BY <1>1
  <2>3. /\ writes \in Seq(Written) /\ arrived \in 0 .. Len(writes)
        /\ down \in Seq(Messages \cup {Ack}) /\ events \in Seq(Messages)
    BY <1>1
  <2>4. /\ notifData \in [Ids -> Shows \cup {Nil}] /\ center \in [Ids -> Shows \cup {Nil}]
        /\ since \in [Ids -> SUBSET (Texts \ {NoText})]
    BY <1>1
  <2>5. count \in [Counted -> Nat] /\ \A c \in Counted : count[c] <= Bound[c]
    BY <1>1, <2>1
  <2> QED
    BY <1>1, <2>2, <2>3, <2>4, <2>5 DEF Types
<1>3. AcksCounted /\ Known /\ Numbered /\ Unerased /\ KeepsUp /\ TextSinceReply
  BY <1>1, NoAcks, RangeEmpty DEF AcksCounted, Known, Numbered, Unerased, Awaited, KeepsUp, TextSinceReply
<1> QED
  BY <1>2, <1>3 DEF DeskInv

LEMMA NextKeeps == DeskInv /\ [DeskNext]_deskVars => DeskInv'
<1> SUFFICES ASSUME DeskInv, [DeskNext]_deskVars PROVE DeskInv'
  OBVIOUS
<1>1. CASE UNCHANGED deskVars
  <2>1. UNCHANGED <<server, app, connected, cache, writes, arrived, down, events, notifData, center,
                    count, shown, lost, safe, since>>
    BY <1>1 DEF deskVars, clientVars, histVars
  <2>2. Types' /\ AcksCounted' /\ Known' /\ Numbered' /\ KeepsUp' /\ TextSinceReply'
    BY <2>1 DEF DeskInv, Types, AcksCounted, Known, Numbered, KeepsUp, TextSinceReply
  <2>3. Unerased'
    BY <2>1 DEF DeskInv, Unerased, Awaited
  <2> QED
    BY <2>2, <2>3 DEF DeskInv
<1> QED
  BY <1>1, PostKeeps, RemoveIdKeeps, OnDataChangeKeeps, ConnectKeeps, DisconnectKeeps, ApplyKeeps,
     ReceiveKeeps, KillKeeps, ViewDidLoadKeeps, ViewDidDisappearKeeps, MsgListenerKeeps,
     RemoveListenerKeeps, DidActivateKeeps
     DEF DeskNext

LEMMA InvShown == DeskInv => ShownRight
<1> SUFFICES ASSUME Types PROVE DeskTypeOK
  BY DEF DeskInv, ShownRight
<1>1. Range(writes) \subseteq Written
  BY DEF Types, Range
<1>2. \A c \in Counted : count[c] \in 0 .. Bound[c]
  <2>1. \A c \in Counted : count[c] \in Nat /\ count[c] <= Bound[c] /\ Bound[c] \in Nat
    BY DesktopAssumption DEF Types, Counted, Bound
  <2> QED
    BY <2>1
<1> QED
  BY <1>1, <1>2 DEF Types, DeskTypeOK, Written

\* The client shows what it should: no notification written while it keeps up
\* is erased unseen, and a text is what came since the last reply (ViewController
\* lines 27-35, 50-76 and 92).
THEOREM ShownRightHolds == DeskSpec => []ShownRight
BY InitKeeps, NextKeeps, InvShown, PTL DEF DeskSpec
=============================================================================
