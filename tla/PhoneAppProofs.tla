--------------------------- MODULE PhoneAppProofs ---------------------------
(***************************************************************************)
(* Proofs about the Android app, for every set of phones, titles, ids and  *)
(* notifications and every value of the bounds: first about the service    *)
(* alone (NotificationListener), then about the activity and the service   *)
(* together, what the switches show at rest, what the service does after   *)
(* the broadcasts, and what it has registered and greeted.                 *)
(***************************************************************************)
EXTENDS PhoneApp, SequenceTheorems, WellFoundedInduction, TLAPS

\* A bound service has an object.
Bound == phase # "down" => cur \in Instances

\* The inductive invariant.  PrefsMirror and NotifyListens speak of the object
\* cur, which Bound says there is; RelayRoutes rests on HashMapRoutes.
IInv == TypeOK /\ Bound /\ PrefsMirror /\ NotifyListens /\ HashMapRoutes /\ RelayRoutes

USE PhoneAssumption, ListenerAssumption, EnvironmentAssumption

-----------------------------------------------------------------------------
(* Types of the pieces the actions are built from.                         *)

\* Quiet is one of the values of out and is not a relay.
LEMMA QuietType == Quiet \in {Quiet} \cup Replies \cup Writes /\ Quiet.kind # "relay"
BY DEF Quiet

\* A notification of one of the two apps with a title belongs to a
\* conversation, which handleNotifyNotifications and
\* handleConversationalBot take their reply action to.
LEMMA ConvType ==
    ASSUME NEW n \in Notifications, n.app \in Apps, n.title # NoTitle
    PROVE  /\ n.title \in Titles
           /\ IdOf[n.title] \in Ids
           /\ ConvOf(n) \in Convs
           /\ ConvOf(n).title = n.title
           /\ ReplyAction(n) \in {ConvOf(n), None}
<1>1. n \in Sbn
  OBVIOUS
<1>2. n.title \in Titles
  BY <1>1 DEF Sbn
<1> QED
  BY <1>2 DEF ConvOf, ReplyAction, Convs

\* A reply of the desktop carries the id of the sender it names.
LEMMA DesktopType ==
    ASSUME NEW v \in DesktopReplies
    PROVE  v.app \in Apps /\ v.name \in Titles /\ v.id = IdOf[v.name] /\ v.id \in Ids
BY DEF DesktopReplies

-----------------------------------------------------------------------------
(* The invariant holds initially.                                          *)

LEMMA InitIInv == Init => IInv
<1> SUFFICES ASSUME Init PROVE IInv
  OBVIOUS
<1> USE DEF Init, PhoneInit
<1>1. AllOff \in [Modes -> BOOLEAN]
  BY DEF AllOff
<1>2. PhoneTypeOK
  BY <1>1 DEF PhoneTypeOK, Prefs
<1>3. TypeOK
  BY <1>1, <1>2, QuietType DEF TypeOK, NoneListed, EmptyMap
<1>4. HashMapRoutes
  BY DEF HashMapRoutes, EmptyMap
<1>5. RelayRoutes
  BY QuietType DEF RelayRoutes
<1> QED
  BY <1>3, <1>4, <1>5 DEF IInv, Bound, PrefsMirror, NotifyListens

\* ... and again when the process dies.
LEMMA DiesIInv ==
    ASSUME IInv, NEW c \in Deaths, Dies(c)
    PROVE  IInv'
<1> USE DEF Dies, PhoneDies, historyVars
<1>1. AllOff \in [Modes -> BOOLEAN]
  BY DEF AllOff
<1>2. PhoneTypeOK'
  BY DEF IInv, TypeOK, PhoneTypeOK
<1>3. TypeOK'
  BY <1>1, <1>2, QuietType DEF IInv, TypeOK, NoneListed, EmptyMap
<1>4. HashMapRoutes'
  BY DEF HashMapRoutes, EmptyMap
<1>5. RelayRoutes'
  BY QuietType DEF RelayRoutes
<1> QED
  BY <1>3, <1>4, <1>5 DEF IInv, Bound, PrefsMirror, NotifyListens

-----------------------------------------------------------------------------
(* The life cycle of the service.                                          *)

\* onCreate, onListenerConnected and onDestroy keep the invariant: the flags
\* are read and the observer is registered when the object connects.
LEMMA LifecycleIInv ==
    ASSUME IInv, onCreate \/ onListenerConnected \/ onDestroy
    PROVE  IInv'
<1> USE DEF IInv, replyVars, historyVars
<1>1. CASE onCreate
  <2>1. TypeOK'
    BY <1>1, QuietType DEF onCreate, TypeOK, PhoneTypeOK, Instances
  <2>2. Bound' /\ PrefsMirror' /\ NotifyListens'
    BY <1>1 DEF onCreate, TypeOK, Bound, PrefsMirror, NotifyListens, Instances
  <2>3. HashMapRoutes' /\ RelayRoutes'
    BY <1>1, QuietType DEF onCreate, HashMapRoutes, RelayRoutes
  <2> QED
    BY <2>1, <2>2, <2>3
<1>2. CASE onListenerConnected
  <2> USE <1>2 DEF onListenerConnected, SavedFlags, connectToFirebase
  <2>1. cur \in Instances /\ prefs.on \in [Modes -> BOOLEAN]
          /\ prefs.phone \in Phones \cup {NoPhone}
    BY DEF Bound, TypeOK, PhoneTypeOK, Prefs
  <2>2. TypeOK'
    BY <2>1, QuietType, SMTT(30) DEF TypeOK, PhoneTypeOK
  <2>3. Bound' /\ PrefsMirror' /\ NotifyListens'
    BY <2>1 DEF TypeOK, Bound, PrefsMirror, NotifyListens, Modes
  <2>4. HashMapRoutes' /\ RelayRoutes'
    BY QuietType DEF HashMapRoutes, RelayRoutes
  <2> QED
    BY <2>2, <2>3, <2>4
<1>3. CASE onDestroy
  <2>1. CASE Dies("disconnect: reference")
    BY <2>1, DiesIInv DEF Deaths
  <2>2. CASE ~Dies("disconnect: reference")
    <3>1. /\ phase' = "down"
          /\ intents' = <<>>
          /\ out' = Quiet
          /\ UNCHANGED <<proc, prefs, disk, cur, enabled, phoneNumber,
                         reference, hashMap, replyTo, tasks, greeted, mirrored>>
      BY <1>3, <2>2 DEF onDestroy
    <3>2. /\ listed' = listed \/ listed' = [listed EXCEPT ![cur] = NoneListed]
          /\ removeEventListener \/ UNCHANGED observers
      BY <1>3, <2>2 DEF onDestroy
    <3>3. TypeOK'
      <4>1. NoneListed \in [Apps -> SUBSET Titles]
        BY DEF NoneListed
      <4>2. listed' \in [Instances -> [Apps -> SUBSET Titles]]
        BY <3>2, <4>1 DEF TypeOK
      <4>3. observers' \in [Instances -> Nat]
        <5>1. cur \in Instances
          BY <1>3 DEF onDestroy, Bound
        <5>2. observers[cur] \in Nat
          BY <5>1 DEF TypeOK
        <5> QED
          BY <3>2, <5>2 DEF TypeOK, removeEventListener
      <4>4. PhoneTypeOK'
        BY <3>1 DEF TypeOK, PhoneTypeOK
      <4> QED
        BY <3>1, <4>2, <4>3, <4>4, QuietType DEF TypeOK
    <3>4. Bound' /\ PrefsMirror' /\ NotifyListens'
      BY <3>1 DEF Bound, PrefsMirror, NotifyListens
    <3>5. HashMapRoutes' /\ RelayRoutes'
      BY <3>1, QuietType DEF HashMapRoutes, RelayRoutes
    <3> QED
      BY <3>3, <3>4, <3>5
  <2> QED
    BY <2>1, <2>2
<1> QED
  BY <1>1, <1>2, <1>3

\* A delivered broadcast keeps the invariant: the flag and its preference
\* change together, and "notify on" leaves a registration behind.
LEMMA ReceiveIInv ==
    ASSUME IInv, onReceive
    PROVE  IInv'
<1> USE DEF IInv
<1> DEFINE m == Head(intents)
<1>1. CASE Dies("receive: editor") \/ Dies("receive: reference")
  BY <1>1, DiesIInv DEF Deaths
<1>2. CASE ~(Dies("receive: editor") \/ Dies("receive: reference"))
  <2>1. /\ phase = "connected"
        /\ intents # <<>>
        /\ SetFlag(m)
        /\ putBoolean(m)
        /\ IF m.mode # "notify" THEN UNCHANGED <<reference, observers>>
           ELSE IF m.on THEN connectToFirebase(phoneNumber[cur])
           ELSE removeEventListener /\ UNCHANGED reference
        /\ listed' = [listed EXCEPT ![cur] =
                        [a \in Apps |-> IF m.mode = a /\ ~m.on THEN {} ELSE @[a]]]
        /\ intents' = Tail(intents)
        /\ out' = Quiet
        /\ UNCHANGED <<proc, disk, phase, cur, phoneNumber, hashMap,
                       replyTo, tasks, greeted, mirrored>>
    BY <1>2 DEF onReceive, historyVars
  <2>2. m \in Intents /\ Tail(intents) \in Seq(Intents)
    BY <2>1, HeadTailProperties DEF TypeOK, PhoneTypeOK
  <2>3. m.mode \in Modes /\ m.on \in BOOLEAN
    BY <2>2 DEF Intents
  <2>4. cur \in Instances
    BY <2>1 DEF Bound
  <2> HIDE DEF m
  <2>5. prefs' \in Prefs /\ prefs'.on = [prefs.on EXCEPT ![m.mode] = m.on]
    BY <2>1, <2>3 DEF putBoolean, TypeOK, PhoneTypeOK, Prefs
  <2>6. PhoneTypeOK'
    BY <2>1, <2>2, <2>5 DEF TypeOK, PhoneTypeOK
  <2>7. /\ enabled' \in [Instances -> [Modes -> BOOLEAN]]
        /\ enabled'[cur] = [enabled[cur] EXCEPT ![m.mode] = m.on]
    BY <2>1, <2>3, <2>4 DEF SetFlag, TypeOK
  <2>8. /\ reference' \in [Instances -> Phones \cup {NoPhone, NoRef}]
        /\ observers' \in [Instances -> Nat]
        /\ listed' \in [Instances -> [Apps -> SUBSET Titles]]
    BY <2>1, <2>4 DEF TypeOK, connectToFirebase, removeEventListener
  <2>9. TypeOK'
    BY <2>1, <2>6, <2>7, <2>8, QuietType DEF TypeOK
  <2>10. PrefsMirror'
    BY <2>1, <2>5, <2>7 DEF PrefsMirror
  <2>11. NotifyListens'
    <3>1. CASE m.mode = "notify" /\ m.on
      BY <2>1, <2>4, <2>8, <3>1 DEF NotifyListens, connectToFirebase, TypeOK
    <3>2. CASE m.mode = "notify" /\ ~m.on
      BY <2>3, <2>4, <2>7, <2>1, <3>2 DEF NotifyListens, TypeOK
    <3>3. CASE m.mode # "notify"
      BY <2>1, <2>3, <2>4, <2>7, <3>3 DEF NotifyListens, TypeOK, Modes
    <3> QED
      BY <2>3, <3>1, <3>2, <3>3
  <2>12. Bound' /\ HashMapRoutes' /\ RelayRoutes'
    BY <2>1, QuietType DEF Bound, HashMapRoutes, RelayRoutes
  <2> QED
    BY <2>9, <2>10, <2>11, <2>12
<1> QED
  BY <1>1, <1>2

-----------------------------------------------------------------------------
(* Notifications, desktop replies and answers.                             *)

\* Whatever reply() does, the lists, the map and the histories keep their
\* types and no map entry is refiled; what it sends is what it was asked to.
LEMMA ReplyType ==
    ASSUME IInv, NEW i \in Instances, NEW kind \in {"greeting", "answer", "relay"},
           NEW via \in Convs \cup {None}, NEW app \in Apps, NEW title \in Titles,
           NEW key, reply(i, kind, via, app, title, key)
    PROVE  /\ listed' \in [Instances -> [Apps -> SUBSET Titles]]
           /\ hashMap' \in [Instances -> [Ids -> Convs \cup {None}]]
           /\ greeted' \in SUBSET Convs
           /\ out' \in {Quiet} \cup Replies
           /\ \/ out' = Quiet
              \/ /\ via # None
                 /\ out' = [kind |-> kind, via |-> via, app |-> app, title |-> title]
           /\ HashMapRoutes'
<1> USE DEF IInv, TypeOK
<1>1. CASE /\ out' = Quiet
           /\ UNCHANGED <<listed, hashMap, greeted>>
  BY <1>1 DEF HashMapRoutes
<1>2. CASE /\ via # None
           /\ out' = [kind |-> kind, via |-> via, app |-> app, title |-> title]
           /\ greeted' = IF kind = "greeting" THEN greeted \cup {via} ELSE greeted
           /\ IF enabled[i]["notify"]
                THEN /\ hashMap' = [hashMap EXCEPT ![i] =
                            [id \in Ids |-> IF id = key THEN None ELSE @[id]]]
                     /\ UNCHANGED listed
                ELSE /\ listed' = [listed EXCEPT ![i][app] = @ \cup {title}]
                     /\ UNCHANGED hashMap
  <2>1. via \in Convs
    BY <1>2
  <2>2. out' \in Replies
    BY <1>2, <2>1 DEF Replies
  <2>3. greeted' \in SUBSET Convs
    BY <1>2, <2>1
  <2>4. CASE enabled[i]["notify"]
    <3> DEFINE without == [id \in Ids |-> IF id = key THEN None ELSE hashMap[i][id]]
    <3>1. hashMap' = [hashMap EXCEPT ![i] = without] /\ listed' = listed
      BY <1>2, <2>4
    <3>2. without \in [Ids -> Convs \cup {None}]
      OBVIOUS
    <3>3. \A id \in Ids : without[id] \in {hashMap[i][id], None}
      OBVIOUS
    <3> HIDE DEF without
    <3>4. hashMap' \in [Instances -> [Ids -> Convs \cup {None}]]
      BY <3>1, <3>2
    <3>5. \A j \in Instances, id \in Ids : hashMap'[j][id] \in {hashMap[j][id], None}
      BY <3>1, <3>3
    <3> QED
      BY <2>2, <2>3, <1>2, <3>1, <3>4, <3>5 DEF HashMapRoutes
  <2>5. CASE ~enabled[i]["notify"]
    <3>1. hashMap' = hashMap
      BY <1>2, <2>5
    <3>2. listed' = [listed EXCEPT ![i] = [listed[i] EXCEPT ![app] = @ \cup {title}]]
      BY <1>2, <2>5
    <3>3. [listed[i] EXCEPT ![app] = @ \cup {title}] \in [Apps -> SUBSET Titles]
      OBVIOUS
    <3>4. listed' \in [Instances -> [Apps -> SUBSET Titles]]
      BY <3>2, <3>3
    <3> QED
      BY <2>2, <2>3, <1>2, <3>1, <3>4 DEF HashMapRoutes
  <2> QED
    BY <2>4, <2>5
<1> QED
  BY <1>1, <1>2 DEF reply

\* The greeting, the bot's query and the mirroring keep the invariant: a reply
\* action is filed under its own sender's id.
LEMMA PostedIInv ==
    ASSUME IInv, NEW n \in Notifications, onNotificationPosted(n)
    PROVE  IInv'
<1> USE DEF IInv
<1>1. /\ phase = "connected"
      /\ handleAssistBotNotifications(n) \/ handleNotifyNotifications(n)
      /\ UNCHANGED <<proc, prefs, disk, phase, intents, cur, enabled,
                     phoneNumber, reference, observers>>
  BY DEF onNotificationPosted, phoneVars, objectVars
<1>2. PhoneTypeOK' /\ Bound' /\ PrefsMirror' /\ NotifyListens'
  BY <1>1 DEF TypeOK, PhoneTypeOK, Bound, PrefsMirror, NotifyListens
<1>3. cur \in Instances
  BY <1>1 DEF Bound
<1>4. CASE n.app \in Apps /\ n.title \in listed[cur][n.app] /\ handleConversationalBot(n)
  <2>1. n.title \in Titles
    BY <1>3, <1>4 DEF TypeOK
  <2>2. n.title # NoTitle
    BY <2>1
  <2>3. ConvOf(n) \in Convs
    BY <1>4, <2>2, ConvType
  <2>4. /\ replyTo' \in {replyTo, [replyTo EXCEPT ![cur] = ConvOf(n)]}
        /\ tasks' \in {tasks, Append(tasks, [owner |-> cur, app |-> n.app,
                                             title |-> n.title])}
        /\ out' = Quiet
        /\ UNCHANGED <<listed, hashMap, greeted, mirrored>>
    BY <1>4 DEF handleConversationalBot, historyVars
  <2>5. [owner |-> cur, app |-> n.app, title |-> n.title] \in Tasks
    BY <1>3, <1>4, <2>1 DEF Tasks
  <2>6. tasks' \in Seq(Tasks)
    <3>1. tasks \in Seq(Tasks)
      BY DEF TypeOK
    <3>2. Append(tasks, [owner |-> cur, app |-> n.app, title |-> n.title]) \in Seq(Tasks)
      BY <2>5, <3>1, AppendProperties
    <3> QED
      BY <2>4, <3>1, <3>2
  <2>7. replyTo' \in [Instances -> Convs \cup {None}]
    BY <2>3, <2>4 DEF TypeOK
  <2>8. TypeOK'
    BY <1>1, <1>2, <2>4, <2>6, <2>7, QuietType DEF TypeOK
  <2>9. HashMapRoutes' /\ RelayRoutes'
    BY <2>4, QuietType DEF HashMapRoutes, RelayRoutes
  <2> QED
    BY <1>2, <2>8, <2>9
<1>5. CASE /\ n.app \in Apps
           /\ n.title # NoTitle
           /\ reply(cur, "greeting", ReplyAction(n), n.app, n.title, NoTitle)
           /\ UNCHANGED <<replyTo, tasks, mirrored>>
  <2>1. n.title \in Titles /\ ReplyAction(n) \in Convs \cup {None}
    BY <1>5, ConvType
  <2>2. /\ listed' \in [Instances -> [Apps -> SUBSET Titles]]
        /\ hashMap' \in [Instances -> [Ids -> Convs \cup {None}]]
        /\ greeted' \in SUBSET Convs
        /\ out' \in {Quiet} \cup Replies
        /\ out' = Quiet \/ out'.kind = "greeting"
        /\ HashMapRoutes'
    BY <1>3, <1>5, <2>1, ReplyType
  <2>3. RelayRoutes'
    BY <2>2, QuietType DEF RelayRoutes
  <2>4. TypeOK'
    BY <1>1, <1>2, <1>5, <2>2 DEF TypeOK
  <2> QED
    BY <1>2, <2>2, <2>3, <2>4
<1>6. CASE handleNotifyNotifications(n)
  <2>1. /\ n.app \in Apps
        /\ n.title # NoTitle
        /\ out' = [kind |-> "app", app |-> n.app, name |-> n.title,
                   id |-> IdOf[n.title], text |-> n.text]
        /\ hashMap' = [hashMap EXCEPT ![cur][IdOf[n.title]] = ReplyAction(n)]
        /\ mirrored' = mirrored \cup {ConvOf(n)}
        /\ UNCHANGED <<listed, replyTo, tasks, greeted>>
    BY <1>6 DEF handleNotifyNotifications
  <2>2. /\ n.title \in Titles
        /\ IdOf[n.title] \in Ids
        /\ ConvOf(n) \in Convs
        /\ ConvOf(n).title = n.title
        /\ ReplyAction(n) \in {ConvOf(n), None}
    BY <2>1, ConvType
  <2>3. n.text \in {"plain", "new message", "new messages", "null"}
    BY DEF Sbn
  <2>4. out' \in Writes /\ out'.kind = "app"
    BY <2>1, <2>2, <2>3 DEF Writes
  <2>5. hashMap' \in [Instances -> [Ids -> Convs \cup {None}]]
    BY <2>1, <2>2 DEF TypeOK
  <2>6. TypeOK'
    BY <1>1, <1>2, <2>1, <2>2, <2>4, <2>5 DEF TypeOK
  <2>7. HashMapRoutes'
    BY <1>3, <2>1, <2>2 DEF HashMapRoutes, TypeOK
  <2>8. RelayRoutes'
    BY <2>4 DEF RelayRoutes
  <2> QED
    BY <1>2, <2>6, <2>7, <2>8
<1> QED
  BY <1>1, <1>4, <1>5, <1>6 DEF handleAssistBotNotifications

\* A dismissal kills the process or writes "remove/id"; nothing else changes.
LEMMA RemovedIInv ==
    ASSUME IInv, NEW n \in Notifications, onNotificationRemoved(n)
    PROVE  IInv'
<1> USE DEF IInv
<1>1. CASE Dies("removed")
  BY <1>1, DiesIInv DEF Deaths
<1>2. CASE ~Dies("removed")
  <2>1. /\ n.app \in Apps
        /\ n.title # NoTitle
        /\ out' = [kind |-> "remove", id |-> IdOf[n.title]]
        /\ UNCHANGED <<proc, prefs, disk, phase, intents, cur, enabled, phoneNumber,
                       reference, observers, listed, hashMap, replyTo, tasks,
                       greeted, mirrored>>
    BY <1>2 DEF onNotificationRemoved, phoneVars, objectVars, replyVars, historyVars
  <2>2. IdOf[n.title] \in Ids
    BY <2>1, ConvType
  <2>3. out' \in Writes /\ out'.kind = "remove"
    BY <2>1, <2>2 DEF Writes
  <2>4. TypeOK'
    BY <2>1, <2>3 DEF TypeOK, PhoneTypeOK
  <2>5. Bound' /\ PrefsMirror' /\ NotifyListens'
    BY <2>1 DEF Bound, PrefsMirror, NotifyListens
  <2>6. HashMapRoutes' /\ RelayRoutes'
    BY <2>1, <2>3 DEF HashMapRoutes, RelayRoutes
  <2> QED
    BY <2>4, <2>5, <2>6
<1> QED
  BY <1>1, <1>2

\* A desktop reply finds, under its id, a conversation with that id.
LEMMA DataChangeIInv ==
    ASSUME IInv, NEW i \in Instances, NEW v \in DesktopReplies, onDataChange(i, v)
    PROVE  IInv'
<1> USE DEF IInv
<1> DEFINE via == hashMap[i][v.id]
<1>1. /\ via # None
      /\ reply(i, "relay", via, v.app, v.name, v.id)
      /\ UNCHANGED <<proc, prefs, disk, phase, intents, cur, enabled, phoneNumber,
                     reference, observers, replyTo, tasks, mirrored>>
  BY DEF onDataChange, phoneVars, objectVars
<1>2. v.app \in Apps /\ v.name \in Titles /\ v.id = IdOf[v.name] /\ v.id \in Ids
  BY DesktopType
<1>3. via \in Convs \cup {None} /\ IdOf[via.title] = v.id
  BY <1>1, <1>2 DEF TypeOK, HashMapRoutes
<1> HIDE DEF via
<1>4. /\ listed' \in [Instances -> [Apps -> SUBSET Titles]]
      /\ hashMap' \in [Instances -> [Ids -> Convs \cup {None}]]
      /\ greeted' \in SUBSET Convs
      /\ out' \in {Quiet} \cup Replies
      /\ \/ out' = Quiet
         \/ out' = [kind |-> "relay", via |-> via, app |-> v.app, title |-> v.name]
      /\ HashMapRoutes'
  BY <1>1, <1>2, <1>3, ReplyType
<1>5. RelayRoutes'
  BY <1>2, <1>3, <1>4, QuietType DEF RelayRoutes
<1>6. TypeOK'
  BY <1>1, <1>4 DEF TypeOK, PhoneTypeOK
<1>7. Bound' /\ PrefsMirror' /\ NotifyListens'
  BY <1>1 DEF Bound, PrefsMirror, NotifyListens
<1> QED
  BY <1>4, <1>5, <1>6, <1>7

\* An answer of api.ai is sent or dropped.
LEMMA PostExecuteIInv ==
    ASSUME IInv, onPostExecute
    PROVE  IInv'
<1> USE DEF IInv
<1> DEFINE t == Head(tasks)
<1>1. /\ tasks # <<>>
      /\ \/ out' = Quiet /\ UNCHANGED <<listed, hashMap, greeted>>
         \/ reply(t.owner, "answer", replyTo[t.owner], t.app, t.title, t.title)
      /\ tasks' = Tail(tasks)
      /\ UNCHANGED <<proc, prefs, disk, phase, intents, cur, enabled, phoneNumber,
                     reference, observers, replyTo, mirrored>>
  BY DEF onPostExecute, phoneVars, objectVars
<1>2. t \in Tasks /\ Tail(tasks) \in Seq(Tasks)
  BY <1>1, HeadTailProperties DEF TypeOK
<1>3. t.owner \in Instances /\ t.app \in Apps /\ t.title \in Titles
  BY <1>2 DEF Tasks
<1> HIDE DEF t
<1>4. /\ listed' \in [Instances -> [Apps -> SUBSET Titles]]
      /\ hashMap' \in [Instances -> [Ids -> Convs \cup {None}]]
      /\ greeted' \in SUBSET Convs
      /\ out' \in {Quiet} \cup Replies
      /\ out' = Quiet \/ out'.kind = "answer"
      /\ HashMapRoutes'
  <2>1. CASE out' = Quiet /\ UNCHANGED <<listed, hashMap, greeted>>
    BY <2>1 DEF TypeOK, HashMapRoutes
  <2>2. CASE reply(t.owner, "answer", replyTo[t.owner], t.app, t.title, t.title)
    <3>1. replyTo[t.owner] \in Convs \cup {None}
      BY <1>3 DEF TypeOK
    <3> QED
      BY <1>3, <2>2, <3>1, ReplyType
  <2> QED
    BY <1>1, <2>1, <2>2
<1>5. RelayRoutes'
  BY <1>4, QuietType DEF RelayRoutes
<1>6. TypeOK'
  BY <1>1, <1>2, <1>4 DEF TypeOK, PhoneTypeOK
<1>7. Bound' /\ PrefsMirror' /\ NotifyListens'
  BY <1>1 DEF Bound, PrefsMirror, NotifyListens
<1> QED
  BY <1>4, <1>5, <1>6, <1>7

-----------------------------------------------------------------------------
(* The rest of the system, and the theorems.                               *)

\* Broadcasts sent to the service, writes to the preference file, the login,
\* a restart and a kill keep the invariant.
LEMMA EnvironmentIInv ==
    ASSUME IInv,
           \/ /\ Flush \/ Restart \/ \E p \in Phones : SaveLogin(p)
              /\ out' = Quiet
              /\ UNCHANGED <<objectVars, replyVars>>
           \/ Kill
           \/ \E m \in Toggles : Toggle(m)
    PROVE  IInv'
<1> USE DEF IInv
<1>1. CASE Kill
  BY <1>1, DiesIInv DEF Kill, Deaths
<1>2. CASE /\ Flush \/ Restart \/ \E p \in Phones : SaveLogin(p)
           /\ out' = Quiet
           /\ UNCHANGED <<objectVars, replyVars>>
  <2>1. /\ UNCHANGED <<phase, intents>>
        /\ UNCHANGED <<cur, enabled, phoneNumber, reference, observers, listed,
                       hashMap, replyTo, tasks, greeted, mirrored>>
    BY <1>2 DEF Flush, Restart, SaveLogin, objectVars, replyVars, historyVars
  <2>2. prefs' \in Prefs /\ prefs'.on = prefs.on
    BY <1>2 DEF Flush, Restart, SaveLogin, TypeOK, PhoneTypeOK, Prefs
  <2>3. PhoneTypeOK'
    BY <1>2, <2>1, <2>2 DEF Flush, Restart, SaveLogin, TypeOK, PhoneTypeOK
  <2>4. TypeOK'
    BY <1>2, <2>1, <2>3, QuietType DEF TypeOK
  <2>5. Bound' /\ PrefsMirror' /\ NotifyListens'
    BY <2>1, <2>2 DEF Bound, PrefsMirror, NotifyListens
  <2>6. HashMapRoutes' /\ RelayRoutes'
    BY <1>2, <2>1, QuietType DEF HashMapRoutes, RelayRoutes
  <2> QED
    BY <2>4, <2>5, <2>6
<1>3. ASSUME NEW m \in Toggles, Toggle(m) PROVE IInv'
  <2>1. /\ intents' = intents \/ intents' = Append(intents, m)
        /\ out' = Quiet
        /\ UNCHANGED <<proc, prefs, disk, phase, cur, enabled, phoneNumber, reference,
                       observers, listed, hashMap, replyTo, tasks, greeted, mirrored>>
    BY <1>3 DEF Toggle, sendBroadcast, objectVars, replyVars, historyVars
  <2>2. intents' \in Seq(Intents)
    <3>1. m \in Intents /\ intents \in Seq(Intents)
      BY DEF TypeOK, PhoneTypeOK
    <3>2. Append(intents, m) \in Seq(Intents)
      BY <3>1, AppendProperties
    <3> QED
      BY <2>1, <3>1, <3>2
  <2>3. TypeOK'
    BY <2>1, <2>2, QuietType DEF TypeOK, PhoneTypeOK
  <2>4. Bound' /\ PrefsMirror' /\ NotifyListens'
    BY <2>1 DEF Bound, PrefsMirror, NotifyListens
  <2>5. HashMapRoutes' /\ RelayRoutes'
    BY <2>1, QuietType DEF HashMapRoutes, RelayRoutes
  <2> QED
    BY <2>3, <2>4, <2>5
<1> QED
  BY <1>1, <1>2, <1>3

\* Every step keeps the invariant.
LEMMA NextIInv == IInv /\ [Next]_vars => IInv'
<1> SUFFICES ASSUME IInv, [Next]_vars PROVE IInv'
  OBVIOUS
<1>1. CASE System
  BY <1>1, LifecycleIInv, EnvironmentIInv DEF System
<1>2. CASE Handlers
  BY <1>2, ReceiveIInv, PostedIInv, RemovedIInv, DataChangeIInv, PostExecuteIInv
  DEF Handlers
<1>3. CASE \E m \in Toggles : Toggle(m)
  BY <1>3, EnvironmentIInv
<1>4. CASE UNCHANGED vars
  <2>1. UNCHANGED <<proc, prefs, disk, phase, intents, cur, enabled, phoneNumber,
                    reference, observers, listed, hashMap, replyTo, tasks, greeted,
                    mirrored, out>>
    BY <1>4 DEF vars, phoneVars, listenerVars, objectVars, replyVars, historyVars
  <2> QED
    BY <2>1 DEF IInv, TypeOK, PhoneTypeOK, Bound, PrefsMirror, NotifyListens,
                HashMapRoutes, RelayRoutes
<1> QED
  BY <1>1, <1>2, <1>3, <1>4 DEF Next

\* The inductive invariant holds in every state the service can reach.
THEOREM Invariance == Spec => []IInv
BY InitIInv, NextIInv, PTL DEF Spec

\* Every field of the service keeps its type, through crashes, rebindings and
\* answers that arrive for objects that are gone.
THEOREM TypeCorrect == Spec => []TypeOK
<1>1. IInv => TypeOK
  BY DEF IInv
<1> QED
  BY <1>1, Invariance, PTL

\* A connected service always does what the preferences say.
THEOREM PrefsMirrorHolds == Spec => []PrefsMirror
<1>1. IInv => PrefsMirror
  BY DEF IInv
<1> QED
  BY <1>1, Invariance, PTL

\* A connected service in Notify mode always listens for desktop replies.
THEOREM NotifyListensHolds == Spec => []NotifyListens
<1>1. IInv => NotifyListens
  BY DEF IInv
<1> QED
  BY <1>1, Invariance, PTL

\* A desktop reply is only ever sent to a sender with the id it was typed for.
THEOREM RelayRoutesHolds == Spec => []RelayRoutes
<1>1. IInv => RelayRoutes
  BY DEF IInv
<1> QED
  BY <1>1, Invariance, PTL
-----------------------------------------------------------------------------
(* The bot only answers conversations that were greeted, as long as Notify *)
(* mode is not used.                                                       *)

Conv(a, t) == [app |-> a, title |-> t]

\* No trace of Notify mode: not in the flags, the preferences, the file or the
\* broadcasts, and nothing listens for desktop replies.
NotifyUnused ==
    /\ prefs.on["notify"] = FALSE
    /\ disk.on["notify"] = FALSE
    /\ \A i \in Instances : enabled[i]["notify"] = FALSE /\ observers[i] = 0
    /\ \A k \in 1 .. Len(intents) : intents[k].mode # "notify"

\* Whatever the bot's replies are made from has been greeted: the lists that
\* let a message through to it, the reply action in the fields, and the
\* conversations that wait for an answer (whose senders are listed again).
ListedGreeted ==
    \A i \in Instances, a \in Apps : \A t \in listed[i][a] : Conv(a, t) \in greeted
FieldsGreeted == \A i \in Instances : replyTo[i] = None \/ replyTo[i] \in greeted
TasksGreeted ==
    \A k \in 1 .. Len(tasks) : Conv(tasks[k].app, tasks[k].title) \in greeted

LastAnswerGreeted == out.kind = "answer" => out.via \in greeted

BotGreeted == ListedGreeted /\ FieldsGreeted /\ TasksGreeted /\ LastAnswerGreeted

GInv == NotifyUnused /\ BotGreeted

-----------------------------------------------------------------------------
\* Nothing has been greeted, listed or sent at the start.
LEMMA InitGInv == Init => GInv
<1> SUFFICES ASSUME Init PROVE GInv
  OBVIOUS
<1> USE DEF Init, PhoneInit
<1>1. NotifyUnused
  BY DEF NotifyUnused, AllOff, Modes
<1>2. ListedGreeted
  BY DEF ListedGreeted, NoneListed
<1>3. FieldsGreeted /\ TasksGreeted /\ LastAnswerGreeted
  BY DEF FieldsGreeted, TasksGreeted, LastAnswerGreeted, Quiet
<1> QED
  BY <1>1, <1>2, <1>3 DEF GInv, BotGreeted

\* A dying process leaves the preferences of the file, where Notify is off.
LEMMA DiesGInv ==
    ASSUME IInv, GInv, NEW c, Dies(c)
    PROVE  GInv'
<1> USE DEF Dies, PhoneDies, GInv, BotGreeted
<1>1. NotifyUnused'
  BY DEF NotifyUnused, AllOff, Modes
<1>2. ListedGreeted'
  BY DEF ListedGreeted, NoneListed
<1>3. FieldsGreeted' /\ TasksGreeted' /\ LastAnswerGreeted'
  BY DEF FieldsGreeted, TasksGreeted, LastAnswerGreeted, Quiet
<1> QED
  BY <1>1, <1>2, <1>3

\* Steps that send nothing, leave what the bot uses alone and at most shorten
\* the lists.
LEMMA QuietGreeted ==
    ASSUME BotGreeted, out' = Quiet,
           UNCHANGED <<replyTo, tasks, greeted>>,
           \A i \in Instances, a \in Apps : listed'[i][a] \subseteq listed[i][a]
    PROVE  BotGreeted'
BY DEF BotGreeted, ListedGreeted, FieldsGreeted, TasksGreeted, LastAnswerGreeted, Quiet

LEMMA QuietGInv ==
    ASSUME GInv, NotifyUnused', out' = Quiet,
           UNCHANGED <<replyTo, tasks, greeted>>,
           \A i \in Instances, a \in Apps : listed'[i][a] \subseteq listed[i][a]
    PROVE  GInv'
BY QuietGreeted DEF GInv

\* Binding, connecting and unbinding: the flags come from the preferences.
LEMMA LifecycleGInv ==
    ASSUME IInv, GInv, onCreate \/ onListenerConnected \/ onDestroy
    PROVE  GInv'
<1> USE DEF IInv, TypeOK
<1>1. CASE onCreate
  <2>1. NotifyUnused' /\ out' = Quiet /\ UNCHANGED <<listed, replyTo, tasks, greeted>>
    BY <1>1 DEF onCreate, replyVars, historyVars, NotifyUnused, GInv
  <2> QED
    BY <2>1, QuietGInv
<1>2. CASE onListenerConnected
  <2>1. ~prefs.on["notify"]
    BY DEF GInv, NotifyUnused
  <2>2. /\ enabled' = [enabled EXCEPT ![cur] = prefs.on]
        /\ out' = Quiet
        /\ UNCHANGED <<prefs, disk, intents, observers, listed, replyTo, tasks, greeted>>
    BY <1>2, <2>1 DEF onListenerConnected, SavedFlags, replyVars, historyVars
  <2>3. NotifyUnused'
    BY <2>2 DEF NotifyUnused, GInv
  <2> QED
    BY <2>2, <2>3, QuietGInv
<1>3. CASE onDestroy
  <2>1. CASE Dies("disconnect: reference")
    BY <2>1, DiesGInv
  <2>2. CASE ~Dies("disconnect: reference")
    <3>1. /\ intents' = <<>>
          /\ out' = Quiet
          /\ UNCHANGED <<prefs, disk, enabled, replyTo, tasks, greeted>>
          /\ listed' = listed \/ listed' = [listed EXCEPT ![cur] = NoneListed]
          /\ removeEventListener \/ UNCHANGED observers
          /\ cur \in Instances
      BY <1>3, <2>2 DEF onDestroy, historyVars, Bound
    <3>2. \A i \in Instances : observers'[i] = 0
      BY <3>1 DEF removeEventListener, GInv, NotifyUnused
    <3>3. NotifyUnused'
      BY <3>1, <3>2 DEF GInv, NotifyUnused
    <3>4. \A i \in Instances, a \in Apps : listed'[i][a] \subseteq listed[i][a]
      BY <3>1 DEF NoneListed
    <3> QED
      BY <3>1, <3>3, <3>4, QuietGInv
  <2> QED
    BY <2>1, <2>2
<1> QED
  BY <1>1, <1>2, <1>3

\* A delivered broadcast is not ENABLE_NOTIFY.
LEMMA ReceiveGInv ==
    ASSUME IInv, GInv, onReceive
    PROVE  GInv'
<1> DEFINE m == Head(intents)
<1>1. CASE Dies("receive: editor") \/ Dies("receive: reference")
  BY <1>1, DiesGInv
<1>2. CASE ~(Dies("receive: editor") \/ Dies("receive: reference"))
  <2>1. /\ phase = "connected"
        /\ intents # <<>>
        /\ SetFlag(m)
        /\ putBoolean(m)
        /\ m.mode # "notify" => UNCHANGED observers
        /\ listed' = [listed EXCEPT ![cur] =
                        [a \in Apps |-> IF m.mode = a /\ ~m.on THEN {} ELSE @[a]]]
        /\ intents' = Tail(intents)
        /\ out' = Quiet
        /\ UNCHANGED <<disk, replyTo, tasks, greeted>>
    BY <1>2 DEF onReceive, historyVars
  <2>2. /\ m \in Intents
        /\ m = intents[1]
        /\ Len(intents) > 0
        /\ Len(Tail(intents)) = Len(intents) - 1
        /\ \A k \in 1 .. Len(Tail(intents)) : Tail(intents)[k] = intents[k + 1]
    BY <2>1, HeadTailProperties DEF IInv, TypeOK, PhoneTypeOK
  <2>3. m.mode # "notify" /\ m.mode \in Modes
    <3>1. intents \in Seq(Intents) /\ 1 \in 1 .. Len(intents)
      BY <2>2, LenProperties DEF IInv, TypeOK, PhoneTypeOK
    <3> QED
      BY <2>2, <3>1 DEF GInv, NotifyUnused, Intents
  <2>4. cur \in Instances
    BY <2>1 DEF IInv, Bound
  <2>5. \A k \in 1 .. Len(intents') : intents'[k].mode # "notify"
    <3>1. Len(intents) \in Nat
      BY LenProperties DEF IInv, TypeOK, PhoneTypeOK
    <3> QED
      BY <2>1, <2>2, <3>1 DEF GInv, NotifyUnused
  <2> HIDE DEF m
  <2>6. prefs'.on["notify"] = FALSE
    <3>1. prefs'.on = [prefs.on EXCEPT ![m.mode] = m.on]
      BY <2>1 DEF putBoolean, IInv, TypeOK, PhoneTypeOK, Prefs
    <3> QED
      BY <2>3, <3>1 DEF GInv, NotifyUnused, IInv, TypeOK, PhoneTypeOK, Prefs, Modes
  <2>7. \A i \in Instances : enabled'[i]["notify"] = FALSE
    BY <2>1, <2>3, <2>4 DEF SetFlag, GInv, NotifyUnused, IInv, TypeOK, Modes
  <2>8. NotifyUnused'
    BY <2>1, <2>3, <2>5, <2>6, <2>7 DEF GInv, NotifyUnused
  <2>9. \A i \in Instances, a \in Apps : listed'[i][a] \subseteq listed[i][a]
    BY <2>1, <2>4 DEF IInv, TypeOK
  <2> QED
    BY <2>1, <2>8, <2>9, QuietGInv
<1> QED
  BY <1>1, <1>2

\* reply() in a conversation that is greeted unless this is its greeting, for a
\* sender in a conversation that then is greeted too.  (In Notify mode nobody is
\* listed.)
LEMMA ReplyGreeted ==
    ASSUME IInv, BotGreeted, NEW i \in Instances, NEW kind \in {"greeting", "answer"},
           NEW via \in Convs \cup {None}, NEW app \in Apps, NEW title \in Titles,
           NEW key, reply(i, kind, via, app, title, key),
           kind = "greeting" => via = None \/ via = Conv(app, title),
           kind = "answer" => (via = None \/ via \in greeted) /\ Conv(app, title) \in greeted
    PROVE  greeted \subseteq greeted' /\ ListedGreeted' /\ LastAnswerGreeted'
<1>1. CASE out' = Quiet /\ UNCHANGED <<listed, hashMap, greeted>>
  BY <1>1 DEF BotGreeted, ListedGreeted, LastAnswerGreeted, Quiet
<1>2. CASE /\ via # None
           /\ out' = [kind |-> kind, via |-> via, app |-> app, title |-> title]
           /\ greeted' = IF kind = "greeting" THEN greeted \cup {via} ELSE greeted
           /\ IF enabled[i]["notify"]
                THEN /\ hashMap' = [hashMap EXCEPT ![i] =
                            [id \in Ids |-> IF id = key THEN None ELSE @[id]]]
                     /\ UNCHANGED listed
                ELSE /\ listed' = [listed EXCEPT ![i][app] = @ \cup {title}]
                     /\ UNCHANGED hashMap
  <2>1. greeted \subseteq greeted' /\ Conv(app, title) \in greeted'
    BY <1>2
  <2>2. LastAnswerGreeted'
    BY <1>2 DEF LastAnswerGreeted
  <2>3. listed' = listed \/ listed' = [listed EXCEPT ![i][app] = @ \cup {title}]
    BY <1>2
  <2>4. listed \in [Instances -> [Apps -> SUBSET Titles]]
    BY DEF IInv, TypeOK
  <2>5. \A j \in Instances, a \in Apps : \A t \in listed'[j][a] :
            t \in listed[j][a] \/ (a = app /\ t = title)
    BY <2>3, <2>4
  <2>6. ListedGreeted'
    BY <2>1, <2>5 DEF BotGreeted, ListedGreeted
  <2> QED
    BY <2>1, <2>2, <2>6
<1> QED
  BY <1>1, <1>2 DEF reply

\* A greeting makes its conversation greeted; a query is only made, and its
\* reply action only kept, for a sender who is listed.
LEMMA PostedGreeted ==
    ASSUME IInv, BotGreeted, NEW n \in Notifications, onNotificationPosted(n)
    PROVE  BotGreeted'
<1>1. /\ phase = "connected"
      /\ handleAssistBotNotifications(n) \/ handleNotifyNotifications(n)
  BY DEF onNotificationPosted
<1>2. cur \in Instances
  BY <1>1 DEF IInv, Bound
<1>3. CASE handleNotifyNotifications(n)
  <2>1. out'.kind # "answer" /\ UNCHANGED <<listed, replyTo, tasks, greeted>>
    BY <1>3 DEF handleNotifyNotifications
  <2> QED
    BY <2>1 DEF BotGreeted, ListedGreeted, FieldsGreeted, TasksGreeted, LastAnswerGreeted
<1>5. CASE n.app \in Apps /\ n.title \in listed[cur][n.app] /\ handleConversationalBot(n)
  <2> DEFINE task == [owner |-> cur, app |-> n.app, title |-> n.title]
  <2>1. /\ replyTo' = replyTo \/ replyTo' = [replyTo EXCEPT ![cur] = ConvOf(n)]
        /\ tasks' = tasks \/ tasks' = Append(tasks, task)
        /\ out' = Quiet
        /\ UNCHANGED <<listed, greeted>>
    BY <1>5 DEF handleConversationalBot, historyVars
  <2>2. ConvOf(n) \in greeted /\ Conv(n.app, n.title) \in greeted
    BY <1>2, <1>5 DEF BotGreeted, ListedGreeted, Conv, ConvOf
  <2>3. FieldsGreeted'
    BY <1>2, <2>1, <2>2 DEF BotGreeted, FieldsGreeted, IInv, TypeOK
  <2>4. TasksGreeted'
    <3>1. CASE tasks' = tasks
      BY <2>1, <3>1 DEF BotGreeted, TasksGreeted
    <3>2. CASE tasks' = Append(tasks, task)
      <4>1. tasks \in Seq(Tasks) /\ Len(tasks) \in Nat
        BY LenProperties DEF IInv, TypeOK
      <4>2. task \in Tasks
        <5>1. n.title \in Titles
          BY <1>2, <1>5 DEF IInv, TypeOK
        <5> QED
          BY <1>2, <1>5, <5>1 DEF Tasks
      <4>3. /\ Len(tasks') = Len(tasks) + 1
            /\ \A k \in 1 .. Len(tasks) : tasks'[k] = tasks[k]
            /\ tasks'[Len(tasks) + 1] = task
        BY <3>2, <4>1, <4>2, AppendProperties
      <4>4. task.app = n.app /\ task.title = n.title
        OBVIOUS
      <4> HIDE DEF task
      <4>5. ASSUME NEW k \in 1 .. Len(tasks')
            PROVE  Conv(tasks'[k].app, tasks'[k].title) \in greeted'
        <5>1. CASE k \in 1 .. Len(tasks)
          BY <2>1, <4>3, <5>1 DEF BotGreeted, TasksGreeted
        <5>2. CASE k = Len(tasks) + 1
          BY <2>1, <2>2, <4>3, <4>4, <5>2
        <5> QED
          BY <4>1, <4>3, <5>1, <5>2
      <4> QED
        BY <4>5 DEF TasksGreeted
    <3> QED
      BY <2>1, <3>1, <3>2
  <2>5. ListedGreeted' /\ LastAnswerGreeted'
    BY <2>1 DEF BotGreeted, ListedGreeted, LastAnswerGreeted, Quiet
  <2> QED
    BY <2>3, <2>4, <2>5 DEF BotGreeted
<1>6. CASE /\ n.app \in Apps
           /\ n.title # NoTitle
           /\ reply(cur, "greeting", ReplyAction(n), n.app, n.title, NoTitle)
           /\ UNCHANGED <<replyTo, tasks, mirrored>>
  <2>1. n.title \in Titles /\ ReplyAction(n) \in Convs \cup {None}
    BY <1>6, ConvType
  <2>2. ReplyAction(n) = None \/ ReplyAction(n) = Conv(n.app, n.title)
    BY DEF ReplyAction, ConvOf, Conv
  <2>3. greeted \subseteq greeted' /\ ListedGreeted' /\ LastAnswerGreeted'
    BY <1>2, <1>6, <2>1, <2>2, ReplyGreeted
  <2>4. FieldsGreeted' /\ TasksGreeted'
    BY <1>6, <2>3 DEF BotGreeted, FieldsGreeted, TasksGreeted
  <2> QED
    BY <2>3, <2>4 DEF BotGreeted
<1> QED
  BY <1>1, <1>3, <1>5, <1>6 DEF handleAssistBotNotifications

\* An answer goes through the fields, which hold a greeted conversation.
LEMMA PostExecuteGreeted ==
    ASSUME IInv, BotGreeted, onPostExecute
    PROVE  BotGreeted'
<1> DEFINE t == Head(tasks)
<1>1. /\ tasks # <<>>
      /\ \/ out' = Quiet /\ UNCHANGED <<listed, hashMap, greeted>>
         \/ reply(t.owner, "answer", replyTo[t.owner], t.app, t.title, t.title)
      /\ tasks' = Tail(tasks)
      /\ UNCHANGED replyTo
  BY DEF onPostExecute
<1>2. /\ t \in Tasks
      /\ t = tasks[1]
      /\ Len(tasks) \in Nat /\ Len(tasks) > 0
      /\ Len(Tail(tasks)) = Len(tasks) - 1
      /\ \A k \in 1 .. Len(Tail(tasks)) : Tail(tasks)[k] = tasks[k + 1]
  BY <1>1, HeadTailProperties, LenProperties DEF IInv, TypeOK
<1>3. t.owner \in Instances /\ t.app \in Apps /\ t.title \in Titles
  BY <1>2 DEF Tasks
<1>4. Conv(t.app, t.title) \in greeted
  <2>1. 1 \in 1 .. Len(tasks)
    BY <1>2
  <2> QED
    BY <1>2, <2>1 DEF BotGreeted, TasksGreeted
<1>5. \A k \in 1 .. Len(tasks') : Conv(tasks'[k].app, tasks'[k].title) \in greeted
  BY <1>1, <1>2 DEF BotGreeted, TasksGreeted
<1> HIDE DEF t
<1>6. greeted \subseteq greeted' /\ ListedGreeted' /\ LastAnswerGreeted'
  <2>1. CASE out' = Quiet /\ UNCHANGED <<listed, hashMap, greeted>>
    BY <2>1 DEF BotGreeted, ListedGreeted, LastAnswerGreeted, Quiet
  <2>2. CASE reply(t.owner, "answer", replyTo[t.owner], t.app, t.title, t.title)
    <3>1. replyTo[t.owner] \in Convs \cup {None}
      BY <1>3 DEF IInv, TypeOK
    <3>2. replyTo[t.owner] = None \/ replyTo[t.owner] \in greeted
      BY <1>3 DEF BotGreeted, FieldsGreeted
    <3> QED
      BY <1>3, <1>4, <2>2, <3>1, <3>2, ReplyGreeted
  <2> QED
    BY <1>1, <2>1, <2>2
<1>7. FieldsGreeted' /\ TasksGreeted'
  BY <1>1, <1>5, <1>6 DEF BotGreeted, FieldsGreeted, TasksGreeted
<1> QED
  BY <1>6, <1>7 DEF BotGreeted

\* Every step keeps the invariant if no ENABLE_NOTIFY is sent.
LEMMA NextGInv ==
    ASSUME AssistOnly, IInv, GInv, [Next]_vars
    PROVE  GInv'
<1>1. CASE onCreate \/ onListenerConnected \/ onDestroy
  BY <1>1, LifecycleGInv
<1>2. CASE Kill
  BY <1>2, DiesGInv DEF Kill
<1>3. CASE /\ Flush \/ Restart \/ \E p \in Phones : SaveLogin(p)
           /\ out' = Quiet
           /\ UNCHANGED <<objectVars, replyVars>>
  <2>1. UNCHANGED <<intents, enabled, observers, listed, replyTo, tasks, greeted>>
    BY <1>3 DEF Flush, Restart, SaveLogin, objectVars, replyVars, historyVars
  <2>2. prefs'.on = prefs.on /\ disk'.on["notify"] = FALSE
    BY <1>3 DEF Flush, Restart, SaveLogin, GInv, NotifyUnused, IInv, TypeOK,
                PhoneTypeOK, Prefs
  <2>3. NotifyUnused'
    BY <2>1, <2>2 DEF GInv, NotifyUnused
  <2> QED
    BY <1>3, <2>1, <2>3, QuietGInv
<1>4. CASE onReceive
  BY <1>4, ReceiveGInv
<1>5. CASE \E n \in Notifications : onNotificationPosted(n)
  <2>1. BotGreeted'
    BY <1>5, PostedGreeted DEF GInv
  <2>2. NotifyUnused'
    BY <1>5 DEF onNotificationPosted, phoneVars, objectVars, GInv, NotifyUnused
  <2> QED
    BY <2>1, <2>2 DEF GInv
<1>6. CASE \E n \in Notifications : onNotificationRemoved(n)
  <2>1. phase = "connected" /\ enabled[cur]["notify"]
    BY <1>6 DEF onNotificationRemoved
  <2> QED
    BY <2>1 DEF IInv, Bound, GInv, NotifyUnused
<1>7. CASE \E i \in Instances, v \in DesktopReplies : onDataChange(i, v)
  BY <1>7 DEF onDataChange, GInv, NotifyUnused
<1>8. CASE onPostExecute
  <2>1. BotGreeted'
    BY <1>8, PostExecuteGreeted DEF GInv
  <2>2. NotifyUnused'
    BY <1>8 DEF onPostExecute, phoneVars, objectVars, GInv, NotifyUnused
  <2> QED
    BY <2>1, <2>2 DEF GInv
<1>9. ASSUME NEW m \in Toggles, Toggle(m) PROVE GInv'
  <2>1. /\ intents' = intents \/ intents' = Append(intents, m)
        /\ out' = Quiet
        /\ UNCHANGED <<prefs, disk, enabled, observers, listed, replyTo, tasks, greeted>>
    BY <1>9 DEF Toggle, sendBroadcast, objectVars, replyVars, historyVars
  <2>2. m \in Intents /\ m.mode # "notify" /\ intents \in Seq(Intents)
          /\ Len(intents) \in Nat
    BY EnvironmentAssumption, LenProperties DEF AssistOnly, IInv, TypeOK, PhoneTypeOK
  <2>3. \A k \in 1 .. Len(intents') : intents'[k].mode # "notify"
    <3>1. CASE intents' = intents
      BY <3>1 DEF GInv, NotifyUnused
    <3>2. CASE intents' = Append(intents, m)
      <4>1. /\ Len(intents') = Len(intents) + 1
            /\ \A k \in 1 .. Len(intents) : intents'[k] = intents[k]
            /\ intents'[Len(intents) + 1] = m
        BY <2>2, <3>2, AppendProperties
      <4>2. \A k \in 1 .. Len(intents') : k \in 1 .. Len(intents) \/ k = Len(intents) + 1
        BY <2>2, <4>1
      <4> QED
        BY <2>2, <4>1, <4>2 DEF GInv, NotifyUnused
    <3> QED
      BY <2>1, <3>1, <3>2
  <2>4. NotifyUnused'
    BY <2>1, <2>3 DEF GInv, NotifyUnused
  <2> QED
    BY <2>1, <2>4, QuietGInv
<1>10. CASE UNCHANGED vars
  <2>1. UNCHANGED <<prefs, disk, intents, enabled, observers, listed, replyTo, tasks,
                    greeted, out>>
    BY <1>10 DEF vars, phoneVars, listenerVars, objectVars, replyVars, historyVars
  <2> QED
    BY <2>1 DEF GInv, BotGreeted, NotifyUnused, ListedGreeted, FieldsGreeted, TasksGreeted,
                LastAnswerGreeted
<1> QED
  BY <1>1, <1>2, <1>3, <1>4, <1>5, <1>6, <1>7, <1>8, <1>9, <1>10
  DEF Next, System, Handlers

\* The bot only answers conversations that were sent the greeting, for every
\* order of messages, late answers, failed sends, toggles of the AssistBot
\* switches, rebindings and crashes.
THEOREM AnswersGreetedHolds == Spec => []AnswersGreeted
<1>1. CASE AssistOnly
  <2>1. IInv /\ GInv /\ [Next]_vars => GInv'
    BY <1>1, NextGInv
  <2>2. GInv => AnswersGreeted
    BY DEF GInv, BotGreeted, LastAnswerGreeted, AnswersGreeted
  <2> QED
    BY <2>1, <2>2, InitGInv, Invariance, PTL DEF Spec
<1>2. CASE ~AssistOnly
  <2>1. AnswersGreeted
    BY <1>2 DEF AnswersGreeted
  <2> QED
    BY <2>1, PTL
<1> QED
  BY <1>1, <1>2

-----------------------------------------------------------------------------
(***************************************************************************)
(* The app                                                                 *)
(***************************************************************************)

HIDE EnvironmentAssumption
HIDE ListenerAssumption
HIDE PhoneAssumption

-----------------------------------------------------------------------------
(* Statements and lists of them.                                           *)

\* The statements of a list.
Elems(q) == {q[k] : k \in DOMAIN q}

LEMMA ConcatElems ==
    ASSUME NEW S, NEW p \in Seq(S), NEW q \in Seq(S)
    PROVE  p \o q \in Seq(S) /\ Elems(p \o q) = Elems(p) \cup Elems(q)
<1>1. /\ p \o q \in Seq(S)
      /\ Len(p \o q) = Len(p) + Len(q)
      /\ \A k \in 1 .. Len(p) : (p \o q)[k] = p[k]
      /\ \A k \in 1 .. Len(q) : (p \o q)[Len(p) + k] = q[k]
      /\ Len(p) \in Nat /\ Len(q) \in Nat
  OBVIOUS
<1>2. DOMAIN p = 1 .. Len(p) /\ DOMAIN q = 1 .. Len(q) /\ DOMAIN (p \o q) = 1 .. Len(p) + Len(q)
  BY <1>1
<1>3. \A k \in 1 .. Len(p) + Len(q) :
          k \in 1 .. Len(p) \/ (k - Len(p) \in 1 .. Len(q) /\ k = Len(p) + (k - Len(p)))
  BY <1>1
<1>4. Elems(p \o q) \subseteq Elems(p) \cup Elems(q)
  BY <1>1, <1>2, <1>3 DEF Elems
<1>5. \A k \in 1 .. Len(p) : k \in 1 .. Len(p) + Len(q)
  BY <1>1
<1>6. \A k \in 1 .. Len(q) : Len(p) + k \in 1 .. Len(p) + Len(q)
  BY <1>1
<1>7. Elems(p) \subseteq Elems(p \o q)
  BY <1>1, <1>2, <1>5 DEF Elems
<1>8. Elems(q) \subseteq Elems(p \o q)
  BY <1>1, <1>2, <1>6 DEF Elems
<1> QED
  BY <1>1, <1>4, <1>7, <1>8

LEMMA HeadElems ==
    ASSUME NEW S, NEW q \in Seq(S), q # <<>>
    PROVE  /\ Head(q) \in S /\ Tail(q) \in Seq(S)
           /\ Elems(q) = {Head(q)} \cup Elems(Tail(q))
<1>1. /\ Head(q) \in S /\ Tail(q) \in Seq(S)
      /\ q[1] = Head(q) /\ Len(q) \in Nat /\ Len(q) > 0 /\ Len(Tail(q)) = Len(q) - 1
      /\ \A k \in 1 .. Len(Tail(q)) : Tail(q)[k] = q[k + 1]
  BY HeadTailProperties
<1>2. DOMAIN q = 1 .. Len(q) /\ DOMAIN Tail(q) = 1 .. Len(q) - 1
  BY <1>1
<1>3. \A k \in 1 .. Len(q) : k = 1 \/ (k - 1 \in 1 .. Len(q) - 1 /\ k = (k - 1) + 1)
  BY <1>1
<1>4. \A k \in 1 .. Len(q) - 1 : k + 1 \in 1 .. Len(q)
  BY <1>1
<1>5. 1 \in 1 .. Len(q)
  BY <1>1
<1>6. Elems(q) \subseteq {Head(q)} \cup Elems(Tail(q))
  <2>1. ASSUME NEW k \in 1 .. Len(q), k # 1
        PROVE  q[k] \in Elems(Tail(q))
    <3>1. k - 1 \in DOMAIN Tail(q) /\ Tail(q)[k - 1] = q[(k - 1) + 1] /\ (k - 1) + 1 = k
      BY <1>1, <1>2, <2>1
    <3> QED
      BY <3>1 DEF Elems
  <2> QED
    BY <1>1, <1>2, <2>1 DEF Elems
<1>7. {Head(q)} \cup Elems(Tail(q)) \subseteq Elems(q)
  BY <1>1, <1>2, <1>4, <1>5 DEF Elems
<1> QED
  BY <1>1, <1>6, <1>7

LEMMA NoElems == Elems(<<>>) = {}
BY DEF Elems

LEMMA TupleElems ==
    /\ \A a : Elems(<<a>>) = {a}
    /\ \A a, b : Elems(<<a, b>>) = {a, b}
    /\ \A a, b, c : Elems(<<a, b, c>>) = {a, b, c}
    /\ \A a, b, c, e : Elems(<<a, b, c, e>>) = {a, b, c, e}
BY DEF Elems

LEMMA OtherApp == Other("wa") = "fb" /\ Other("fb") = "wa"
BY DEF Other, Apps

\* setChecked(true) and setChecked(false), and what a listener then does.
SetOn(m) == Set(m, TRUE)
SetOff(m) == Set(m, FALSE)
TurnedOn(m) == onCheckedChanged(m, TRUE)
TurnedOff(m) == onCheckedChanged(m, FALSE)

\* Statements are what they are made of.
LEMMA StatementFields ==
    /\ \A m : SetOn(m).op = "set" /\ SetOn(m).sw = m /\ SetOn(m).on = TRUE
    /\ \A m : SetOff(m).op = "set" /\ SetOff(m).sw = m /\ SetOff(m).on = FALSE
    /\ \A op, m : Stmt(op, m).op = op /\ Stmt(op, m).sw = m
BY DEF SetOn, SetOff, Set, Stmt

LEMMA Distinct ==
    /\ \A m, n : (SetOn(m) = SetOn(n)) => m = n
    /\ \A m, n : (SetOff(m) = SetOff(n)) => m = n
    /\ \A m, n : SetOn(m) # SetOff(n)
    /\ \A m, n, op : op # "set" => SetOn(m) # Stmt(op, n) /\ SetOff(m) # Stmt(op, n)
    /\ \A op, oq, m, n : Stmt(op, m) = Stmt(oq, n) => op = oq /\ m = n
<1>1. /\ \A m, n : (SetOn(m) = SetOn(n)) => m = n
      /\ \A m, n : (SetOff(m) = SetOff(n)) => m = n
  BY StatementFields
<1>2. \A m, n : SetOn(m) # SetOff(n)
  BY StatementFields
<1>3. \A m, n, op : op # "set" => SetOn(m) # Stmt(op, n) /\ SetOff(m) # Stmt(op, n)
  BY StatementFields
<1>4. \A op, oq, m, n : Stmt(op, m) = Stmt(oq, n) => op = oq /\ m = n
  BY StatementFields
<1> QED
  BY <1>1, <1>2, <1>3, <1>4

LEMMA StatementTypes ==
    /\ \A m \in Modes : SetOn(m) \in Statements /\ SetOff(m) \in Statements
    /\ \A op \in {"setFrom", "ensureAssist", "dropAssist", "resetFrom", "return"},
          m \in Modes : Stmt(op, m) \in Statements
BY DEF SetOn, SetOff, Set, Stmt, Statements

LEMMA TupleTypes ==
    /\ <<>> \in Seq(Statements)
    /\ \A s \in Statements : <<s>> \in Seq(Statements)
    /\ \A s, t \in Statements : <<s, t>> \in Seq(Statements)
    /\ \A s, t, u \in Statements : <<s, t, u>> \in Seq(Statements)
    /\ \A s, t, u, v \in Statements : <<s, t, u, v>> \in Seq(Statements)
OBVIOUS

\* The switches have no listener but one of three.
LEMMA ListenerIs ==
    /\ TurnedOn("notify") = <<SetOff("assist"), SetOff("wa"), SetOff("fb")>> \o <<Stmt("return", "notify")>>
    /\ TurnedOff("notify") = <<>> \o <<Stmt("return", "notify")>>
    /\ TurnedOn("assist") = <<SetOff("notify"), Stmt("setFrom", "wa"), Stmt("setFrom", "fb"),
                              Stmt("resetFrom", "assist")>> \o <<Stmt("return", "assist")>>
    /\ TurnedOff("assist") = <<SetOff("wa"), SetOff("fb")>> \o <<Stmt("return", "assist")>>
    /\ \A a \in Apps :
        /\ TurnedOn(a) = <<Stmt("ensureAssist", a), SetOff("notify")>> \o <<Stmt("return", a)>>
        /\ TurnedOff(a) = <<Stmt("dropAssist", a)>> \o <<Stmt("return", a)>>
BY DEF TurnedOn, TurnedOff, SetOff, onCheckedChanged, NotifyListener, AssistListener, AppListener, Apps

LEMMA ModesAre ==
    /\ Apps = {"wa", "fb"} /\ Modes = {"assist", "notify", "wa", "fb"}
    /\ \A m \in Modes : m = "notify" \/ m = "assist" \/ m \in Apps
BY DEF Apps, Modes

LEMMA ListenerElems ==
    /\ \A m \in Modes : TurnedOn(m) \in Seq(Statements) /\ TurnedOff(m) \in Seq(Statements)
    /\ Elems(TurnedOn("notify")) =
            {SetOff("assist"), SetOff("wa"), SetOff("fb"), Stmt("return", "notify")}
    /\ Elems(TurnedOff("notify")) = {Stmt("return", "notify")}
    /\ Elems(TurnedOn("assist")) =
            {SetOff("notify"), Stmt("setFrom", "wa"), Stmt("setFrom", "fb"),
             Stmt("resetFrom", "assist"), Stmt("return", "assist")}
    /\ Elems(TurnedOff("assist")) = {SetOff("wa"), SetOff("fb"), Stmt("return", "assist")}
    /\ \A a \in Apps :
        /\ Elems(TurnedOn(a)) = {Stmt("ensureAssist", a), SetOff("notify"), Stmt("return", a)}
        /\ Elems(TurnedOff(a)) = {Stmt("dropAssist", a), Stmt("return", a)}
<1>1. ASSUME NEW p \in Seq(Statements), NEW m \in Modes
      PROVE  /\ p \o <<Stmt("return", m)>> \in Seq(Statements)
             /\ Elems(p \o <<Stmt("return", m)>>) = Elems(p) \cup {Stmt("return", m)}
  <2>1. Stmt("return", m) \in Statements
    BY StatementTypes
  <2> DEFINE r == <<Stmt("return", m)>>
  <2>2. r \in Seq(Statements) /\ Elems(r) = {Stmt("return", m)}
    BY <2>1, TupleTypes, TupleElems
  <2> HIDE DEF r
  <2>3. p \o r \in Seq(Statements) /\ Elems(p \o r) = Elems(p) \cup Elems(r)
    BY <2>2, ConcatElems
  <2> QED
    BY <2>2, <2>3 DEF r
<1>2. /\ "notify" \in Modes /\ "assist" \in Modes /\ "wa" \in Modes /\ "fb" \in Modes
      /\ \A a \in Apps : a \in Modes
  BY ModesAre
<1>3. /\ TurnedOn("notify") \in Seq(Statements)
      /\ Elems(TurnedOn("notify")) = {SetOff("assist"), SetOff("wa"), SetOff("fb")} \cup {Stmt("return", "notify")}
  <2>1. /\ <<SetOff("assist"), SetOff("wa"), SetOff("fb")>> \in Seq(Statements)
        /\ Elems(<<SetOff("assist"), SetOff("wa"), SetOff("fb")>>) = {SetOff("assist"), SetOff("wa"), SetOff("fb")}
    BY <1>2, StatementTypes, TupleTypes, TupleElems
  <2> QED
    BY <1>1, <1>2, <2>1, ListenerIs
<1>4. /\ TurnedOff("notify") \in Seq(Statements)
      /\ Elems(TurnedOff("notify")) = {} \cup {Stmt("return", "notify")}
  <2>1. <<>> \in Seq(Statements) /\ Elems(<<>>) = {}
    BY TupleTypes, NoElems
  <2>2. TurnedOff("notify") = <<>> \o <<Stmt("return", "notify")>>
    BY ListenerIs
  <2> QED
    BY <1>1, <1>2, <2>1, <2>2
<1>5. /\ TurnedOn("assist") \in Seq(Statements)
      /\ Elems(TurnedOn("assist")) =
            {SetOff("notify"), Stmt("setFrom", "wa"), Stmt("setFrom", "fb"),
             Stmt("resetFrom", "assist")} \cup {Stmt("return", "assist")}
  <2> DEFINE L == <<SetOff("notify"), Stmt("setFrom", "wa"), Stmt("setFrom", "fb"), Stmt("resetFrom", "assist")>>
  <2>1. /\ SetOff("notify") \in Statements /\ Stmt("setFrom", "wa") \in Statements
        /\ Stmt("setFrom", "fb") \in Statements /\ Stmt("resetFrom", "assist") \in Statements
    BY <1>2, StatementTypes
  <2>2. L \in Seq(Statements) /\ Elems(L) = {SetOff("notify"), Stmt("setFrom", "wa"), Stmt("setFrom", "fb"),
                                             Stmt("resetFrom", "assist")}
    BY <2>1, TupleTypes, TupleElems
  <2>3. TurnedOn("assist") = L \o <<Stmt("return", "assist")>>
    BY ListenerIs
  <2> HIDE DEF L
  <2> QED
    BY <1>1, <1>2, <2>2, <2>3
<1>6. /\ TurnedOff("assist") \in Seq(Statements)
      /\ Elems(TurnedOff("assist")) = {SetOff("wa"), SetOff("fb")} \cup {Stmt("return", "assist")}
  <2>1. /\ <<SetOff("wa"), SetOff("fb")>> \in Seq(Statements)
        /\ Elems(<<SetOff("wa"), SetOff("fb")>>) = {SetOff("wa"), SetOff("fb")}
    BY <1>2, StatementTypes, TupleTypes, TupleElems
  <2> QED
    BY <1>1, <1>2, <2>1, ListenerIs
<1>7. ASSUME NEW a \in Apps
      PROVE  /\ TurnedOn(a) \in Seq(Statements)
             /\ Elems(TurnedOn(a)) = {Stmt("ensureAssist", a), SetOff("notify")} \cup {Stmt("return", a)}
  <2>1. /\ <<Stmt("ensureAssist", a), SetOff("notify")>> \in Seq(Statements)
        /\ Elems(<<Stmt("ensureAssist", a), SetOff("notify")>>) = {Stmt("ensureAssist", a), SetOff("notify")}
    BY <1>2, StatementTypes, TupleTypes, TupleElems
  <2> QED
    BY <1>1, <1>2, <2>1, ListenerIs
<1>8. ASSUME NEW a \in Apps
      PROVE  /\ TurnedOff(a) \in Seq(Statements)
             /\ Elems(TurnedOff(a)) = {Stmt("dropAssist", a)} \cup {Stmt("return", a)}
  <2>1. /\ <<Stmt("dropAssist", a)>> \in Seq(Statements)
        /\ Elems(<<Stmt("dropAssist", a)>>) = {Stmt("dropAssist", a)}
    BY <1>2, StatementTypes, TupleTypes, TupleElems
  <2> QED
    BY <1>1, <1>2, <2>1, ListenerIs
<1>9. \A m \in Modes : TurnedOn(m) \in Seq(Statements) /\ TurnedOff(m) \in Seq(Statements)
  BY <1>3, <1>4, <1>5, <1>6, <1>7, <1>8, ModesAre
<1> QED
  BY <1>3, <1>4, <1>5, <1>6, <1>7, <1>8, <1>9

-----------------------------------------------------------------------------
(* One tap.  c is what the switches show, f the fields fromWhatsapp and    *)
(* fromFbMsg, b the running listeners and R the statements to come.        *)

\* Every listener that is running returns.
Returning(b, R) == b \subseteq Modes /\ \A m \in b : Stmt("return", m) \in R

\* Between taps, and before the first statement of a tap or of the restore of
\* switches that show already what they are set to; q is the list of calls.
Starting(c, f, b, q) ==
    /\ Consistent(c) /\ b = {} /\ f = NoFrom
    /\ \/ \A s \in Elems(q) : \E m \in Modes : s = Set(m, c[m])
       \/ \E m \in Modes, v \in BOOLEAN : q = <<Set(m, v)>>

\* A tap that ends in Notify mode or in none: it only switches off.  The mode
\* that is left, the apps without the bot and the bot without apps will all be
\* switched off, whatever the order.
TurningOff(c, f, b, R) ==
    /\ f = NoFrom /\ Returning(b, R)
    /\ \A s \in R :
        \/ \E m \in {"assist"} \cup Apps : s = SetOff(m)
        \/ \E a \in Apps : s = Stmt("dropAssist", a)
        \/ \E m \in Modes : s = Stmt("return", m)
    /\ \A m \in b \ {"notify"} : ~c[m]
    /\ (c["notify"] /\ c["assist"]) => SetOff("assist") \in R
    /\ \A a \in Apps : (c[a] /\ ~c["assist"]) => SetOff(a) \in R
    /\ (c["assist"] /\ \A a \in Apps : ~c[a]) =>
            \/ SetOff("assist") \in R
            \/ \E a \in Apps : Stmt("dropAssist", a) \in R

\* A tap that ends in AssistBot mode: it only switches apps and the bot on and
\* Notify mode off.  The fields remember which app the tap was on until the
\* bot's listener has switched on the others.
TurningOn(c, f, b, R) ==
    /\ f \in [Apps -> BOOLEAN] /\ Returning(b, R)
    /\ \A s \in R :
        \/ s = SetOff("notify") \/ s = SetOn("assist") \/ s = Stmt("resetFrom", "assist")
        \/ \E a \in Apps : s = Stmt("setFrom", a) \/ s = Stmt("ensureAssist", a)
        \/ \E m \in Modes : s = Stmt("return", m)
    /\ \A m \in b : c[m] <=> m # "notify"
    /\ (c["notify"] /\ c["assist"]) => SetOff("notify") \in R
    /\ \A a \in Apps : Stmt("setFrom", a) \in R => c["assist"]
    /\ \A a \in Apps : (c[a] /\ (~c["assist"] \/ Stmt("setFrom", a) \in R)) => f[Other(a)]
    /\ ~c["assist"] =>
        /\ \A a \in Apps : c[a] =>
            /\ ~c[Other(a)]
            /\ SetOn("assist") \in R \/ Stmt("ensureAssist", a) \in R
        /\ \A a \in Apps : Stmt("ensureAssist", a) \in R => c[a]
        /\ (\A a \in Apps : ~c[a]) => f = NoFrom
        /\ f # NoFrom => SetOn("assist") \in R
    /\ c["assist"] =>
        /\ f # NoFrom => Stmt("resetFrom", "assist") \in R
        /\ (\A a \in Apps : ~c[a]) =>
            \E a \in Apps : Stmt("setFrom", a) \in R /\ f[Other(a)]

\* Statements of a tap that switches off.
LEMMA OffSet ==
    ASSUME NEW c \in [Modes -> BOOLEAN], NEW f, NEW b, NEW R, NEW m \in {"assist"} \cup Apps,
           TurningOff(c, f, b, {SetOff(m)} \cup R)
    PROVE  IF c[m] THEN /\ m \notin b
                        /\ TurningOff([c EXCEPT ![m] = FALSE], f, b \cup {m},
                                      Elems(TurnedOff(m)) \cup R)
           ELSE TurningOff(c, f, b, R)
<1>1. CASE ~c[m]
  <2>1. Returning(b, R)
    BY Distinct DEF TurningOff, Returning
  <2>2. /\ (c["notify"] /\ c["assist"]) => SetOff("assist") \in R
        /\ \A a \in Apps : (c[a] /\ ~c["assist"]) => SetOff(a) \in R
        /\ (c["assist"] /\ \A a \in Apps : ~c[a]) =>
                \/ SetOff("assist") \in R
                \/ \E a \in Apps : Stmt("dropAssist", a) \in R
    BY ModesAre, <1>1, Distinct DEF TurningOff
  <2> QED
    BY <1>1, <2>1, <2>2 DEF TurningOff
<1>2. CASE c[m]
  <2>1. m \notin b /\ m \in Modes
    BY ModesAre, <1>2 DEF TurningOff
  <2> DEFINE L == Elems(TurnedOff(m))
             e == [c EXCEPT ![m] = FALSE]
  <2>2. /\ Stmt("return", m) \in L
        /\ m = "assist" => L = {SetOff("wa"), SetOff("fb"), Stmt("return", "assist")}
        /\ m \in Apps => L = {Stmt("dropAssist", m), Stmt("return", m)}
    BY ListenerElems
  <2>3. e[m] = FALSE /\ \A n \in Modes : n # m => e[n] = c[n]
    BY <2>1
  <2> HIDE DEF L, e
  <2>4. Returning(b \cup {m}, L \cup R)
    BY <2>1, <2>2, Distinct DEF TurningOff, Returning
  <2>5. \A s \in L \cup R :
            \/ \E n \in {"assist"} \cup Apps : s = SetOff(n)
            \/ \E a \in Apps : s = Stmt("dropAssist", a)
            \/ \E n \in Modes : s = Stmt("return", n)
    BY ModesAre, <2>2 DEF TurningOff
  <2>6. \A n \in (b \cup {m}) \ {"notify"} : ~e[n]
    BY <2>1, <2>3 DEF TurningOff, Returning
  <2>7. /\ (e["notify"] /\ e["assist"]) => SetOff("assist") \in L \cup R
        /\ \A a \in Apps : (e[a] /\ ~e["assist"]) => SetOff(a) \in L \cup R
        /\ (e["assist"] /\ \A a \in Apps : ~e[a]) =>
                \/ SetOff("assist") \in L \cup R
                \/ \E a \in Apps : Stmt("dropAssist", a) \in L \cup R
    <3>1. CASE m = "assist"
      BY ModesAre, <2>2, <2>3, <3>1 DEF TurningOff
    <3>2. CASE m \in Apps
      BY ModesAre, <2>2, <2>3, <3>2, Distinct DEF TurningOff
    <3> QED
      BY <3>1, <3>2
  <2>8. TurningOff(e, f, b \cup {m}, L \cup R)
    BY <2>4, <2>5, <2>6, <2>7 DEF TurningOff
  <2> QED
    BY <1>2, <2>1, <2>8 DEF L, e
<1> QED
  BY <1>1, <1>2

\* dropAssist: the last app that goes takes the bot with it.
LEMMA OffDrop ==
    ASSUME NEW c \in [Modes -> BOOLEAN], NEW f, NEW b, NEW R, NEW a \in Apps,
           TurningOff(c, f, b, {Stmt("dropAssist", a)} \cup R)
    PROVE  TurningOff(c, f, b, IF c[Other(a)] THEN R ELSE {SetOff("assist")} \cup R)
<1> DEFINE Q == IF c[Other(a)] THEN R ELSE {SetOff("assist")} \cup R
<1>1. R \subseteq Q /\ Q \subseteq {SetOff("assist")} \cup R
  OBVIOUS
<1>2. ~c[Other(a)] => SetOff("assist") \in Q
  OBVIOUS
<1> HIDE DEF Q
<1>3. Returning(b, Q)
  BY <1>1, Distinct DEF TurningOff, Returning
<1>4. /\ (c["notify"] /\ c["assist"]) => SetOff("assist") \in Q
      /\ \A x \in Apps : (c[x] /\ ~c["assist"]) => SetOff(x) \in Q
  BY <1>1, Distinct, SMTT(60) DEF TurningOff
<1>5. (c["assist"] /\ \A x \in Apps : ~c[x]) => SetOff("assist") \in Q
  BY <1>2, ModesAre, OtherApp
<1>6. TurningOff(c, f, b, Q)
  BY <1>1, <1>3, <1>4, <1>5 DEF TurningOff
<1> QED
  BY <1>6 DEF Q

LEMMA OffReturn ==
    ASSUME NEW c \in [Modes -> BOOLEAN], NEW f, NEW b, NEW R, NEW m \in Modes,
           TurningOff(c, f, b, {Stmt("return", m)} \cup R)
    PROVE  TurningOff(c, f, b \ {m}, R)
<1>1. Returning(b \ {m}, R)
  BY Distinct DEF TurningOff, Returning
<1>2. /\ (c["notify"] /\ c["assist"]) => SetOff("assist") \in R
      /\ \A x \in Apps : (c[x] /\ ~c["assist"]) => SetOff(x) \in R
      /\ (c["assist"] /\ \A x \in Apps : ~c[x]) =>
            SetOff("assist") \in R \/ \E x \in Apps : Stmt("dropAssist", x) \in R
  BY Distinct, SMTT(30) DEF TurningOff
<1> QED
  BY <1>1, <1>2 DEF TurningOff

-----------------------------------------------------------------------------
\* Statements of a tap that switches the bot on: Notify mode goes off,
LEMMA OnNotifyOff ==
    ASSUME NEW c \in [Modes -> BOOLEAN], NEW f, NEW b, NEW R,
           TurningOn(c, f, b, {SetOff("notify")} \cup R)
    PROVE  IF c["notify"] THEN /\ "notify" \notin b
                               /\ TurningOn([c EXCEPT !["notify"] = FALSE], f, b \cup {"notify"},
                                            Elems(TurnedOff("notify")) \cup R)
           ELSE TurningOn(c, f, b, R)
<1>1. CASE ~c["notify"]
  <2>1. Returning(b, R)
    BY Distinct DEF TurningOn, Returning
  <2> QED
    BY <1>1, <2>1, Distinct DEF TurningOn
<1>2. CASE c["notify"]
  <2>1. "notify" \notin b /\ "notify" \in Modes /\ "assist" \in Modes /\ "assist" # "notify"
    BY <1>2, ModesAre DEF TurningOn
  <2> DEFINE e == [c EXCEPT !["notify"] = FALSE]
             Q == Elems(TurnedOff("notify")) \cup R
  <2>2. Q = {Stmt("return", "notify")} \cup R
    BY ListenerElems
  <2>3. /\ e["notify"] = FALSE /\ e["assist"] = c["assist"]
        /\ \A x \in Apps : e[x] = c[x] /\ e[Other(x)] = c[Other(x)]
        /\ \A n \in Modes : n # "notify" => e[n] = c[n]
    BY <2>1, ModesAre, OtherApp
  <2> HIDE DEF Q, e
  <2>4. Returning(b \cup {"notify"}, Q)
    BY <2>1, <2>2, Distinct DEF TurningOn, Returning
  <2>5. \A m \in b \cup {"notify"} : e[m] <=> m # "notify"
    BY <2>3 DEF TurningOn, Returning
  <2>6. \A s : s \in Q <=> s = Stmt("return", "notify") \/ s \in R
    BY <2>2
  <2>7. TurningOn(e, f, b \cup {"notify"}, Q)
    BY <2>1, <2>3, <2>4, <2>5, <2>6, Distinct DEF TurningOn
  <2> QED
    BY <1>2, <2>1, <2>7 DEF Q, e
<1> QED
  BY <1>1, <1>2

\* the bot goes on,
LEMMA OnAssistOn ==
    ASSUME NEW c \in [Modes -> BOOLEAN], NEW f, NEW b, NEW R,
           TurningOn(c, f, b, {SetOn("assist")} \cup R)
    PROVE  IF c["assist"] THEN TurningOn(c, f, b, R)
           ELSE /\ "assist" \notin b
                /\ TurningOn([c EXCEPT !["assist"] = TRUE], f, b \cup {"assist"},
                             Elems(TurnedOn("assist")) \cup R)
<1>1. CASE c["assist"]
  <2>1. Returning(b, R)
    BY Distinct DEF TurningOn, Returning
  <2> QED
    BY <1>1, <2>1, Distinct DEF TurningOn
<1>2. CASE ~c["assist"]
  <2>1. "assist" \notin b /\ "notify" \in Modes /\ "assist" \in Modes /\ "assist" # "notify"
    BY <1>2, ModesAre DEF TurningOn
  <2> DEFINE e == [c EXCEPT !["assist"] = TRUE]
             Q == Elems(TurnedOn("assist")) \cup R
  <2>2. \A s : s \in Q <=> s \in {SetOff("notify"), Stmt("setFrom", "wa"), Stmt("setFrom", "fb"),
             Stmt("resetFrom", "assist"), Stmt("return", "assist")} \/ s \in R
    BY ListenerElems
  <2>3. /\ e["notify"] = c["notify"] /\ e["assist"] = TRUE
        /\ \A x \in Apps : e[x] = c[x] /\ e[Other(x)] = c[Other(x)]
        /\ \A n \in Modes : n # "assist" => e[n] = c[n]
    BY <2>1, ModesAre, OtherApp
  <2> HIDE DEF Q, e
  <2>4. Returning(b \cup {"assist"}, Q)
    BY <2>1, <2>2, Distinct DEF TurningOn, Returning
  <2>5. \A m \in b \cup {"assist"} : e[m] <=> m # "notify"
    BY <2>1, <2>3 DEF TurningOn, Returning
  <2>6. \A s \in Q :
        \/ s = SetOff("notify") \/ s = SetOn("assist") \/ s = Stmt("resetFrom", "assist")
        \/ \E x \in Apps : s = Stmt("setFrom", x) \/ s = Stmt("ensureAssist", x)
        \/ \E m \in Modes : s = Stmt("return", m)
    BY <2>1, <2>2, ModesAre DEF TurningOn
  <2>7. \A x \in Apps : e[x] => f[Other(x)]
    BY <1>2, <2>3 DEF TurningOn
  <2>8. (\A x \in Apps : ~e[x]) => \E x \in Apps : Stmt("setFrom", x) \in Q /\ f[Other(x)]
    <3>1. ASSUME \A x \in Apps : ~e[x] PROVE f["fb"] /\ Other("wa") = "fb" /\ "wa" \in Apps
      BY <1>2, <2>3, <3>1, ModesAre, OtherApp DEF TurningOn, NoFrom
    <3> QED
      BY <2>2, <3>1
  <2>9. TurningOn(e, f, b \cup {"assist"}, Q)
    BY <2>2, <2>3, <2>4, <2>5, <2>6, <2>7, <2>8 DEF TurningOn
  <2> QED
    BY <1>2, <2>1, <2>9 DEF Q, e
<1> QED
  BY <1>1, <1>2

\* and takes the apps with it, except when the tap was on one of them:
\* setChecked of the value remembered for the other app switches nothing off.
LEMMA OnSetFrom ==
    ASSUME NEW c \in [Modes -> BOOLEAN], NEW f, NEW b, NEW R, NEW a \in Apps,
           TurningOn(c, f, b, {Stmt("setFrom", a)} \cup R)
    PROVE  /\ f[Other(a)] \in BOOLEAN
           /\ c[a] => f[Other(a)]
           /\ IF c[a] = f[Other(a)] THEN TurningOn(c, f, b, R)
              ELSE /\ a \notin b
                   /\ TurningOn([c EXCEPT ![a] = TRUE], f, b \cup {a}, Elems(TurnedOn(a)) \cup R)
<1>1. /\ f[Other(a)] \in BOOLEAN /\ c["assist"] /\ c[a] \in BOOLEAN
      /\ c[a] => f[Other(a)]
      /\ a \in Modes /\ a # "assist" /\ a # "notify"
  BY ModesAre, OtherApp DEF TurningOn
<1>2. CASE c[a] = f[Other(a)]
  <2>1. Returning(b, R)
    BY Distinct DEF TurningOn, Returning
  <2>2. (\A x \in Apps : ~c[x]) => \E x \in Apps : Stmt("setFrom", x) \in R /\ f[Other(x)]
    BY <1>1, <1>2, Distinct DEF TurningOn
  <2>3. TurningOn(c, f, b, R)
    BY <1>1, <2>1, <2>2, Distinct DEF TurningOn
  <2> QED
    BY <1>1, <1>2, <2>3
<1>3. CASE c[a] # f[Other(a)]
  <2>1. a \notin b /\ ~c[a] /\ f[Other(a)]
    BY <1>1, <1>3 DEF TurningOn
  <2> DEFINE e == [c EXCEPT ![a] = TRUE]
             Q == Elems(TurnedOn(a)) \cup R
  <2>2. \A s : s \in Q <=> s \in {Stmt("ensureAssist", a), SetOff("notify"), Stmt("return", a)} \/ s \in R
    BY ListenerElems
  <2>3. /\ e["notify"] = c["notify"] /\ e["assist"] = TRUE
        /\ e[a] = TRUE
        /\ \A n \in Modes : n # a => e[n] = c[n]
    BY <1>1, ModesAre
  <2> HIDE DEF Q, e
  <2>4. Returning(b \cup {a}, Q)
    BY <1>1, <2>2, Distinct DEF TurningOn, Returning
  <2>5. \A m \in b \cup {a} : e[m] <=> m # "notify"
    BY <1>1, <2>3 DEF TurningOn, Returning
  <2>6. \A s \in Q :
        \/ s = SetOff("notify") \/ s = SetOn("assist") \/ s = Stmt("resetFrom", "assist")
        \/ \E x \in Apps : s = Stmt("setFrom", x) \/ s = Stmt("ensureAssist", x)
        \/ \E m \in Modes : s = Stmt("return", m)
    BY <1>1, <2>2 DEF TurningOn
  <2>7. \A x \in Apps : (e[x] /\ Stmt("setFrom", x) \in Q) => f[Other(x)]
    BY <2>1, <2>2, <2>3, Distinct, ModesAre DEF TurningOn
  <2>8. /\ (e["notify"] /\ e["assist"]) => SetOff("notify") \in Q
        /\ f # NoFrom => Stmt("resetFrom", "assist") \in Q
    BY <1>1, <2>2, Distinct DEF TurningOn
  <2>9. TurningOn(e, f, b \cup {a}, Q)
    BY <1>1, <2>3, <2>4, <2>5, <2>6, <2>7, <2>8 DEF TurningOn
  <2> QED
    BY <1>1, <1>3, <2>1, <2>9 DEF Q, e
<1> QED
  BY <1>2, <1>3

\* An app that was tapped first asks for the bot, remembering the tap,
LEMMA OnEnsure ==
    ASSUME NEW c \in [Modes -> BOOLEAN], NEW f, NEW b, NEW R, NEW a \in Apps,
           TurningOn(c, f, b, {Stmt("ensureAssist", a)} \cup R)
    PROVE  IF c["assist"] THEN TurningOn(c, f, b, R)
           ELSE TurningOn(c, [f EXCEPT ![a] = FALSE], b, {SetOn("assist")} \cup R)
<1>1. Returning(b, R)
  BY Distinct DEF TurningOn, Returning
<1>2. CASE c["assist"]
  BY <1>1, <1>2, Distinct DEF TurningOn
<1>3. CASE ~c["assist"]
  <2> DEFINE g == [f EXCEPT ![a] = FALSE]
             Q == {SetOn("assist")} \cup R
  <2>1. \A s : s \in Q <=> s = SetOn("assist") \/ s \in R
    OBVIOUS
  <2>2. g \in [Apps -> BOOLEAN] /\ \A x \in Apps : x # a => g[x] = f[x]
    BY DEF TurningOn
  <2> HIDE DEF Q, g
  <2>3. Returning(b, Q)
    BY <1>1, <2>1 DEF Returning
  <2>4. c[a] /\ ~c[Other(a)] /\ f[Other(a)] /\ Other(a) # a /\ Other(Other(a)) = a
    BY <1>3, ModesAre, OtherApp DEF TurningOn
  <2>5. \A x \in Apps : c[x] => x = a
    BY <2>4, ModesAre, OtherApp
  <2>6. \A x \in Apps : c[x] => g[Other(x)]
    BY <2>2, <2>4, <2>5, ModesAre, OtherApp
  <2>7. \A x \in Apps : Stmt("setFrom", x) \notin Q
    BY <1>3, <2>1, Distinct DEF TurningOn
  <2>8. \A x \in Apps : c[x] => ~c[Other(x)] /\ SetOn("assist") \in Q
    BY <2>1, <2>4, <2>5
  <2>9. \A x \in Apps : Stmt("ensureAssist", x) \in Q => c[x]
    BY <1>3, <2>1, Distinct DEF TurningOn
  <2>10. \A s \in Q :
        \/ s = SetOff("notify") \/ s = SetOn("assist") \/ s = Stmt("resetFrom", "assist")
        \/ \E x \in Apps : s = Stmt("setFrom", x) \/ s = Stmt("ensureAssist", x)
        \/ \E m \in Modes : s = Stmt("return", m)
    BY <2>1 DEF TurningOn
  <2>11. \A m \in b : c[m] <=> m # "notify"
    BY DEF TurningOn
  <2>12. TurningOn(c, g, b, Q)
    BY <1>3, <2>1, <2>2, <2>3, <2>4, <2>6, <2>7, <2>8, <2>9, <2>10, <2>11 DEF TurningOn
  <2> QED
    BY <1>3, <2>12 DEF Q, g
<1> QED
  BY <1>2, <1>3

\* which is forgotten when the bot's listener is done.
LEMMA OnReset ==
    ASSUME NEW c \in [Modes -> BOOLEAN], NEW f, NEW b, NEW R,
           TurningOn(c, f, b, {Stmt("resetFrom", "assist")} \cup R)
    PROVE  TurningOn(c, NoFrom, b, R)
<1>1. Returning(b, R)
  BY Distinct DEF TurningOn, Returning
<1>2. NoFrom \in [Apps -> BOOLEAN] /\ \A x \in Apps : NoFrom[x] = TRUE /\ NoFrom[Other(x)] = TRUE
  BY ModesAre, OtherApp DEF NoFrom
<1>3. c["assist"] => ((\A x \in Apps : ~c[x]) => \E x \in Apps : Stmt("setFrom", x) \in R /\ NoFrom[Other(x)])
  BY <1>2, Distinct DEF TurningOn
<1> QED
  BY <1>1, <1>2, <1>3, Distinct DEF TurningOn

LEMMA OnReturn ==
    ASSUME NEW c \in [Modes -> BOOLEAN], NEW f, NEW b, NEW R, NEW m \in Modes,
           TurningOn(c, f, b, {Stmt("return", m)} \cup R)
    PROVE  TurningOn(c, f, b \ {m}, R)
<1>1. Returning(b \ {m}, R)
  BY Distinct DEF TurningOn, Returning
<1> QED
  BY <1>1, Distinct DEF TurningOn

-----------------------------------------------------------------------------
\* The first statement of a tap.
LEMMA TapBegins ==
    ASSUME NEW c \in [Modes -> BOOLEAN], Consistent(c), NEW m \in Modes
    PROVE  /\ ~c[m] => LET e == [c EXCEPT ![m] = TRUE] IN
                \/ TurningOff(e, NoFrom, {m}, Elems(TurnedOn(m)))
                \/ TurningOn(e, NoFrom, {m}, Elems(TurnedOn(m)))
           /\ c[m] => TurningOff([c EXCEPT ![m] = FALSE], NoFrom, {m}, Elems(TurnedOff(m)))
<1>1. NoFrom \in [Apps -> BOOLEAN] /\ \A x \in Apps : NoFrom[x] = TRUE /\ NoFrom[Other(x)] = TRUE
  BY ModesAre, OtherApp DEF NoFrom
<1>2. /\ ~(c["notify"] /\ c["assist"])
      /\ c["assist"] <=> (c["wa"] \/ c["fb"])
  BY ModesAre DEF Consistent
<1>3. ASSUME ~c[m]
      PROVE  LET e == [c EXCEPT ![m] = TRUE] IN
                \/ TurningOff(e, NoFrom, {m}, Elems(TurnedOn(m)))
                \/ TurningOn(e, NoFrom, {m}, Elems(TurnedOn(m)))
  <2> DEFINE e == [c EXCEPT ![m] = TRUE]
             Q == Elems(TurnedOn(m))
  <2>1. e[m] = TRUE /\ (\A n \in Modes : n # m => e[n] = c[n])
    OBVIOUS
  <2>2. Returning({m}, Q)
    BY ListenerElems, ModesAre DEF Returning
  <2>3. CASE m = "notify"
    <3>1. Q = {SetOff("assist"), SetOff("wa"), SetOff("fb"), Stmt("return", "notify")}
      BY <2>3, ListenerElems
    <3>2. /\ e["notify"] = TRUE /\ e["assist"] = c["assist"] /\ e["wa"] = c["wa"] /\ e["fb"] = c["fb"]
      BY <2>1, <2>3, ModesAre
    <3> HIDE DEF e, Q
    <3>3. /\ \A s \in Q :
               \/ \E n \in {"assist"} \cup Apps : s = SetOff(n)
               \/ \E a \in Apps : s = Stmt("dropAssist", a)
               \/ \E n \in Modes : s = Stmt("return", n)
          /\ SetOff("assist") \in Q /\ (\A a \in Apps : SetOff(a) \in Q)
      BY <3>1, ModesAre
    <3>4. TurningOff(e, NoFrom, {m}, Q)
      BY <2>2, <2>3, <3>3 DEF TurningOff
    <3> QED
      BY <3>4 DEF e, Q
  <2>4. CASE m = "assist"
    <3>1. Q = {SetOff("notify"), Stmt("setFrom", "wa"), Stmt("setFrom", "fb"),
               Stmt("resetFrom", "assist"), Stmt("return", "assist")}
      BY <2>4, ListenerElems
    <3>2. e["assist"] = TRUE
      BY <2>1, <2>4
    <3> HIDE DEF e, Q
    <3>3. /\ \A s \in Q :
              \/ s = SetOff("notify") \/ s = SetOn("assist") \/ s = Stmt("resetFrom", "assist")
              \/ \E a \in Apps : s = Stmt("setFrom", a) \/ s = Stmt("ensureAssist", a)
              \/ \E n \in Modes : s = Stmt("return", n)
          /\ SetOff("notify") \in Q /\ (\A a \in Apps : Stmt("setFrom", a) \in Q)
      BY <3>1, ModesAre
    <3>4. \E a \in Apps : Stmt("setFrom", a) \in Q /\ NoFrom[Other(a)]
      BY <3>3, <1>1, ModesAre
    <3>5. \A n \in {m} : e[n] <=> n # "notify"
      BY <2>4, <3>2
    <3>6. TurningOn(e, NoFrom, {m}, Q)
      BY <1>1, <2>2, <3>2, <3>3, <3>4, <3>5 DEF TurningOn
    <3> QED
      BY <3>6 DEF e, Q
  <2>5. CASE m \in Apps
    <3>1. Q = {Stmt("ensureAssist", m), SetOff("notify"), Stmt("return", m)}
      BY <2>5, ListenerElems
    <3>2. /\ e["assist"] = c["assist"] /\ e["notify"] = c["notify"] /\ e[m] = TRUE /\ m # "notify"
      BY <2>1, <2>5, ModesAre
    <3>3. e[Other(m)] = c[Other(m)] /\ \A a \in Apps : a = m \/ a = Other(m)
      BY <2>1, <2>5, ModesAre, OtherApp
    <3>4. ~c["assist"] => /\ e[Other(m)] = FALSE
                          /\ \A a \in Apps : e[a] => a = m
      BY <1>2, <2>5, <3>3, ModesAre, OtherApp
    <3> HIDE DEF e, Q
    <3>5. /\ \A s \in Q :
              \/ s = SetOff("notify") \/ s = SetOn("assist") \/ s = Stmt("resetFrom", "assist")
              \/ \E a \in Apps : s = Stmt("setFrom", a) \/ s = Stmt("ensureAssist", a)
              \/ \E n \in Modes : s = Stmt("return", n)
          /\ SetOff("notify") \in Q /\ Stmt("ensureAssist", m) \in Q
          /\ \A a \in Apps : /\ Stmt("setFrom", a) \notin Q
                             /\ Stmt("ensureAssist", a) \in Q => a = m
      BY <2>5, <3>1, Distinct
    <3>6. \A n \in {m} : e[n] <=> n # "notify"
      BY <3>2
    <3>7. ~c["assist"] =>
            /\ \A a \in Apps : e[a] =>
                /\ ~e[Other(a)]
                /\ SetOn("assist") \in Q \/ Stmt("ensureAssist", a) \in Q
            /\ \A a \in Apps : Stmt("ensureAssist", a) \in Q => e[a]
            /\ ~(\A a \in Apps : ~e[a])
      BY <2>5, <3>2, <3>4, <3>5
    <3>8. ~(\A a \in Apps : ~e[a])
      BY <2>5, <3>2
    <3>9. TurningOn(e, NoFrom, {m}, Q)
      BY <1>1, <2>2, <3>2, <3>5, <3>6, <3>7, <3>8 DEF TurningOn
    <3> QED
      BY <3>9 DEF e, Q
  <2> QED
    BY <2>3, <2>4, <2>5, ModesAre
<1>4. ASSUME c[m]
      PROVE  TurningOff([c EXCEPT ![m] = FALSE], NoFrom, {m}, Elems(TurnedOff(m)))
  <2> DEFINE e == [c EXCEPT ![m] = FALSE]
             Q == Elems(TurnedOff(m))
  <2>1. e[m] = FALSE /\ (\A n \in Modes : n # m => e[n] = c[n])
    OBVIOUS
  <2>2. Returning({m}, Q)
    BY ListenerElems, ModesAre DEF Returning
  <2>3. \A n \in {m} \ {"notify"} : ~e[n]
    BY <2>1
  <2> HIDE DEF e
  <2>4. CASE m = "notify"
    <3>1. Q = {Stmt("return", "notify")}
      BY <2>4, ListenerElems
    <3>2. e["notify"] = FALSE /\ e["assist"] = c["assist"] /\ \A a \in Apps : e[a] = c[a]
      BY <2>1, <2>4, ModesAre
    <3> HIDE DEF Q
    <3>3. TurningOff(e, NoFrom, {m}, Q)
      BY <1>2, <2>2, <2>3, <3>1, <3>2, <2>4, <1>4, ModesAre DEF TurningOff
    <3> QED
      BY <3>3 DEF e, Q
  <2>5. CASE m = "assist"
    <3>1. Q = {SetOff("wa"), SetOff("fb"), Stmt("return", "assist")}
      BY <2>5, ListenerElems
    <3>2. e["assist"] = FALSE
      BY <2>1, <2>5
    <3> HIDE DEF Q
    <3>3. /\ \A s \in Q :
               \/ \E n \in {"assist"} \cup Apps : s = SetOff(n)
               \/ \E a \in Apps : s = Stmt("dropAssist", a)
               \/ \E n \in Modes : s = Stmt("return", n)
          /\ \A a \in Apps : SetOff(a) \in Q
      BY <3>1, ModesAre
    <3>4. TurningOff(e, NoFrom, {m}, Q)
      BY <2>2, <2>3, <3>2, <3>3 DEF TurningOff
    <3> QED
      BY <3>4 DEF e, Q
  <2>6. CASE m \in Apps
    <3>1. Q = {Stmt("dropAssist", m), Stmt("return", m)}
      BY <2>6, ListenerElems
    <3>2. /\ c["assist"] /\ e["assist"] = c["assist"] /\ e["notify"] = c["notify"]
      BY <1>2, <1>4, <2>1, <2>6, ModesAre
    <3> HIDE DEF Q
    <3>3. /\ \A s \in Q :
               \/ \E n \in {"assist"} \cup Apps : s = SetOff(n)
               \/ \E a \in Apps : s = Stmt("dropAssist", a)
               \/ \E n \in Modes : s = Stmt("return", n)
          /\ \E a \in Apps : Stmt("dropAssist", a) \in Q
      BY <2>6, <3>1
    <3>4. TurningOff(e, NoFrom, {m}, Q)
      BY <1>2, <2>2, <2>3, <3>2, <3>3 DEF TurningOff
    <3> QED
      BY <3>4 DEF e, Q
  <2> QED
    BY <2>4, <2>5, <2>6, ModesAre
<1> QED
  BY <1>3, <1>4

\* When no statement is left, one mode at most is shown and nothing is running.
LEMMA AtRest ==
    ASSUME NEW c \in [Modes -> BOOLEAN], NEW f, NEW b,
           TurningOff(c, f, b, {}) \/ TurningOn(c, f, b, {})
    PROVE  Consistent(c) /\ b = {} /\ f = NoFrom
<1>1. CASE TurningOff(c, f, b, {})
  BY <1>1 DEF TurningOff, Returning, Consistent
<1>2. CASE TurningOn(c, f, b, {})
  <2>1. b = {}
    BY <1>2 DEF TurningOn, Returning
  <2>2. f = NoFrom
    BY <1>2 DEF TurningOn
  <2>3. Consistent(c)
    BY <1>2 DEF TurningOn, Consistent
  <2> QED
    BY <2>1, <2>2, <2>3
<1> QED
  BY <1>1, <1>2

-----------------------------------------------------------------------------
(* The activity's steps.                                                   *)

\* A tap, from its first statement to its last.
SwitchesOK ==
    \/ Starting(checked, from, broadcasting, calls)
    \/ TurningOff(checked, from, broadcasting, Elems(calls))
    \/ TurningOn(checked, from, broadcasting, Elems(calls))

\* What a statement does to the switches: nothing, or one of them changes and
\* its listener, which was not running, broadcasts that.
Announced ==
    \E m \in Modes, v \in BOOLEAN :
        /\ v # checked[m] /\ checked' = [checked EXCEPT ![m] = v]
        /\ m \notin broadcasting /\ broadcasting' = broadcasting \cup {m}
        /\ sendBroadcast([mode |-> m, on |-> v])

LEMMA OtherType == \A m \in Modes : Other(m) \in Apps
<1>1. \A m : \E b \in Apps : b # m
  BY ModesAre
<1> QED
  BY <1>1 DEF Other

\* setChecked, for each value.
LEMMA SetCheckedIs ==
    ASSUME NEW m \in Modes, NEW v \in BOOLEAN, NEW rest \in Seq(Statements),
           SetChecked(m, v, rest), ActivityTypeOK
    PROVE  /\ checked' \in [Modes -> BOOLEAN] /\ broadcasting' \in SUBSET Modes
           /\ calls' \in Seq(Statements)
           /\ intents' = intents \/ sendBroadcast([mode |-> m, on |-> v])
           /\ checked[m] = v => calls' = rest /\ UNCHANGED <<checked, broadcasting, intents>>
           /\ checked[m] # v /\ m \notin broadcasting =>
                /\ Announced
                /\ checked' = [checked EXCEPT ![m] = v] /\ broadcasting' = broadcasting \cup {m}
                /\ v = TRUE => Elems(calls') = Elems(TurnedOn(m)) \cup Elems(rest)
                /\ v = FALSE => Elems(calls') = Elems(TurnedOff(m)) \cup Elems(rest)
<1>1. checked \in [Modes -> BOOLEAN] /\ broadcasting \in SUBSET Modes
  BY DEF ActivityTypeOK
<1>2. /\ TurnedOn(m) \o rest \in Seq(Statements) /\ TurnedOff(m) \o rest \in Seq(Statements)
      /\ Elems(TurnedOn(m) \o rest) = Elems(TurnedOn(m)) \cup Elems(rest)
      /\ Elems(TurnedOff(m) \o rest) = Elems(TurnedOff(m)) \cup Elems(rest)
  BY ListenerElems, ConcatElems
<1>3. CASE checked[m] = v
  BY <1>1, <1>3 DEF SetChecked
<1>4. CASE checked[m] # v
  <2>1. /\ checked' = [checked EXCEPT ![m] = v]
        /\ IF m \in broadcasting
             THEN /\ calls' = rest
                  /\ UNCHANGED <<broadcasting, intents>>
             ELSE /\ calls' = onCheckedChanged(m, v) \o rest
                  /\ broadcasting' = broadcasting \cup {m}
                  /\ sendBroadcast([mode |-> m, on |-> v])
    BY <1>4 DEF SetChecked
  <2>2. CASE m \in broadcasting
    BY <1>1, <1>4, <2>1, <2>2
  <2>3. CASE m \notin broadcasting
    <3>1. /\ v = TRUE => calls' = TurnedOn(m) \o rest
          /\ v = FALSE => calls' = TurnedOff(m) \o rest
      BY <2>1, <2>3 DEF TurnedOn, TurnedOff
    <3>2. Announced
      BY <1>4, <2>1, <2>3 DEF Announced
    <3>3. v = TRUE \/ v = FALSE
      OBVIOUS
    <3>4. calls' \in Seq(Statements)
      BY <1>2, <3>1, <3>3
    <3>5. /\ v = TRUE => Elems(calls') = Elems(TurnedOn(m)) \cup Elems(rest)
          /\ v = FALSE => Elems(calls') = Elems(TurnedOff(m)) \cup Elems(rest)
      BY <1>2, <3>1
    <3>6. checked' \in [Modes -> BOOLEAN] /\ broadcasting' \in SUBSET Modes
      BY <1>1, <2>1, <2>3
    <3> QED
      BY <1>4, <2>1, <2>3, <3>2, <3>4, <3>5, <3>6
  <2> QED
    BY <2>2, <2>3
<1> QED
  BY <1>3, <1>4

LEMMA SetOnIs ==
    ASSUME NEW m \in Modes, NEW rest \in Seq(Statements), SetChecked(m, TRUE, rest), ActivityTypeOK
    PROVE  /\ checked[m] => calls' = rest /\ UNCHANGED <<checked, broadcasting, intents>>
           /\ ~checked[m] /\ m \notin broadcasting =>
                /\ Announced
                /\ checked' = [checked EXCEPT ![m] = TRUE] /\ broadcasting' = broadcasting \cup {m}
                /\ Elems(calls') = Elems(TurnedOn(m)) \cup Elems(rest)
<1>1. checked[m] \in BOOLEAN
  BY DEF ActivityTypeOK
<1> DEFINE v == TRUE
<1>2. SetChecked(m, v, rest) /\ v \in BOOLEAN /\ v = TRUE
  OBVIOUS
<1> HIDE DEF v
<1>3. /\ checked[m] = v => calls' = rest /\ UNCHANGED <<checked, broadcasting, intents>>
      /\ checked[m] # v /\ m \notin broadcasting =>
            /\ Announced
            /\ checked' = [checked EXCEPT ![m] = v] /\ broadcasting' = broadcasting \cup {m}
            /\ v = TRUE => Elems(calls') = Elems(TurnedOn(m)) \cup Elems(rest)
  BY <1>2, SetCheckedIs
<1> QED
  BY <1>1, <1>2, <1>3

LEMMA SetOffIs ==
    ASSUME NEW m \in Modes, NEW rest \in Seq(Statements), SetChecked(m, FALSE, rest), ActivityTypeOK
    PROVE  /\ ~checked[m] => calls' = rest /\ UNCHANGED <<checked, broadcasting, intents>>
           /\ checked[m] /\ m \notin broadcasting =>
                /\ Announced
                /\ checked' = [checked EXCEPT ![m] = FALSE] /\ broadcasting' = broadcasting \cup {m}
                /\ Elems(calls') = Elems(TurnedOff(m)) \cup Elems(rest)
<1>1. checked[m] \in BOOLEAN
  BY DEF ActivityTypeOK
<1> DEFINE v == FALSE
<1>2. SetChecked(m, v, rest) /\ v \in BOOLEAN /\ v = FALSE
  OBVIOUS
<1> HIDE DEF v
<1>3. /\ checked[m] = v => calls' = rest /\ UNCHANGED <<checked, broadcasting, intents>>
      /\ checked[m] # v /\ m \notin broadcasting =>
            /\ Announced
            /\ checked' = [checked EXCEPT ![m] = v] /\ broadcasting' = broadcasting \cup {m}
            /\ v = FALSE => Elems(calls') = Elems(TurnedOff(m)) \cup Elems(rest)
  BY <1>2, SetCheckedIs
<1> QED
  BY <1>1, <1>2, <1>3

\* A statement that goes before the others.
LEMMA BeforeElems ==
    ASSUME NEW rest \in Seq(Statements)
    PROVE  /\ <<SetOn("assist")>> \o rest \in Seq(Statements)
           /\ Elems(<<SetOn("assist")>> \o rest) = {SetOn("assist")} \cup Elems(rest)
           /\ <<SetOff("assist")>> \o rest \in Seq(Statements)
           /\ Elems(<<SetOff("assist")>> \o rest) = {SetOff("assist")} \cup Elems(rest)
<1> DEFINE p == <<SetOn("assist")>>
           q == <<SetOff("assist")>>
<1>1. /\ p \in Seq(Statements) /\ Elems(p) = {SetOn("assist")}
      /\ q \in Seq(Statements) /\ Elems(q) = {SetOff("assist")}
  BY StatementTypes, TupleTypes, TupleElems, ModesAre
<1> HIDE DEF p, q
<1>2. /\ p \o rest \in Seq(Statements) /\ Elems(p \o rest) = Elems(p) \cup Elems(rest)
      /\ q \o rest \in Seq(Statements) /\ Elems(q \o rest) = Elems(q) \cup Elems(rest)
  BY <1>1, ConcatElems
<1> QED
  BY <1>1, <1>2 DEF p, q

\* Any statement, whatever the switches show.
LEMMA StatementType ==
    ASSUME ActivityTypeOK, Statement
    PROVE  /\ ActivityTypeOK' /\ UNCHANGED <<access, screen>> /\ calls # <<>> /\ proc = "up"
           /\ \/ intents' = intents
              \/ \E m \in Modes, v \in BOOLEAN : sendBroadcast([mode |-> m, on |-> v])
<1> DEFINE s == Head(calls)
           rest == Tail(calls)
<1>1. calls # <<>> /\ s \in Statements /\ rest \in Seq(Statements) /\ proc = "up" /\ UNCHANGED <<access, screen>>
  BY HeadElems DEF Statement, ActivityTypeOK
<1>2. s.sw \in Modes /\ s.on \in BOOLEAN
  BY <1>1 DEF Statements
<1>3. \/ SetChecked(s.sw, s.on, rest) /\ UNCHANGED from
      \/ SetChecked(s.sw, from[Other(s.sw)], rest) /\ UNCHANGED from
      \/ EnsureAssist(s.sw, rest) /\ UNCHANGED <<checked, broadcasting, intents>>
      \/ DropAssist(s.sw, rest) /\ UNCHANGED <<checked, from, broadcasting, intents>>
      \/ from' = NoFrom /\ calls' = rest /\ UNCHANGED <<checked, broadcasting, intents>>
      \/ /\ broadcasting' = broadcasting \ {s.sw}
         /\ calls' = rest
         /\ UNCHANGED <<checked, from, intents>>
  BY DEF Statement
<1> HIDE DEF s, rest
<1>4. from[Other(s.sw)] \in BOOLEAN
  BY <1>2, OtherType DEF ActivityTypeOK
<1>5. /\ <<Set("assist", TRUE)>> \o rest \in Seq(Statements)
      /\ <<Set("assist", FALSE)>> \o rest \in Seq(Statements)
  BY <1>1, BeforeElems DEF SetOn, SetOff
<1>6. NoFrom \in [Apps -> BOOLEAN]
  BY DEF NoFrom
<1>7. CASE SetChecked(s.sw, s.on, rest) /\ UNCHANGED from
  BY <1>1, <1>2, <1>7, SetCheckedIs DEF ActivityTypeOK
<1>8. CASE SetChecked(s.sw, from[Other(s.sw)], rest) /\ UNCHANGED from
  BY <1>1, <1>2, <1>4, <1>8, SetCheckedIs DEF ActivityTypeOK
<1>9. CASE EnsureAssist(s.sw, rest) /\ UNCHANGED <<checked, broadcasting, intents>>
  BY <1>1, <1>2, <1>5, <1>9 DEF ActivityTypeOK, EnsureAssist
<1>10. CASE DropAssist(s.sw, rest) /\ UNCHANGED <<checked, from, broadcasting, intents>>
  BY <1>1, <1>2, <1>5, <1>10 DEF ActivityTypeOK, DropAssist
<1>11. CASE from' = NoFrom /\ calls' = rest /\ UNCHANGED <<checked, broadcasting, intents>>
  BY <1>1, <1>6, <1>11 DEF ActivityTypeOK
<1>12. CASE /\ broadcasting' = broadcasting \ {s.sw}
            /\ calls' = rest
            /\ UNCHANGED <<checked, from, intents>>
  BY <1>1, <1>12 DEF ActivityTypeOK
<1> QED
  BY <1>3, <1>7, <1>8, <1>9, <1>10, <1>11, <1>12

\* The statements, told apart by what they are.
LEMMA StatementIs ==
    ASSUME ActivityTypeOK, Statement, NEW s, s = Head(calls), NEW rest, rest = Tail(calls)
    PROVE  /\ \A m : s = SetOn(m) => SetChecked(m, TRUE, rest) /\ UNCHANGED from
           /\ \A m : s = SetOff(m) => SetChecked(m, FALSE, rest) /\ UNCHANGED from
           /\ \A a : s = Stmt("setFrom", a) => SetChecked(a, from[Other(a)], rest) /\ UNCHANGED from
           /\ \A a : s = Stmt("ensureAssist", a) =>
                EnsureAssist(a, rest) /\ UNCHANGED <<checked, broadcasting, intents>>
           /\ \A a : s = Stmt("dropAssist", a) =>
                DropAssist(a, rest) /\ UNCHANGED <<checked, from, broadcasting, intents>>
           /\ \A a : s = Stmt("resetFrom", a) =>
                from' = NoFrom /\ calls' = rest /\ UNCHANGED <<checked, broadcasting, intents>>
           /\ \A m : s = Stmt("return", m) =>
                /\ broadcasting' = broadcasting \ {m} /\ calls' = rest
                /\ UNCHANGED <<checked, from, intents>>
<1>1. \/ s.op = "set" /\ SetChecked(s.sw, s.on, rest) /\ UNCHANGED from
      \/ s.op = "setFrom" /\ SetChecked(s.sw, from[Other(s.sw)], rest) /\ UNCHANGED from
      \/ s.op = "ensureAssist" /\ EnsureAssist(s.sw, rest) /\ UNCHANGED <<checked, broadcasting, intents>>
      \/ s.op = "dropAssist" /\ DropAssist(s.sw, rest) /\ UNCHANGED <<checked, from, broadcasting, intents>>
      \/ s.op = "resetFrom" /\ from' = NoFrom /\ calls' = rest /\ UNCHANGED <<checked, broadcasting, intents>>
      \/ /\ s.op = "return" /\ broadcasting' = broadcasting \ {s.sw}
         /\ calls' = rest
         /\ UNCHANGED <<checked, from, intents>>
  BY DEF Statement
<1>2. ASSUME NEW m, s = SetOn(m) PROVE SetChecked(m, TRUE, rest) /\ UNCHANGED from
  <2>1. s.op = "set" /\ s.sw = m /\ s.on = TRUE
    BY <1>2, StatementFields
  <2> QED
    BY <1>1, <2>1
<1>3. ASSUME NEW m, s = SetOff(m) PROVE SetChecked(m, FALSE, rest) /\ UNCHANGED from
  <2>1. s.op = "set" /\ s.sw = m /\ s.on = FALSE
    BY <1>3, StatementFields
  <2> QED
    BY <1>1, <2>1
<1>4. ASSUME NEW a, s = Stmt("setFrom", a)
      PROVE  SetChecked(a, from[Other(a)], rest) /\ UNCHANGED from
  <2>1. s.op = "setFrom" /\ s.sw = a
    BY <1>4, StatementFields
  <2> QED
    BY <1>1, <2>1
<1>5. ASSUME NEW a, s = Stmt("ensureAssist", a)
      PROVE  EnsureAssist(a, rest) /\ UNCHANGED <<checked, broadcasting, intents>>
  <2>1. s.op = "ensureAssist" /\ s.sw = a
    BY <1>5, StatementFields
  <2> QED
    BY <1>1, <2>1
<1>6. ASSUME NEW a, s = Stmt("dropAssist", a)
      PROVE  DropAssist(a, rest) /\ UNCHANGED <<checked, from, broadcasting, intents>>
  <2>1. s.op = "dropAssist" /\ s.sw = a
    BY <1>6, StatementFields
  <2> QED
    BY <1>1, <2>1
<1>7. ASSUME NEW a, s = Stmt("resetFrom", a)
      PROVE  from' = NoFrom /\ calls' = rest /\ UNCHANGED <<checked, broadcasting, intents>>
  <2>1. s.op = "resetFrom" /\ s.sw = a
    BY <1>7, StatementFields
  <2> QED
    BY <1>1, <2>1
<1>8. ASSUME NEW a, s = Stmt("return", a)
      PROVE  broadcasting' = broadcasting \ {a} /\ calls' = rest /\ UNCHANGED <<checked, from, intents>>
  <2>1. s.op = "return" /\ s.sw = a
    BY <1>8, StatementFields
  <2> QED
    BY <1>1, <2>1
<1> QED
  BY <1>2, <1>3, <1>4, <1>5, <1>6, <1>7, <1>8

\* Between taps: a restored switch shows its value already, and a tap begins.
LEMMA StartingStep ==
    ASSUME ActivityTypeOK, Starting(checked, from, broadcasting, calls), Statement
    PROVE  SwitchesOK' /\ (UNCHANGED <<checked, intents>> \/ Announced)
<1> DEFINE s == Head(calls)
           rest == Tail(calls)
<1>1. /\ calls # <<>> /\ s \in Statements /\ rest \in Seq(Statements)
      /\ Elems(calls) = {s} \cup Elems(rest)
  BY HeadElems DEF Statement, ActivityTypeOK
<1>2. checked \in [Modes -> BOOLEAN] /\ Consistent(checked) /\ broadcasting = {} /\ from = NoFrom
  BY DEF Starting, ActivityTypeOK
<1>3. CASE \A t \in Elems(calls) : \E m \in Modes : t = Set(m, checked[m])
  <2>1. PICK m \in Modes : s = Set(m, checked[m])
    BY <1>1, <1>3
  <2>2. s = (IF checked[m] THEN SetOn(m) ELSE SetOff(m))
    BY <1>2, <2>1 DEF SetOn, SetOff
  <2>3. /\ checked[m] => SetChecked(m, TRUE, rest)
        /\ ~checked[m] => SetChecked(m, FALSE, rest)
        /\ UNCHANGED from
    BY <2>2, StatementIs
  <2> HIDE DEF s, rest
  <2>4. calls' = rest /\ UNCHANGED <<checked, broadcasting, intents>>
    BY <1>1, <2>3, SetOnIs, SetOffIs
  <2>5. Starting(checked, from, broadcasting, rest)
    BY <1>1, <1>2, <1>3 DEF Starting
  <2> QED
    BY <2>3, <2>4, <2>5 DEF SwitchesOK
<1>4. CASE \E m \in Modes, v \in BOOLEAN : calls = <<Set(m, v)>>
  <2>1. PICK m \in Modes, v \in BOOLEAN : calls = <<Set(m, v)>>
    BY <1>4
  <2>2. s = Set(m, v) /\ rest = <<>>
    BY <2>1
  <2>3. s = (IF v THEN SetOn(m) ELSE SetOff(m))
    BY <2>2 DEF SetOn, SetOff
  <2>4. /\ v => SetChecked(m, TRUE, rest)
        /\ ~v => SetChecked(m, FALSE, rest)
        /\ UNCHANGED from
    BY <2>3, StatementIs
  <2> HIDE DEF s, rest
  <2>5. Elems(rest) = {}
    BY <2>2, NoElems
  <2>6. CASE checked[m] <=> v
    <3>1. calls' = rest /\ UNCHANGED <<checked, broadcasting, intents>>
      BY <1>1, <2>4, <2>6, SetOnIs, SetOffIs
    <3>2. Starting(checked, from, broadcasting, rest)
      BY <1>2, <2>5 DEF Starting
    <3> QED
      BY <2>4, <3>1, <3>2 DEF SwitchesOK
  <2>7. CASE v /\ ~checked[m]
    <3>1. /\ Announced
          /\ checked' = [checked EXCEPT ![m] = TRUE] /\ broadcasting' = {} \cup {m}
          /\ Elems(calls') = Elems(TurnedOn(m)) \cup {}
      BY <1>1, <1>2, <2>4, <2>5, <2>7, SetOnIs
    <3>2. Elems(calls') = Elems(TurnedOn(m)) /\ from' = NoFrom /\ broadcasting' = {m}
      BY <1>2, <2>4, <3>1
    <3>3. \/ TurningOff(checked', from', broadcasting', Elems(calls'))
          \/ TurningOn(checked', from', broadcasting', Elems(calls'))
      BY <1>2, <2>7, <3>1, <3>2, TapBegins
    <3> QED
      BY <3>1, <3>3 DEF SwitchesOK
  <2>8. CASE ~v /\ checked[m]
    <3>1. /\ Announced
          /\ checked' = [checked EXCEPT ![m] = FALSE] /\ broadcasting' = {} \cup {m}
          /\ Elems(calls') = Elems(TurnedOff(m)) \cup {}
      BY <1>1, <1>2, <2>4, <2>5, <2>8, SetOffIs
    <3>2. Elems(calls') = Elems(TurnedOff(m)) /\ from' = NoFrom /\ broadcasting' = {m}
      BY <1>2, <2>4, <3>1
    <3>3. TurningOff(checked', from', broadcasting', Elems(calls'))
      BY <1>2, <2>8, <3>1, <3>2, TapBegins
    <3> QED
      BY <3>1, <3>3 DEF SwitchesOK
  <2> QED
    BY <2>6, <2>7, <2>8
<1> QED
  BY <1>3, <1>4 DEF Starting

\* A tap that switches off.
LEMMA OffStep ==
    ASSUME ActivityTypeOK, TurningOff(checked, from, broadcasting, Elems(calls)), Statement
    PROVE  SwitchesOK' /\ (UNCHANGED <<checked, intents>> \/ Announced)
<1> DEFINE s == Head(calls)
           rest == Tail(calls)
           R == Elems(rest)
<1>1. /\ s \in Statements /\ rest \in Seq(Statements) /\ Elems(calls) = {s} \cup R
  BY HeadElems DEF Statement, ActivityTypeOK
<1>2. checked \in [Modes -> BOOLEAN]
  BY DEF ActivityTypeOK
<1>3. \/ \E m \in {"assist"} \cup Apps : s = SetOff(m)
      \/ \E a \in Apps : s = Stmt("dropAssist", a)
      \/ \E m \in Modes : s = Stmt("return", m)
  BY <1>1 DEF TurningOff
<1>4. TurningOff(checked, from, broadcasting, {s} \cup R)
  BY <1>1
<1>5. /\ \A m : s = SetOff(m) => SetChecked(m, FALSE, rest) /\ UNCHANGED from
      /\ \A a : s = Stmt("dropAssist", a) =>
            DropAssist(a, rest) /\ UNCHANGED <<checked, from, broadcasting, intents>>
      /\ \A m : s = Stmt("return", m) =>
            /\ broadcasting' = broadcasting \ {m} /\ calls' = rest
            /\ UNCHANGED <<checked, from, intents>>
  BY StatementIs
<1> HIDE DEF s, rest
<1>6. ASSUME NEW m \in {"assist"} \cup Apps, s = SetOff(m)
      PROVE  SwitchesOK' /\ (UNCHANGED <<checked, intents>> \/ Announced)
  <2>1. SetChecked(m, FALSE, rest) /\ UNCHANGED from /\ m \in Modes
    BY <1>5, <1>6, ModesAre
  <2>2. IF checked[m] THEN /\ m \notin broadcasting
                           /\ TurningOff([checked EXCEPT ![m] = FALSE], from, broadcasting \cup {m},
                                         Elems(TurnedOff(m)) \cup R)
        ELSE TurningOff(checked, from, broadcasting, R)
    BY <1>2, <1>4, <1>6, OffSet
  <2> HIDE DEF R
  <2>3. CASE checked[m]
    <3>1. /\ Announced
          /\ checked' = [checked EXCEPT ![m] = FALSE] /\ broadcasting' = broadcasting \cup {m}
          /\ Elems(calls') = Elems(TurnedOff(m)) \cup R
      BY <1>1, <1>2, <2>1, <2>2, <2>3, SetOffIs DEF R
    <3> QED
      BY <2>1, <2>2, <2>3, <3>1 DEF SwitchesOK
  <2>4. CASE ~checked[m]
    <3>1. calls' = rest /\ UNCHANGED <<checked, broadcasting, intents>>
      BY <1>1, <1>2, <2>1, <2>4, SetOffIs
    <3> QED
      BY <2>1, <2>2, <2>4, <3>1 DEF SwitchesOK, R
  <2> QED
    BY <2>3, <2>4
<1>7. ASSUME NEW a \in Apps, s = Stmt("dropAssist", a)
      PROVE  SwitchesOK' /\ (UNCHANGED <<checked, intents>> \/ Announced)
  <2>1. DropAssist(a, rest) /\ UNCHANGED <<checked, from, broadcasting, intents>>
    BY <1>5, <1>7
  <2>2. TurningOff(checked, from, broadcasting, IF checked[Other(a)] THEN R ELSE {SetOff("assist")} \cup R)
    BY <1>2, <1>4, <1>7, OffDrop
  <2>3. Elems(calls') = IF checked[Other(a)] THEN R ELSE {SetOff("assist")} \cup R
    BY <1>1, <2>1, BeforeElems DEF DropAssist, SetOff
  <2> QED
    BY <2>1, <2>2, <2>3 DEF SwitchesOK
<1>8. ASSUME NEW m \in Modes, s = Stmt("return", m)
      PROVE  SwitchesOK' /\ (UNCHANGED <<checked, intents>> \/ Announced)
  <2>1. /\ broadcasting' = broadcasting \ {m} /\ calls' = rest
        /\ UNCHANGED <<checked, from, intents>>
    BY <1>5, <1>8
  <2>2. TurningOff(checked, from, broadcasting \ {m}, R)
    BY <1>2, <1>4, <1>8, OffReturn
  <2> QED
    BY <2>1, <2>2 DEF SwitchesOK
<1> QED
  BY <1>3, <1>6, <1>7, <1>8

\* A tap that switches the bot on.
LEMMA OnStep ==
    ASSUME ActivityTypeOK, TurningOn(checked, from, broadcasting, Elems(calls)), Statement
    PROVE  SwitchesOK' /\ (UNCHANGED <<checked, intents>> \/ Announced)
<1> DEFINE s == Head(calls)
           rest == Tail(calls)
           R == Elems(rest)
<1>1. /\ s \in Statements /\ rest \in Seq(Statements) /\ Elems(calls) = {s} \cup R
  BY HeadElems DEF Statement, ActivityTypeOK
<1>2. checked \in [Modes -> BOOLEAN]
  BY DEF ActivityTypeOK
<1>3. \/ s = SetOff("notify") \/ s = SetOn("assist") \/ s = Stmt("resetFrom", "assist")
      \/ \E a \in Apps : s = Stmt("setFrom", a) \/ s = Stmt("ensureAssist", a)
      \/ \E m \in Modes : s = Stmt("return", m)
  BY <1>1 DEF TurningOn
<1>4. TurningOn(checked, from, broadcasting, {s} \cup R)
  BY <1>1
<1>5. /\ \A m : s = SetOn(m) => SetChecked(m, TRUE, rest) /\ UNCHANGED from
      /\ \A m : s = SetOff(m) => SetChecked(m, FALSE, rest) /\ UNCHANGED from
      /\ \A a : s = Stmt("setFrom", a) => SetChecked(a, from[Other(a)], rest) /\ UNCHANGED from
      /\ \A a : s = Stmt("ensureAssist", a) =>
           EnsureAssist(a, rest) /\ UNCHANGED <<checked, broadcasting, intents>>
      /\ \A a : s = Stmt("resetFrom", a) =>
           from' = NoFrom /\ calls' = rest /\ UNCHANGED <<checked, broadcasting, intents>>
      /\ \A m : s = Stmt("return", m) =>
           /\ broadcasting' = broadcasting \ {m} /\ calls' = rest
           /\ UNCHANGED <<checked, from, intents>>
  BY StatementIs
<1> HIDE DEF s, rest
<1>6. CASE s = SetOff("notify")
  <2>1. SetChecked("notify", FALSE, rest) /\ UNCHANGED from /\ "notify" \in Modes
    BY <1>5, <1>6, ModesAre
  <2>2. IF checked["notify"]
        THEN /\ "notify" \notin broadcasting
             /\ TurningOn([checked EXCEPT !["notify"] = FALSE], from, broadcasting \cup {"notify"},
                          Elems(TurnedOff("notify")) \cup R)
        ELSE TurningOn(checked, from, broadcasting, R)
    BY <1>2, <1>4, <1>6, OnNotifyOff
  <2> HIDE DEF R
  <2>3. CASE checked["notify"]
    <3>1. /\ Announced
          /\ checked' = [checked EXCEPT !["notify"] = FALSE]
          /\ broadcasting' = broadcasting \cup {"notify"}
          /\ Elems(calls') = Elems(TurnedOff("notify")) \cup R
      BY <1>1, <1>2, <2>1, <2>2, <2>3, SetOffIs DEF R
    <3> QED
      BY <2>1, <2>2, <2>3, <3>1 DEF SwitchesOK
  <2>4. CASE ~checked["notify"]
    <3>1. calls' = rest /\ UNCHANGED <<checked, broadcasting, intents>>
      BY <1>1, <1>2, <2>1, <2>4, SetOffIs
    <3> QED
      BY <2>1, <2>2, <2>4, <3>1 DEF SwitchesOK, R
  <2> QED
    BY <2>3, <2>4
<1>7. CASE s = SetOn("assist")
  <2>1. SetChecked("assist", TRUE, rest) /\ UNCHANGED from /\ "assist" \in Modes
    BY <1>5, <1>7, ModesAre
  <2>2. IF checked["assist"] THEN TurningOn(checked, from, broadcasting, R)
        ELSE /\ "assist" \notin broadcasting
             /\ TurningOn([checked EXCEPT !["assist"] = TRUE], from, broadcasting \cup {"assist"},
                          Elems(TurnedOn("assist")) \cup R)
    BY <1>2, <1>4, <1>7, OnAssistOn
  <2> HIDE DEF R
  <2>3. CASE ~checked["assist"]
    <3>1. /\ Announced
          /\ checked' = [checked EXCEPT !["assist"] = TRUE]
          /\ broadcasting' = broadcasting \cup {"assist"}
          /\ Elems(calls') = Elems(TurnedOn("assist")) \cup R
      BY <1>1, <1>2, <2>1, <2>2, <2>3, SetOnIs DEF R
    <3> QED
      BY <2>1, <2>2, <2>3, <3>1 DEF SwitchesOK
  <2>4. CASE checked["assist"]
    <3>1. calls' = rest /\ UNCHANGED <<checked, broadcasting, intents>>
      BY <1>1, <1>2, <2>1, <2>4, SetOnIs
    <3> QED
      BY <2>1, <2>2, <2>4, <3>1 DEF SwitchesOK, R
  <2> QED
    BY <2>3, <2>4
<1>8. ASSUME NEW a \in Apps, s = Stmt("setFrom", a)
      PROVE  SwitchesOK' /\ (UNCHANGED <<checked, intents>> \/ Announced)
  <2> DEFINE v == from[Other(a)]
  <2>1. SetChecked(a, v, rest) /\ UNCHANGED from /\ a \in Modes
    BY <1>5, <1>8, ModesAre
  <2>2. /\ v \in BOOLEAN
        /\ checked[a] => v
        /\ IF checked[a] = v THEN TurningOn(checked, from, broadcasting, R)
           ELSE /\ a \notin broadcasting
                /\ TurningOn([checked EXCEPT ![a] = TRUE], from, broadcasting \cup {a},
                             Elems(TurnedOn(a)) \cup R)
    BY <1>2, <1>4, <1>8, OnSetFrom
  <2> HIDE DEF R, v
  <2>3. checked[a] \in BOOLEAN
    BY <1>2, <2>1
  <2>4. CASE checked[a] # v
    <3>1. v = TRUE /\ ~checked[a]
      <4>1. v \in BOOLEAN /\ (checked[a] => v)
        BY <2>2
      <4>2. v = TRUE \/ v = FALSE
        BY <4>1
      <4>3. checked[a] = TRUE \/ checked[a] = FALSE
        BY <2>3
      <4> QED
        BY <2>4, <4>1, <4>2, <4>3
    <3>2. SetChecked(a, TRUE, rest)
      BY <2>1, <3>1, Zenon
    <3>3. a \notin broadcasting
      BY <2>2, <2>4
    <3>4. /\ Announced
          /\ checked' = [checked EXCEPT ![a] = TRUE]
          /\ broadcasting' = broadcasting \cup {a}
          /\ Elems(calls') = Elems(TurnedOn(a)) \cup R
      BY <1>1, <2>1, <3>1, <3>2, <3>3, SetOnIs DEF R
    <3> QED
      BY <2>1, <2>2, <2>4, <3>4 DEF SwitchesOK
  <2>5. CASE checked[a] = v
    <3>1. calls' = rest /\ UNCHANGED <<checked, broadcasting, intents>>
      BY <1>1, <2>1, <2>2, <2>5, SetCheckedIs, ZenonT(60)
    <3> QED
      BY <2>1, <2>2, <2>5, <3>1 DEF SwitchesOK, R
  <2> QED
    BY <2>4, <2>5
<1>9. ASSUME NEW a \in Apps, s = Stmt("ensureAssist", a)
      PROVE  SwitchesOK' /\ (UNCHANGED <<checked, intents>> \/ Announced)
  <2>1. EnsureAssist(a, rest) /\ UNCHANGED <<checked, broadcasting, intents>>
    BY <1>5, <1>9
  <2>2. IF checked["assist"] THEN TurningOn(checked, from, broadcasting, R)
        ELSE TurningOn(checked, [from EXCEPT ![a] = FALSE], broadcasting, {SetOn("assist")} \cup R)
    BY <1>2, <1>4, <1>9, OnEnsure
  <2>3. IF checked["assist"] THEN calls' = rest /\ from' = from
        ELSE from' = [from EXCEPT ![a] = FALSE] /\ Elems(calls') = {SetOn("assist")} \cup R
    BY <1>1, <2>1, BeforeElems DEF EnsureAssist, SetOn
  <2> QED
    BY <2>1, <2>2, <2>3 DEF SwitchesOK
<1>10. CASE s = Stmt("resetFrom", "assist")
  <2>1. from' = NoFrom /\ calls' = rest /\ UNCHANGED <<checked, broadcasting, intents>>
    BY <1>5, <1>10
  <2>2. TurningOn(checked, NoFrom, broadcasting, R)
    BY <1>2, <1>4, <1>10, OnReset
  <2> QED
    BY <2>1, <2>2 DEF SwitchesOK
<1>11. ASSUME NEW m \in Modes, s = Stmt("return", m)
       PROVE  SwitchesOK' /\ (UNCHANGED <<checked, intents>> \/ Announced)
  <2>1. /\ broadcasting' = broadcasting \ {m} /\ calls' = rest
        /\ UNCHANGED <<checked, from, intents>>
    BY <1>5, <1>11
  <2>2. TurningOn(checked, from, broadcasting \ {m}, R)
    BY <1>2, <1>4, <1>11, OnReturn
  <2> QED
    BY <2>1, <2>2 DEF SwitchesOK
<1> QED
  BY <1>3, <1>6, <1>7, <1>8, <1>9, <1>10, <1>11

LEMMA StatementStep ==
    ASSUME ActivityTypeOK, SwitchesOK, Statement
    PROVE  SwitchesOK' /\ (UNCHANGED <<checked, intents>> \/ Announced)
BY StartingStep, OffStep, OnStep DEF SwitchesOK

\* Between taps the switches show one mode at most.
LEMMA SwitchesAtRest ==
    ASSUME ActivityTypeOK, SwitchesOK, calls = <<>>
    PROVE  Consistent(checked) /\ broadcasting = {} /\ from = NoFrom
<1>1. Elems(calls) = {}
  BY NoElems
<1>2. CASE Starting(checked, from, broadcasting, calls)
  BY <1>2 DEF Starting
<1>3. CASE ~Starting(checked, from, broadcasting, calls)
  <2>1. \/ TurningOff(checked, from, broadcasting, {})
        \/ TurningOn(checked, from, broadcasting, {})
    BY <1>1, <1>3 DEF SwitchesOK
  <2>2. checked \in [Modes -> BOOLEAN]
    BY DEF ActivityTypeOK
  <2> QED
    BY <2>1, <2>2, AtRest
<1> QED
  BY <1>2, <1>3
-----------------------------------------------------------------------------
(* The broadcasts.                                                         *)

\* The broadcasts of a queue that are about m.
Pos(q, m) == {k \in 1 .. Len(q) : q[k].mode = m}

\* The broadcasts of q take the flags f to t, each changing what it is about.
Leads(f, q, t) ==
    \A m \in Modes :
        /\ Pos(q, m) = {} => f[m] = t[m]
        /\ \A k \in Pos(q, m) :
            /\ (\A l \in Pos(q, m) : k <= l) => q[k].on # f[m]
            /\ (\A l \in Pos(q, m) : l <= k) => q[k].on = t[m]
            /\ \A l \in Pos(q, m) :
                (k < l /\ \A j \in Pos(q, m) : j <= k \/ l <= j) => q[k].on # q[l].on

LEMMA LeadsNowhere ==
    ASSUME NEW f \in [Modes -> BOOLEAN], NEW t \in [Modes -> BOOLEAN]
    PROVE  Leads(f, <<>>, t) <=> f = t
<1>1. \A m : Pos(<<>>, m) = {}
  BY DEF Pos
<1> QED
  BY <1>1 DEF Leads

\* A change that is broadcast goes to the end of the queue,
LEMMA LeadsOn ==
    ASSUME NEW f \in [Modes -> BOOLEAN], NEW t \in [Modes -> BOOLEAN], NEW q \in Seq(Intents),
           NEW m \in Modes, NEW v \in BOOLEAN, v # t[m], Leads(f, q, t)
    PROVE  Leads(f, Append(q, [mode |-> m, on |-> v]), [t EXCEPT ![m] = v])
<1> DEFINE i == [mode |-> m, on |-> v]
           r == Append(q, i)
           u == [t EXCEPT ![m] = v]
<1>1. i \in Intents /\ i.mode = m /\ i.on = v
  BY DEF Intents
<1>2. /\ Len(q) \in Nat /\ Len(r) = Len(q) + 1
      /\ \A k \in 1 .. Len(q) : r[k] = q[k]
      /\ r[Len(q) + 1] = i
  BY <1>1, AppendProperties, LenProperties
<1>3. u[m] = v /\ \A n \in Modes : n # m => u[n] = t[n]
  OBVIOUS
<1>4. \A k \in 1 .. Len(r) : k \in 1 .. Len(q) \/ k = Len(q) + 1
  BY <1>2
<1>5. \A k \in 1 .. Len(q) : k \in 1 .. Len(r) /\ k < Len(q) + 1 /\ k \in Int
  BY <1>2
<1>6. Len(q) + 1 \in 1 .. Len(r)
  BY <1>2
<1> HIDE DEF i, r, u
<1>7. /\ Pos(r, m) = Pos(q, m) \cup {Len(q) + 1}
      /\ \A n \in Modes : n # m => Pos(r, n) = Pos(q, n)
      /\ \A n : Pos(q, n) \subseteq 1 .. Len(q)
  BY <1>1, <1>2, <1>4, <1>5, <1>6 DEF Pos
<1>8. ASSUME NEW n \in Modes, n # m
      PROVE  /\ Pos(r, n) = {} => f[n] = u[n]
             /\ \A k \in Pos(r, n) :
                  /\ (\A l \in Pos(r, n) : k <= l) => r[k].on # f[n]
                  /\ (\A l \in Pos(r, n) : l <= k) => r[k].on = u[n]
                  /\ \A l \in Pos(r, n) :
                        (k < l /\ \A j \in Pos(r, n) : j <= k \/ l <= j) => r[k].on # r[l].on
  <2>1. Pos(r, n) = Pos(q, n) /\ \A k \in Pos(q, n) : r[k] = q[k]
    BY <1>2, <1>7, <1>8
  <2> QED
    BY <1>3, <1>8, <2>1 DEF Leads
<1>9. Pos(r, m) # {}
  BY <1>7
<1>10. ASSUME NEW k \in Pos(q, m)
       PROVE  /\ k \in 1 .. Len(q) /\ r[k] = q[k] /\ k < Len(q) + 1 /\ k \in Int
              /\ (\A l \in Pos(r, m) : k <= l) => r[k].on # f[m]
              /\ ~(\A l \in Pos(r, m) : l <= k)
              /\ \A l \in Pos(r, m) :
                    (k < l /\ \A j \in Pos(r, m) : j <= k \/ l <= j) => r[k].on # r[l].on
  <2>1. k \in 1 .. Len(q) /\ r[k] = q[k] /\ k < Len(q) + 1 /\ k \in Int
    BY <1>2, <1>5, <1>7
  <2>2. (\A l \in Pos(r, m) : k <= l) => r[k].on # f[m]
    BY <1>7, <2>1 DEF Leads
  <2>3. ~(\A l \in Pos(r, m) : l <= k)
    BY <1>2, <1>7, <2>1
  <2>4. ASSUME NEW l \in Pos(r, m), k < l, \A j \in Pos(r, m) : j <= k \/ l <= j
        PROVE  r[k].on # r[l].on
    <3>1. CASE l \in Pos(q, m)
      BY <1>2, <1>7, <2>1, <2>4, <3>1 DEF Leads
    <3>2. CASE l = Len(q) + 1
      <4>1. \A j \in Pos(q, m) : j <= k
        BY <1>2, <1>5, <1>7, <2>1, <2>4, <3>2
      <4>2. q[k].on = t[m]
        BY <4>1 DEF Leads
      <4> QED
        BY <1>1, <1>2, <2>1, <3>2, <4>2
    <3> QED
      BY <1>7, <3>1, <3>2
  <2> QED
    BY <2>1, <2>2, <2>3, <2>4
<1>11. ASSUME NEW k, k = Len(q) + 1
       PROVE  /\ (\A l \in Pos(r, m) : k <= l) => r[k].on # f[m]
              /\ r[k].on = u[m]
              /\ \A l \in Pos(r, m) : ~(k < l)
  <2>1. r[k].on = v
    BY <1>1, <1>2, <1>11
  <2>2. ASSUME \A l \in Pos(r, m) : k <= l PROVE r[k].on # f[m]
    <3>1. Pos(q, m) = {}
      BY <1>2, <1>5, <1>7, <1>11, <2>2
    <3> QED
      BY <2>1, <3>1 DEF Leads
  <2>3. \A l \in Pos(r, m) : ~(k < l)
    BY <1>2, <1>5, <1>7, <1>11
  <2> QED
    BY <1>3, <2>1, <2>2, <2>3
<1>12. \A k \in Pos(r, m) : k \in Pos(q, m) \/ k = Len(q) + 1
  BY <1>7
<1>13. /\ Pos(r, m) = {} => f[m] = u[m]
       /\ \A k \in Pos(r, m) :
            /\ (\A l \in Pos(r, m) : k <= l) => r[k].on # f[m]
            /\ (\A l \in Pos(r, m) : l <= k) => r[k].on = u[m]
            /\ \A l \in Pos(r, m) :
                  (k < l /\ \A j \in Pos(r, m) : j <= k \/ l <= j) => r[k].on # r[l].on
  BY <1>9, <1>10, <1>11, <1>12
<1>14. Leads(f, r, u)
  BY <1>8, <1>13 DEF Leads
<1> QED
  BY <1>14 DEF r, u, i

\* and the oldest broadcast changes its flag.
LEMMA LeadsDelivered ==
    ASSUME NEW f \in [Modes -> BOOLEAN], NEW t \in [Modes -> BOOLEAN], NEW q \in Seq(Intents),
           q # <<>>, Leads(f, q, t)
    PROVE  /\ Head(q).mode \in Modes /\ Head(q).on \in BOOLEAN /\ Head(q).on # f[Head(q).mode]
           /\ Leads([f EXCEPT ![Head(q).mode] = Head(q).on], Tail(q), t)
<1> DEFINE i == Head(q)
           m == i.mode
           r == Tail(q)
           g == [f EXCEPT ![m] = i.on]
<1>1. /\ i \in Intents /\ i = q[1] /\ Len(q) \in Nat /\ Len(q) > 0
      /\ Len(r) = Len(q) - 1
      /\ \A k \in 1 .. Len(r) : r[k] = q[k + 1]
  BY HeadTailProperties, LenProperties
<1>2. m \in Modes /\ i.on \in BOOLEAN
  BY <1>1 DEF Intents
<1>3. g[m] = i.on /\ \A n \in Modes : n # m => g[n] = f[n]
  BY <1>2
<1>4. \A k \in 1 .. Len(q) : k \in Int /\ 1 <= k /\ (k = 1 \/ (k - 1 \in 1 .. Len(r) /\ q[k] = r[k - 1]))
  <2>1. ASSUME NEW k \in 1 .. Len(q), k # 1
        PROVE  k - 1 \in 1 .. Len(r) /\ q[k] = r[k - 1]
    <3>1. k - 1 \in 1 .. Len(r) /\ (k - 1) + 1 = k
      BY <1>1, <2>1
    <3> QED
      BY <1>1, <3>1
  <2> QED
    BY <1>1, <2>1
<1>5. \A k \in 1 .. Len(r) : k \in Int /\ k + 1 \in 1 .. Len(q) /\ r[k] = q[k + 1] /\ k + 1 # 1
  BY <1>1
<1>6. 1 \in 1 .. Len(q)
  BY <1>1
<1> HIDE DEF i, m, r, g
<1>7. /\ \A n, k : k \in Pos(r, n) => k \in 1 .. Len(r) /\ k + 1 \in Pos(q, n) /\ r[k] = q[k + 1]
      /\ \A n, k : k \in Pos(q, n) => (k = 1 /\ n = m) \/ k - 1 \in Pos(r, n)
      /\ \A n : Pos(q, n) \subseteq 1 .. Len(q)
      /\ 1 \in Pos(q, m)
  <2>1. ASSUME NEW n, NEW k, k \in Pos(r, n)
        PROVE  k \in 1 .. Len(r) /\ k + 1 \in Pos(q, n) /\ r[k] = q[k + 1]
    BY <1>5, <2>1 DEF Pos
  <2>2. ASSUME NEW n, NEW k, k \in Pos(q, n), ~(k = 1 /\ n = m)
        PROVE  k - 1 \in Pos(r, n)
    <3>1. k \in 1 .. Len(q) /\ q[k].mode = n
      BY <2>2 DEF Pos
    <3>2. k # 1
      BY <1>1, <2>2, <3>1 DEF m
    <3> QED
      BY <1>4, <3>1, <3>2 DEF Pos
  <2>3. 1 \in Pos(q, m)
    BY <1>1, <1>6 DEF Pos, m
  <2> QED
    BY <2>1, <2>2, <2>3 DEF Pos
<1>8. i.on # f[m]
  <2>1. \A l \in Pos(q, m) : 1 <= l
    BY <1>4, <1>7
  <2> QED
    BY <1>1, <1>2, <1>7, <2>1 DEF Leads
<1>9. ASSUME NEW n \in Modes, Pos(r, n) = {}
      PROVE  g[n] = t[n]
  <2>1. CASE n = m
    <3>1. \A l \in Pos(q, m) : l <= 1
      BY <1>4, <1>7, <1>9, <2>1
    <3>2. q[1].on = t[m]
      BY <1>2, <1>7, <3>1 DEF Leads
    <3> QED
      BY <1>1, <1>3, <2>1, <3>2
  <2>2. CASE n # m
    <3>1. Pos(q, n) = {}
      BY <1>7, <1>9, <2>2
    <3> QED
      BY <1>3, <2>2, <3>1 DEF Leads
  <2> QED
    BY <2>1, <2>2
<1>10. ASSUME NEW n \in Modes, NEW k \in Pos(r, n)
       PROVE  /\ (\A l \in Pos(r, n) : k <= l) => r[k].on # g[n]
              /\ (\A l \in Pos(r, n) : l <= k) => r[k].on = t[n]
              /\ \A l \in Pos(r, n) :
                    (k < l /\ \A j \in Pos(r, n) : j <= k \/ l <= j) => r[k].on # r[l].on
  <2>1. k \in Int /\ 1 <= k /\ k + 1 \in Pos(q, n) /\ r[k] = q[k + 1]
    BY <1>5, <1>7
  <2>2. \A l \in Pos(q, n) : l \in Int /\ 1 <= l
    BY <1>4, <1>7
  <2>3. ASSUME \A l \in Pos(r, n) : k <= l PROVE r[k].on # g[n]
    <3>1. \A l \in Pos(q, n) : l = 1 \/ k + 1 <= l
      <4>1. ASSUME NEW l \in Pos(q, n), l # 1 PROVE k + 1 <= l
        <5>1. l - 1 \in Pos(r, n)
          BY <1>7, <4>1
        <5>2. k <= l - 1
          BY <2>3, <5>1
        <5> QED
          BY <2>1, <2>2, <5>2
      <4> QED
        BY <4>1
    <3>2. CASE n = m
      <4>1. q[1].on # q[k + 1].on
        <5>1. 1 \in Pos(q, n) /\ 1 < k + 1 /\ \A j \in Pos(q, n) : j <= 1 \/ k + 1 <= j
          BY <1>7, <2>1, <3>1, <3>2
        <5> QED
          BY <2>1, <5>1 DEF Leads
      <4> QED
        BY <1>1, <1>3, <2>1, <3>2, <4>1
    <3>3. CASE n # m
      <4>1. 1 \notin Pos(q, n)
        BY <1>1, <3>3 DEF Pos, m
      <4>2. \A l \in Pos(q, n) : k + 1 <= l
        BY <3>1, <4>1
      <4>3. q[k + 1].on # f[n]
        BY <2>1, <4>2 DEF Leads
      <4> QED
        BY <1>3, <2>1, <3>3, <4>3
    <3> QED
      BY <3>2, <3>3
  <2>4. ASSUME \A l \in Pos(r, n) : l <= k PROVE r[k].on = t[n]
    <3>1. \A l \in Pos(q, n) : l <= k + 1
      <4>1. ASSUME NEW l \in Pos(q, n), l # 1 PROVE l <= k + 1
        <5>1. l - 1 \in Pos(r, n)
          BY <1>7, <4>1
        <5>2. l - 1 <= k
          BY <2>4, <5>1
        <5> QED
          BY <2>1, <2>2, <5>2
      <4> QED
        BY <2>1, <4>1
    <3>2. q[k + 1].on = t[n]
      BY <2>1, <3>1 DEF Leads
    <3> QED
      BY <2>1, <3>2
  <2>5. ASSUME NEW l \in Pos(r, n), k < l, \A j \in Pos(r, n) : j <= k \/ l <= j
        PROVE  r[k].on # r[l].on
    <3>1. l \in Int /\ l + 1 \in Pos(q, n) /\ r[l] = q[l + 1]
      BY <1>5, <1>7
    <3>2. \A j \in Pos(q, n) : j <= k + 1 \/ l + 1 <= j
      <4>1. ASSUME NEW j \in Pos(q, n), j # 1 PROVE j <= k + 1 \/ l + 1 <= j
        <5>1. j - 1 \in Pos(r, n)
          BY <1>7, <4>1
        <5>2. j - 1 <= k \/ l <= j - 1
          BY <2>5, <5>1
        <5> QED
          BY <2>1, <2>2, <3>1, <5>2
      <4> QED
        BY <2>1, <4>1
    <3>3. k + 1 < l + 1
      BY <2>1, <2>5, <3>1
    <3>4. q[k + 1].on # q[l + 1].on
      BY <2>1, <3>1, <3>2, <3>3 DEF Leads
    <3> QED
      BY <2>1, <3>1, <3>4
  <2> QED
    BY <2>3, <2>4, <2>5
<1>11. Leads(g, r, t)
  BY <1>9, <1>10 DEF Leads
<1> QED
  BY <1>2, <1>8, <1>11 DEF i, m, r, g
-----------------------------------------------------------------------------
(* The inductive invariant.                                                *)

\* The activity shows the switches, under a dialog or the settings perhaps.
Shown == screen \in {"main", "dialog", "settings"}

\* The broadcasts on their way take the preferences to what the switches show
\* or, when there are no switches, to a consistent choice of modes.
QueueOK ==
    IF Shown THEN Leads(prefs.on, intents, checked)
    ELSE \E t \in [Modes -> BOOLEAN] : Consistent(t) /\ Leads(prefs.on, intents, t)

\* An activity without switches runs no listener, a service that is down gets
\* no broadcasts, and in a dead process there is neither.
AppShape ==
    /\ ~Shown => calls = <<>>
    /\ phase = "down" => intents = <<>>
    /\ proc # "up" => phase = "down" /\ screen = "closed"

\* messagesListener is registered once by the bound object in Notify mode, and
\* by no object that is gone.
Registered ==
    \A i \in Instances :
        observers[i] = IF i = cur /\ phase = "connected" /\ enabled[i]["notify"] THEN 1 ELSE 0

AppTypes == IInv /\ ActivityTypeOK /\ disturbed \in BOOLEAN /\ AppShape

Undisturbed ==
    /\ SwitchesOK
    /\ QueueOK
    /\ DisconnectsOnDestroy => Registered /\ BotGreeted

AppInv == AppTypes /\ (~disturbed => Undisturbed)

\* No mode is one mode at most.
LEMMA AllOffConsistent == AllOff \in [Modes -> BOOLEAN] /\ Consistent(AllOff)
BY DEF AllOff, Consistent, Modes

\* When no listener runs the broadcasts end in a consistent choice,
LEMMA SettledLeads ==
    ASSUME ActivityTypeOK, SwitchesOK, QueueOK, calls = <<>>
    PROVE  \E t \in [Modes -> BOOLEAN] : Consistent(t) /\ Leads(prefs.on, intents, t)
<1>1. CASE Shown
  <2>1. Leads(prefs.on, intents, checked) /\ Consistent(checked) /\ checked \in [Modes -> BOOLEAN]
    BY <1>1, SwitchesAtRest DEF QueueOK, ActivityTypeOK
  <2> QED
    BY <2>1
<1>2. CASE ~Shown
  BY <1>2 DEF QueueOK
<1> QED
  BY <1>1, <1>2

\* and when there are none the preferences are what the switches show.
LEMMA EmptyLeads ==
    ASSUME ActivityTypeOK, SwitchesOK, QueueOK, calls = <<>>, intents = <<>>,
           prefs.on \in [Modes -> BOOLEAN]
    PROVE  Consistent(prefs.on) /\ (Shown => checked = prefs.on)
<1>1. CASE Shown
  <2>1. Leads(prefs.on, <<>>, checked) /\ Consistent(checked) /\ checked \in [Modes -> BOOLEAN]
    BY <1>1, SwitchesAtRest DEF QueueOK, ActivityTypeOK
  <2> QED
    BY <2>1, LeadsNowhere
<1>2. CASE ~Shown
  <2>1. PICK t \in [Modes -> BOOLEAN] : Consistent(t) /\ Leads(prefs.on, <<>>, t)
    BY <1>2 DEF QueueOK
  <2> QED
    BY <1>2, <2>1, LeadsNowhere
<1> QED
  BY <1>1, <1>2

\* A step that changes neither the switches nor the broadcasts nor the flags in
\* the preferences.
LEMMA SameSwitches ==
    ASSUME SwitchesOK, QueueOK, prefs'.on = prefs.on, Shown' = Shown,
           UNCHANGED <<checked, from, broadcasting, calls, intents>>
    PROVE  SwitchesOK' /\ QueueOK'
<1>1. SwitchesOK'
  BY DEF SwitchesOK
<1>2. QueueOK'
  BY DEF QueueOK
<1> QED
  BY <1>1, <1>2

\* The activity's steps leave the service's state alone, but for the queue.
LEMMA FrameService ==
    ASSUME IInv, ActivityFrame, intents' \in Seq(Intents)
    PROVE  /\ IInv'
           /\ Registered => Registered'
           /\ BotGreeted => BotGreeted'
<1> USE DEF ActivityFrame, objectVars, replyVars, historyVars
<1>1. TypeOK'
  BY QuietType DEF IInv, TypeOK, PhoneTypeOK
<1>2. /\ Bound' /\ PrefsMirror' /\ NotifyListens' /\ HashMapRoutes' /\ RelayRoutes'
  BY QuietType DEF IInv, Bound, PrefsMirror, NotifyListens, HashMapRoutes, RelayRoutes
<1>3. Registered => Registered'
  BY DEF Registered
<1>4. BotGreeted => BotGreeted'
  BY DEF BotGreeted, ListedGreeted, FieldsGreeted, TasksGreeted, LastAnswerGreeted, Quiet
<1> QED
  BY <1>1, <1>2, <1>3, <1>4 DEF IInv

\* An activity that is gone.
LEMMA DroppedActivity ==
    ASSUME DropActivity
    PROVE  /\ screen' = "closed" /\ ~Shown' /\ calls' = <<>>
           /\ SwitchesOK'
           /\ checked' \in [Modes -> BOOLEAN] /\ from' \in [Apps -> BOOLEAN]
           /\ broadcasting' \in SUBSET Modes /\ calls' \in Seq(Statements)
<1> USE DEF DropActivity
<1>1. screen' = "closed" /\ ~Shown' /\ calls' = <<>>
  BY DEF Shown
<1>2. Starting(checked', from', broadcasting', calls')
  <2>1. Elems(calls') = {}
    BY <1>1, NoElems
  <2> QED
    BY <2>1, AllOffConsistent DEF Starting
<1>3. SwitchesOK'
  BY <1>2 DEF SwitchesOK
<1> QED
  BY <1>1, <1>3, AllOffConsistent, TupleTypes DEF NoFrom

-----------------------------------------------------------------------------
(* The steps of the activity.                                              *)

\* A new activity shows the preferences; a broadcast that is about to change
\* them disturbs it.
LEMMA ShowStep ==
    ASSUME AppInv, NEW restore \in Seq(Statements), calls = <<>>, proc = "up",
           UNCHANGED <<intents, access>>, Show(restore), ActivityFrame,
           \/ restore = <<>>
           \/ /\ Shown
              /\ Elems(restore) = {Set(m, checked[m]) : m \in Modes},
           disturbed' = (disturbed \/ intents # <<>>)
    PROVE  AppInv'
<1> USE DEF AppInv, AppTypes
<1>1. UNCHANGED <<proc, prefs, disk, phase>> /\ prefs.on \in [Modes -> BOOLEAN]
  BY DEF ActivityFrame, IInv, TypeOK, PhoneTypeOK, Prefs
<1>2. /\ IInv'
      /\ Registered => Registered'
      /\ BotGreeted => BotGreeted'
  BY FrameService DEF IInv, TypeOK, PhoneTypeOK
<1>3. CASE prefs.phone = NoPhone
  <2>1. screen' = "login" /\ ~Shown' /\ UNCHANGED <<checked, from, broadcasting, calls>>
    BY <1>3 DEF Show, Shown
  <2>2. AppTypes'
    BY <1>1, <1>2, <2>1 DEF ActivityTypeOK, AppShape, Screens
  <2>3. ASSUME ~disturbed' PROVE Undisturbed'
    <3>1. \E t \in [Modes -> BOOLEAN] : Consistent(t) /\ Leads(prefs.on, intents, t)
      BY <2>3, SettledLeads DEF Undisturbed
    <3>2. QueueOK'
      BY <1>1, <2>1, <3>1 DEF QueueOK
    <3>3. SwitchesOK'
      BY <2>1, <2>3 DEF SwitchesOK, Undisturbed
    <3> QED
      BY <1>2, <2>3, <3>2, <3>3 DEF Undisturbed
  <2> QED
    BY <2>2, <2>3
<1>4. CASE prefs.phone # NoPhone
  <2>1. /\ screen' \in {"main", "dialog"} /\ Shown'
        /\ checked' = prefs.on /\ from' = NoFrom /\ broadcasting' = {} /\ calls' = restore
    BY <1>4 DEF Show, Shown
  <2>2. AppTypes'
    BY <1>1, <1>2, <2>1 DEF ActivityTypeOK, AppShape, Screens, NoFrom
  <2>3. ASSUME ~disturbed' PROVE Undisturbed'
    <3>1. Consistent(prefs.on) /\ (Shown => checked = prefs.on)
      BY <1>1, <2>3, EmptyLeads DEF Undisturbed
    <3>2. Leads(prefs.on, intents, prefs.on)
      BY <1>1, <2>3, LeadsNowhere
    <3>3. QueueOK'
      BY <1>1, <2>1, <3>2 DEF QueueOK
    <3>4. \A s \in Elems(restore) : \E m \in Modes : s = Set(m, prefs.on[m])
      BY <3>1, NoElems
    <3>5. Starting(checked', from', broadcasting', calls')
      BY <2>1, <3>1, <3>4 DEF Starting
    <3> QED
      BY <1>2, <2>3, <3>3, <3>5 DEF Undisturbed, SwitchesOK
  <2> QED
    BY <2>2, <2>3
<1> QED
  BY <1>3, <1>4

LEMMA StartStep ==
    ASSUME AppInv, StartActivity
    PROVE  AppInv'
<1>1. /\ proc = "up" /\ calls = <<>> /\ UNCHANGED <<intents, access>> /\ ActivityFrame
      /\ disturbed' = (disturbed \/ intents # <<>>)
      /\ Launch \/ LoginDone \/ Recreate
  BY DEF StartActivity, Launch, LoginDone, Recreate, Idle
<1>2. CASE Launch \/ LoginDone
  <2>1. Show(<<>>)
    BY <1>2 DEF Launch, LoginDone
  <2> QED
    BY <1>1, <2>1, ShowStep, TupleTypes
<1>3. CASE Recreate
  <2> DEFINE s(m) == Set(m, checked[m])
             restore == <<s("notify"), s("assist"), s("wa"), s("fb")>>
  <2>1. Show(restore) /\ Shown
    BY <1>3 DEF Recreate, Shown
  <2>2. \A m \in Modes : s(m) \in Statements
    BY DEF AppInv, AppTypes, ActivityTypeOK, Statements, Set
  <2> HIDE DEF s
  <2>3. restore \in Seq(Statements) /\ Elems(restore) = {s("notify"), s("assist"), s("wa"), s("fb")}
    BY <2>2, ModesAre, TupleTypes, TupleElems
  <2> HIDE DEF restore
  <2>4. Elems(restore) = {s(m) : m \in Modes}
    BY <2>3, ModesAre
  <2>5. Elems(restore) = {Set(m, checked[m]) : m \in Modes}
    BY <2>4 DEF s
  <2> QED
    BY <1>1, <2>1, <2>3, <2>5, ShowStep
<1> QED
  BY <1>1, <1>2, <1>3

\* The dialog, the settings and the back button.
LEMMA NavigateStep ==
    ASSUME AppInv, Navigate
    PROVE  AppInv'
<1> USE DEF AppInv, AppTypes
<1>1. /\ ActivityFrame /\ UNCHANGED <<proc, prefs, disk, phase, intents, disturbed>>
      /\ OpenSettings \/ onActivityResult \/ Finish
      /\ proc = "up" /\ calls = <<>>
  BY DEF Navigate, ActivityFrame, OpenSettings, onActivityResult, Finish, Idle
<1>2. /\ IInv'
      /\ Registered => Registered'
      /\ BotGreeted => BotGreeted'
  BY <1>1, FrameService DEF IInv, TypeOK, PhoneTypeOK
<1>3. CASE OpenSettings \/ onActivityResult
  <2>1. /\ Shown /\ Shown' /\ screen' \in Screens
        /\ UNCHANGED <<access, checked, from, broadcasting, calls>>
    BY <1>3 DEF OpenSettings, onActivityResult, Shown, Screens
  <2>2. AppTypes'
    BY <1>1, <1>2, <2>1 DEF ActivityTypeOK, AppShape
  <2>3. ASSUME ~disturbed PROVE SwitchesOK' /\ QueueOK'
    BY <1>1, <2>1, <2>3, SameSwitches DEF Undisturbed
  <2> QED
    BY <1>1, <1>2, <2>2, <2>3 DEF Undisturbed
<1>4. CASE Finish
  <2>1. DropActivity /\ UNCHANGED access
    BY <1>4 DEF Finish
  <2>2. AppTypes'
    BY <1>1, <1>2, <2>1, DroppedActivity DEF ActivityTypeOK, AppShape, Screens
  <2>3. ASSUME ~disturbed PROVE SwitchesOK' /\ QueueOK'
    <3>1. \E t \in [Modes -> BOOLEAN] : Consistent(t) /\ Leads(prefs.on, intents, t)
      BY <1>1, <2>3, SettledLeads DEF Undisturbed
    <3> QED
      BY <1>1, <2>1, <3>1, DroppedActivity DEF QueueOK
  <2> QED
    BY <1>1, <1>2, <2>2, <2>3 DEF Undisturbed
<1> QED
  BY <1>1, <1>3, <1>4

\* The user grants the access or takes it away.
LEMMA AccessStep ==
    ASSUME AppInv, ChangeAccess
    PROVE  AppInv'
<1> USE DEF AppInv, AppTypes
<1>1. /\ ActivityFrame
      /\ UNCHANGED <<proc, prefs, disk, phase, intents, disturbed>>
      /\ access' \in BOOLEAN /\ UNCHANGED <<screen, checked, from, broadcasting, calls>>
  BY DEF ChangeAccess, ActivityFrame, SetAccess
<1>2. /\ IInv'
      /\ Registered => Registered'
      /\ BotGreeted => BotGreeted'
  BY <1>1, FrameService DEF IInv, TypeOK, PhoneTypeOK
<1>3. Shown' = Shown
  BY <1>1 DEF Shown
<1>4. AppTypes'
  BY <1>1, <1>2, <1>3 DEF ActivityTypeOK, AppShape
<1>5. ASSUME ~disturbed PROVE SwitchesOK' /\ QueueOK'
  BY <1>1, <1>3, <1>5, SameSwitches DEF Undisturbed
<1> QED
  BY <1>1, <1>2, <1>4, <1>5 DEF Undisturbed

\* A tap begins when no other is under way.
LEMMA ToggleStep ==
    ASSUME AppInv, UserToggles
    PROVE  AppInv'
<1> USE DEF AppInv, AppTypes
<1>1. PICK sw \in Modes : ToggleSwitch(sw)
  BY DEF UserToggles
<1>2. /\ ActivityFrame /\ UNCHANGED <<proc, prefs, disk, phase, intents, disturbed>>
      /\ proc = "up" /\ calls = <<>> /\ screen = "main"
      /\ calls' = <<Set(sw, ~checked[sw])>>
      /\ UNCHANGED <<access, screen, checked, from, broadcasting>>
  BY <1>1 DEF UserToggles, ActivityFrame, ToggleSwitch, Idle
<1>3. /\ IInv'
      /\ Registered => Registered'
      /\ BotGreeted => BotGreeted'
  BY <1>2, FrameService DEF IInv, TypeOK, PhoneTypeOK
<1>4. Set(sw, ~checked[sw]) \in Statements
  BY DEF Set, Statements
<1>5. calls' \in Seq(Statements)
  BY <1>2, <1>4, TupleTypes
<1>6. Shown /\ Shown'
  BY <1>2 DEF Shown
<1>7. AppTypes'
  BY <1>2, <1>3, <1>5, <1>6 DEF ActivityTypeOK, AppShape
<1>8. ASSUME ~disturbed PROVE SwitchesOK' /\ QueueOK'
  <2>1. Consistent(checked) /\ broadcasting = {} /\ from = NoFrom
    BY <1>2, <1>8, SwitchesAtRest DEF Undisturbed
  <2>2. (~checked[sw]) \in BOOLEAN
    OBVIOUS
  <2>3. Starting(checked', from', broadcasting', calls')
    BY <1>2, <2>1, <2>2 DEF Starting
  <2>4. QueueOK'
    BY <1>2, <1>6, <1>8 DEF QueueOK, Undisturbed
  <2> QED
    BY <2>3, <2>4 DEF SwitchesOK
<1> QED
  BY <1>2, <1>3, <1>7, <1>8 DEF Undisturbed

\* A statement that changes a switch broadcasts the change to a service that is
\* up, or disturbs the app.
LEMMA ListenerStep ==
    ASSUME AppInv, RunListener
    PROVE  AppInv'
<1> USE DEF AppInv, AppTypes
<1>1. /\ Statement /\ ActivityFrame /\ UNCHANGED <<proc, prefs, disk, phase>>
      /\ disturbed' = (disturbed \/ (phase = "down" /\ ~(broadcasting' \subseteq broadcasting)))
      /\ prefs.on \in [Modes -> BOOLEAN] /\ intents \in Seq(Intents)
  BY DEF RunListener, ActivityFrame, IInv, TypeOK, PhoneTypeOK, Prefs
<1>2. /\ ActivityTypeOK' /\ UNCHANGED <<access, screen>> /\ calls # <<>> /\ proc = "up"
      /\ \/ intents' = intents
         \/ \E m \in Modes, v \in BOOLEAN : sendBroadcast([mode |-> m, on |-> v])
  BY <1>1, StatementType
<1>3. \A m \in Modes, v \in BOOLEAN : [mode |-> m, on |-> v] \in Intents
  BY DEF Intents
<1>4. intents' \in Seq(Intents) /\ (phase = "down" => intents' = intents)
  <2>1. \A i \in Intents : Append(intents, i) \in Seq(Intents)
    BY <1>1
  <2> QED
    BY <1>1, <1>2, <1>3, <2>1 DEF sendBroadcast
<1>5. /\ IInv'
      /\ Registered => Registered'
      /\ BotGreeted => BotGreeted'
  BY <1>1, <1>4, FrameService
<1>6. Shown /\ Shown'
  BY <1>2 DEF AppShape, Shown
<1>7. disturbed' \in BOOLEAN
  BY <1>1
<1>8. AppTypes'
  BY <1>1, <1>2, <1>4, <1>5, <1>6, <1>7 DEF AppShape
<1>9. ASSUME ~disturbed' PROVE SwitchesOK' /\ QueueOK'
  <2>1. Undisturbed /\ (phase # "down" \/ broadcasting' \subseteq broadcasting)
    BY <1>1, <1>9
  <2>2. SwitchesOK' /\ (UNCHANGED <<checked, intents>> \/ Announced)
    BY <1>1, <2>1, StatementStep DEF Undisturbed
  <2>3. Leads(prefs.on, intents, checked)
    BY <1>6, <2>1 DEF Undisturbed, QueueOK
  <2>4. CASE UNCHANGED <<checked, intents>>
    BY <1>1, <1>6, <2>2, <2>3, <2>4 DEF QueueOK
  <2>5. CASE Announced
    <3>1. PICK m \in Modes, v \in BOOLEAN :
              /\ v # checked[m] /\ checked' = [checked EXCEPT ![m] = v]
              /\ m \notin broadcasting /\ broadcasting' = broadcasting \cup {m}
              /\ sendBroadcast([mode |-> m, on |-> v])
      BY <2>5 DEF Announced
    <3>2. intents' = Append(intents, [mode |-> m, on |-> v])
      BY <2>1, <3>1 DEF sendBroadcast
    <3>3. checked \in [Modes -> BOOLEAN]
      BY DEF ActivityTypeOK
    <3>4. Leads(prefs.on, intents', checked')
      BY <1>1, <2>3, <3>1, <3>2, <3>3, LeadsOn
    <3> QED
      BY <1>1, <1>6, <2>2, <3>4 DEF QueueOK
  <2> QED
    BY <2>2, <2>4, <2>5
<1> QED
  BY <1>1, <1>5, <1>8, <1>9 DEF Undisturbed

-----------------------------------------------------------------------------
(* The steps of the service.                                               *)

\* The process dies: what was not saved is gone, and a file with half of a mode
\* change disturbs the next start.
LEMMA DeathStep ==
    ASSUME AppInv, NEW c \in Deaths, Dies(c), ServiceFrame
    PROVE  AppInv'
<1> USE DEF AppInv, AppTypes
<1>1. c # "up"
  BY DEF Deaths
<1>2. /\ proc' # "up" /\ prefs' = disk /\ phase' = "down" /\ intents' = <<>>
      /\ disturbed' = ~Consistent(prefs'.on) /\ DropActivity /\ UNCHANGED access
  BY <1>1 DEF Dies, PhoneDies, ServiceFrame
<1>3. IInv' /\ prefs'.on \in [Modes -> BOOLEAN]
  BY <1>2, DiesIInv DEF IInv, TypeOK, PhoneTypeOK, Prefs
<1>4. disturbed' \in BOOLEAN
  <2>1. Consistent(prefs'.on) \in BOOLEAN
    BY DEF Consistent
  <2> QED
    BY <1>2, <2>1
<1>5. AppTypes'
  BY <1>2, <1>3, <1>4, DroppedActivity DEF ActivityTypeOK, AppShape, Screens
<1>6. Registered' /\ BotGreeted'
  <2>1. Registered'
    BY <1>2 DEF Registered, Dies
  <2>2. BotGreeted'
    BY DEF Dies, BotGreeted, ListedGreeted, FieldsGreeted, TasksGreeted, LastAnswerGreeted,
           NoneListed, Quiet
  <2> QED
    BY <2>1, <2>2
<1>7. ASSUME ~disturbed' PROVE QueueOK'
  BY <1>2, <1>3, <1>7, LeadsNowhere, DroppedActivity DEF QueueOK
<1> QED
  BY <1>2, <1>5, <1>6, <1>7, DroppedActivity DEF Undisturbed

\* A step of the service that changes neither the flags nor the queue, or drops
\* the whole queue and thereby disturbs the app.
LEMMA QuietStep ==
    ASSUME AppInv, IInv', ServiceFrame, UNCHANGED proc, proc = "up",
           prefs'.on = prefs.on, intents' = intents \/ phase' = "down",
           phase' = "down" => intents' = <<>>,
           (~disturbed /\ Registered /\ BotGreeted /\ DisconnectsOnDestroy)
              => Registered' /\ BotGreeted'
    PROVE  AppInv'
<1> USE DEF AppInv, AppTypes
<1>1. /\ disturbed' = (disturbed \/ (phase' = "down" /\ intents # <<>>))
      /\ UNCHANGED <<access, screen, checked, from, broadcasting, calls>>
  BY DEF ServiceFrame, activityVars
<1>2. Shown' = Shown /\ disturbed' \in BOOLEAN
  BY <1>1 DEF Shown
<1>3. AppTypes'
  BY <1>1, <1>2 DEF ActivityTypeOK, AppShape
<1>4. ASSUME ~disturbed' PROVE SwitchesOK' /\ QueueOK'
  <2>1. intents' = intents /\ Undisturbed
    BY <1>1, <1>4
  <2> QED
    BY <1>1, <1>2, <2>1, SameSwitches DEF Undisturbed
<1> QED
  BY <1>1, <1>3, <1>4 DEF Undisturbed

\* Binding, connecting and unbinding.  The registration comes and goes with
\* the connection.
LEMMA LifecycleStep ==
    ASSUME AppInv, Lifecycle
    PROVE  AppInv'
<1> USE DEF AppInv, AppTypes
<1>1. proc = "up" /\ ServiceFrame
  BY DEF Lifecycle, Idle
<1>2. cur \in Int /\ observers \in [Instances -> Nat]
  BY DEF IInv, TypeOK
<1>3. CASE onCreate
  <2>1. IInv'
    BY <1>3, LifecycleIInv
  <2>2. /\ phase = "down" /\ phase' = "created" /\ out' = Quiet
        /\ UNCHANGED <<proc, prefs, intents, observers, listed, replyTo, tasks, greeted>>
    BY <1>3 DEF onCreate, replyVars, historyVars
  <2>3. Registered => Registered'
    BY <2>2 DEF Registered
  <2>4. BotGreeted => BotGreeted'
    BY <2>2 DEF BotGreeted, ListedGreeted, FieldsGreeted, TasksGreeted, LastAnswerGreeted, Quiet
  <2> QED
    BY <1>1, <2>1, <2>2, <2>3, <2>4, QuietStep
<1>4. CASE onListenerConnected
  <2>1. IInv'
    BY <1>4, LifecycleIInv
  <2>2. /\ phase = "created" /\ phase' = "connected" /\ out' = Quiet
        /\ enabled' = [enabled EXCEPT ![cur] = prefs.on]
        /\ UNCHANGED <<proc, prefs, intents, cur, listed, replyTo, tasks, greeted>>
        /\ prefs.on["notify"] => observers' = [observers EXCEPT ![cur] = @ + 1]
        /\ ~prefs.on["notify"] => UNCHANGED observers
    BY <1>4 DEF onListenerConnected, SavedFlags, connectToFirebase, replyVars, historyVars
  <2>3. ASSUME Registered PROVE Registered'
    <3>1. cur \in Instances /\ enabled \in [Instances -> [Modes -> BOOLEAN]]
      BY <2>2 DEF IInv, Bound, TypeOK
    <3>2. \A i \in Instances : observers[i] = 0
      BY <2>2, <2>3 DEF Registered
    <3>3. enabled'[cur] = prefs.on
      BY <2>2, <3>1
    <3> QED
      BY <1>2, <2>2, <3>1, <3>2, <3>3 DEF Registered
  <2>4. BotGreeted => BotGreeted'
    BY <2>2 DEF BotGreeted, ListedGreeted, FieldsGreeted, TasksGreeted, LastAnswerGreeted, Quiet
  <2> QED
    BY <1>1, <2>1, <2>2, <2>3, <2>4, QuietStep
<1>5. CASE onDestroy
  <2>1. CASE Dies("disconnect: reference")
    BY <1>1, <2>1, DeathStep DEF Deaths
  <2>2. CASE ~Dies("disconnect: reference")
    <3>1. IInv'
      BY <1>5, LifecycleIInv
    <3>2. /\ phase # "down" /\ phase' = "down" /\ intents' = <<>> /\ out' = Quiet
          /\ UNCHANGED <<proc, prefs, cur, enabled, replyTo, tasks, greeted>>
          /\ DisconnectsOnDestroy =>
                /\ listed' = [listed EXCEPT ![cur] = NoneListed]
                /\ observers' = [observers EXCEPT ![cur] = IF @ > 0 THEN @ - 1 ELSE 0]
          /\ cur \in Instances
      BY <1>5, <2>2 DEF onDestroy, removeEventListener, historyVars, IInv, Bound
    <3>3. ASSUME Registered, DisconnectsOnDestroy PROVE Registered'
      <4>1. observers[cur] \in {0, 1} /\ \A i \in Instances : i # cur => observers[i] = 0
        BY <3>2, <3>3 DEF Registered
      <4>2. \A i \in Instances : observers'[i] = 0
        BY <1>2, <3>2, <3>3, <4>1
      <4> QED
        BY <3>2, <4>2 DEF Registered
    <3>4. ASSUME BotGreeted, DisconnectsOnDestroy PROVE BotGreeted'
      <4>1. \A i \in Instances, a \in Apps : listed'[i][a] \subseteq listed[i][a]
        BY <3>2, <3>4 DEF NoneListed, IInv, TypeOK
      <4> QED
        BY <3>2, <3>4, <4>1, QuietGreeted
    <3> QED
      BY <1>1, <3>1, <3>2, <3>3, <3>4, QuietStep
  <2> QED
    BY <2>1, <2>2
<1>6. CASE Kill
  BY <1>1, <1>6, DeathStep DEF Kill, Deaths
<1> QED
  BY <1>3, <1>4, <1>5, <1>6 DEF Lifecycle

\* A delivered broadcast changes its flag: the registration alternates.
LEMMA DeliverStep ==
    ASSUME AppInv, Deliver
    PROVE  AppInv'
<1> USE DEF AppInv, AppTypes
<1> DEFINE m == Head(intents)
<1>1. proc = "up" /\ ServiceFrame /\ onReceive
  BY DEF Deliver, Idle
<1>2. CASE Dies("receive: editor") \/ Dies("receive: reference")
  BY <1>1, <1>2, DeathStep DEF Deaths
<1>3. CASE ~(Dies("receive: editor") \/ Dies("receive: reference"))
  <2>1. /\ phase = "connected" /\ intents # <<>>
        /\ SetFlag(m) /\ putBoolean(m)
        /\ IF m.mode # "notify" THEN UNCHANGED <<reference, observers>>
           ELSE IF m.on THEN connectToFirebase(phoneNumber[cur])
           ELSE removeEventListener /\ UNCHANGED reference
        /\ listed' = [listed EXCEPT ![cur] =
                        [a \in Apps |-> IF m.mode = a /\ ~m.on THEN {} ELSE @[a]]]
        /\ intents' = Tail(intents)
        /\ out' = Quiet
        /\ UNCHANGED <<proc, disk, phase, cur, replyTo, tasks, greeted>>
    BY <1>1, <1>3 DEF onReceive, historyVars
  <2>2. /\ disturbed' = disturbed
        /\ UNCHANGED <<access, screen, checked, from, broadcasting, calls>>
    BY <1>1, <2>1 DEF ServiceFrame, activityVars
  <2>3. IInv'
    BY <1>1, ReceiveIInv
  <2>4. /\ m \in Intents /\ intents \in Seq(Intents) /\ prefs \in Prefs
        /\ prefs.on \in [Modes -> BOOLEAN]
    BY <2>1, HeadTailProperties DEF IInv, TypeOK, PhoneTypeOK, Prefs
  <2>5. m.mode \in Modes /\ m.on \in BOOLEAN
    BY <2>4 DEF Intents
  <2>6. /\ cur \in Instances /\ enabled[cur] = prefs.on
        /\ enabled \in [Instances -> [Modes -> BOOLEAN]] /\ observers \in [Instances -> Nat]
    BY <2>1 DEF IInv, Bound, PrefsMirror, TypeOK
  <2>7. prefs'.on = [prefs.on EXCEPT ![m.mode] = m.on]
    BY <2>1, <2>4 DEF putBoolean, Prefs
  <2>8. Shown' = Shown
    BY <2>2 DEF Shown
  <2>9. AppTypes'
    BY <2>1, <2>2, <2>3, <2>8 DEF ActivityTypeOK, AppShape
  <2>10. ASSUME ~disturbed
         PROVE  /\ m.on # prefs.on[m.mode]
                /\ QueueOK'
    <3>1. ASSUME NEW t \in [Modes -> BOOLEAN], Leads(prefs.on, intents, t)
          PROVE  m.on # prefs.on[m.mode] /\ Leads(prefs'.on, intents', t)
      <4>1. intents # <<>> /\ intents \in Seq(Intents) /\ prefs.on \in [Modes -> BOOLEAN]
        BY <2>1, <2>4
      <4>2. /\ m.on # prefs.on[m.mode]
            /\ Leads([prefs.on EXCEPT ![m.mode] = m.on], Tail(intents), t)
        BY <3>1, <4>1, LeadsDelivered
      <4>3. prefs'.on = [prefs.on EXCEPT ![m.mode] = m.on] /\ intents' = Tail(intents)
        BY <2>1, <2>7
      <4> QED
        BY <4>2, <4>3
    <3>2. CASE Shown
      <4>1. Leads(prefs.on, intents, checked) /\ checked \in [Modes -> BOOLEAN]
        BY <2>10, <3>2 DEF Undisturbed, QueueOK, ActivityTypeOK
      <4> QED
        BY <2>2, <2>8, <3>1, <3>2, <4>1 DEF QueueOK
    <3>3. CASE ~Shown
      <4>1. PICK t \in [Modes -> BOOLEAN] : Consistent(t) /\ Leads(prefs.on, intents, t)
        BY <2>10, <3>3 DEF Undisturbed, QueueOK
      <4>2. m.on # prefs.on[m.mode] /\ Leads(prefs'.on, intents', t)
        BY <3>1, <4>1
      <4> QED
        BY <2>8, <3>3, <4>1, <4>2 DEF QueueOK
    <3> QED
      BY <3>2, <3>3
  <2>11. ASSUME ~disturbed PROVE SwitchesOK'
    BY <2>2, <2>11 DEF Undisturbed, SwitchesOK
  <2>12. ASSUME ~disturbed, DisconnectsOnDestroy PROVE Registered'
    <3>1. /\ \A i \in Instances : i # cur => observers[i] = 0
          /\ prefs.on["notify"] => observers[cur] = 1
          /\ ~prefs.on["notify"] => observers[cur] = 0
      BY <2>1, <2>6, <2>12 DEF Undisturbed, Registered
    <3>2. enabled' = [enabled EXCEPT ![cur][m.mode] = m.on]
      BY <2>1 DEF SetFlag
    <3> HIDE DEF m
    <3>3. enabled'[cur]["notify"] <=> (IF m.mode = "notify" THEN m.on ELSE prefs.on["notify"])
      BY <2>5, <2>6, <3>2 DEF Modes
    <3>4. /\ \A i \in Instances : i # cur => observers'[i] = 0
          /\ observers'[cur] = IF enabled'[cur]["notify"] THEN 1 ELSE 0
      <4>1. CASE m.mode # "notify"
        BY <2>1, <3>1, <3>3, <4>1
      <4>2. CASE m.mode = "notify" /\ m.on
        <5>1. observers' = [observers EXCEPT ![cur] = @ + 1]
          BY <2>1, <4>2 DEF connectToFirebase
        <5>2. observers[cur] = 0
          BY <2>4, <2>10, <2>12, <3>1, <4>2
        <5> QED
          BY <2>6, <3>1, <3>3, <4>2, <5>1, <5>2
      <4>3. CASE m.mode = "notify" /\ ~m.on
        <5>1. observers' = [observers EXCEPT ![cur] = IF @ > 0 THEN @ - 1 ELSE 0]
          BY <2>1, <4>3 DEF removeEventListener
        <5>2. observers[cur] \in {0, 1}
          BY <3>1, <2>4
        <5> QED
          BY <2>6, <3>1, <3>3, <4>3, <5>1, <5>2
      <4> QED
        BY <2>5, <4>1, <4>2, <4>3
    <3> QED
      BY <2>1, <2>6, <3>4 DEF Registered
  <2>13. ASSUME BotGreeted PROVE BotGreeted'
    <3>1. \A i \in Instances, a \in Apps : listed'[i][a] \subseteq listed[i][a]
      BY <2>1, <2>6 DEF IInv, TypeOK
    <3> QED
      BY <2>1, <2>13, <3>1, QuietGreeted
  <2> QED
    BY <2>2, <2>9, <2>10, <2>11, <2>12, <2>13 DEF Undisturbed
<1> QED
  BY <1>2, <1>3

\* Notifications, desktop replies and answers.  A desktop reply comes to an
\* object in Notify mode, where reply() lists nobody.
LEMMA ServeStep ==
    ASSUME AppInv, Serve
    PROVE  AppInv'
<1> USE DEF AppInv, AppTypes
<1>1. proc = "up" /\ ServiceFrame
  BY DEF Serve, Idle
<1>2. UNCHANGED objectVars => (UNCHANGED phase => (Registered => Registered'))
  BY DEF Registered, objectVars
<1>3. ASSUME IInv', UNCHANGED phoneVars, UNCHANGED objectVars,
             (~disturbed /\ Registered /\ BotGreeted /\ DisconnectsOnDestroy) => BotGreeted'
      PROVE  AppInv'
  <2>1. UNCHANGED <<proc, prefs, phase, intents>>
    BY <1>3 DEF phoneVars
  <2>2. phase' = "down" => intents' = <<>>
    BY <2>1 DEF AppShape
  <2> QED
    BY <1>1, <1>2, <1>3, <2>1, <2>2, QuietStep
<1>4. ASSUME NEW n \in Notifications, onNotificationPosted(n) PROVE AppInv'
  <2>1. IInv'
    BY <1>4, PostedIInv
  <2>2. UNCHANGED phoneVars /\ UNCHANGED objectVars
    BY <1>4 DEF onNotificationPosted
  <2>3. BotGreeted => BotGreeted'
    BY <1>4, PostedGreeted
  <2> QED
    BY <1>3, <2>1, <2>2, <2>3
<1>5. ASSUME NEW n \in Notifications, onNotificationRemoved(n) PROVE AppInv'
  <2>1. CASE Dies("removed")
    BY <1>1, <2>1, DeathStep DEF Deaths
  <2>2. CASE ~Dies("removed")
    <3>1. IInv'
      BY <1>5, RemovedIInv
    <3>2. /\ UNCHANGED phoneVars /\ UNCHANGED objectVars /\ UNCHANGED replyVars
          /\ out' = [kind |-> "remove", id |-> IdOf[n.title]]
      BY <1>5, <2>2 DEF onNotificationRemoved
    <3>3. out'.kind # "answer"
      BY <3>2
    <3>4. BotGreeted => BotGreeted'
      BY <3>2, <3>3 DEF BotGreeted, ListedGreeted, FieldsGreeted, TasksGreeted, LastAnswerGreeted,
                        replyVars, historyVars
    <3> QED
      BY <1>3, <3>1, <3>2, <3>4
  <2> QED
    BY <2>1, <2>2
<1>6. ASSUME NEW i \in Instances, NEW v \in DesktopReplies, onDataChange(i, v) PROVE AppInv'
  <2>1. IInv'
    BY <1>6, DataChangeIInv
  <2>2. /\ UNCHANGED phoneVars /\ UNCHANGED objectVars /\ UNCHANGED <<replyTo, tasks>>
        /\ observers[i] > 0
        /\ reply(i, "relay", hashMap[i][v.id], v.app, v.name, v.id)
    BY <1>6 DEF onDataChange
  <2>3. ASSUME Registered, BotGreeted PROVE BotGreeted'
    <3>1. enabled[i]["notify"]
      BY <2>2, <2>3 DEF Registered
    <3>2. /\ out' = Quiet \/ out'.kind = "relay"
          /\ UNCHANGED <<listed, greeted>>
      BY <2>2, <3>1 DEF reply
    <3> QED
      BY <2>2, <2>3, <3>2 DEF BotGreeted, ListedGreeted, FieldsGreeted, TasksGreeted,
                              LastAnswerGreeted, Quiet
  <2> QED
    BY <1>3, <2>1, <2>2, <2>3
<1>7. CASE onPostExecute
  <2>1. IInv'
    BY <1>7, PostExecuteIInv
  <2>2. UNCHANGED phoneVars /\ UNCHANGED objectVars
    BY <1>7 DEF onPostExecute
  <2>3. BotGreeted => BotGreeted'
    BY <1>7, PostExecuteGreeted
  <2> QED
    BY <1>3, <2>1, <2>2, <2>3
<1> QED
  BY <1>4, <1>5, <1>6, <1>7 DEF Serve

\* Writing the preferences, starting the process and logging in.
LEMMA BackgroundStep ==
    ASSUME AppInv, Background
    PROVE  AppInv'
<1> USE DEF AppInv, AppTypes
<1>1. /\ Flush \/ Restart \/ \E p \in Phones : SaveLogin(p)
      /\ out' = Quiet
      /\ UNCHANGED <<objectVars, replyVars, activityVars, disturbed>>
  BY DEF Background
<1>2. IInv'
  BY <1>1, EnvironmentIInv
<1>3. /\ UNCHANGED <<phase, intents>> /\ prefs'.on = prefs.on
      /\ proc' # "up" => proc # "up"
  BY <1>1 DEF Flush, Restart, SaveLogin, IInv, TypeOK, PhoneTypeOK, Prefs
<1>4. UNCHANGED <<access, screen, checked, from, broadcasting, calls, disturbed>> /\ Shown' = Shown
  BY <1>1 DEF activityVars, Shown
<1>5. AppTypes'
  BY <1>2, <1>3, <1>4 DEF ActivityTypeOK, AppShape
<1>6. Registered => Registered'
  BY <1>1, <1>3 DEF Registered, objectVars
<1>7. BotGreeted => BotGreeted'
  BY <1>1 DEF BotGreeted, ListedGreeted, FieldsGreeted, TasksGreeted, LastAnswerGreeted,
              replyVars, historyVars, Quiet
<1>8. ASSUME ~disturbed PROVE SwitchesOK' /\ QueueOK'
  BY <1>3, <1>4, <1>8, SameSwitches DEF Undisturbed
<1> QED
  BY <1>4, <1>5, <1>6, <1>7, <1>8 DEF Undisturbed

-----------------------------------------------------------------------------
(* The theorems.                                                           *)

\* There is a last one among the broadcasts about a mode.
LEMMA LastOne ==
    ASSUME NEW b \in Nat, NEW S \in SUBSET (1 .. b), S # {}
    PROVE  \E k \in S : \A j \in S : j <= k
<1> DEFINE R == OpToRel(<, Nat)
           D == {n \in Nat : b - n \in S}
<1>1. IsWellFoundedOn(R, Nat)
  BY NatLessThanWellFounded
<1>2. PICK k \in S : TRUE
  OBVIOUS
<1>3. b - k \in D
  OBVIOUS
<1>4. D \subseteq Nat /\ D # {}
  BY <1>3
<1> HIDE DEF R, D
<1>5. PICK m \in D : \A n \in D : ~(<<n, m>> \in R)
  BY <1>1, <1>4, WFMin
<1>6. m \in Nat /\ b - m \in S
  BY <1>5 DEF D
<1>7. ASSUME NEW j \in S PROVE j <= b - m
  <2>1. j \in Nat /\ b - j \in Nat /\ b - (b - j) = j
    OBVIOUS
  <2>2. b - j \in D
    BY <2>1 DEF D
  <2>3. ~(b - j < m)
    BY <1>5, <1>6, <2>1, <2>2 DEF R, OpToRel
  <2> QED
    BY <1>6, <2>1, <2>3
<1> QED
  BY <1>6, <1>7

LEMMA InitAppInv == AppInit => AppInv
<1> SUFFICES ASSUME AppInit PROVE AppInv
  OBVIOUS
<1> USE DEF AppInit, Init, PhoneInit, ActivityInit, NoActivity
<1>1. IInv
  BY InitIInv
<1>2. ~Shown
  BY DEF Shown
<1>3. ActivityTypeOK
  BY AllOffConsistent, TupleTypes DEF ActivityTypeOK, NoFrom, Screens
<1>4. AppTypes
  BY <1>1, <1>2, <1>3 DEF AppTypes, AppShape
<1>5. SwitchesOK
  <2>1. Elems(calls) = {}
    BY NoElems
  <2>2. Starting(checked, from, broadcasting, calls)
    BY <2>1, AllOffConsistent DEF Starting
  <2> QED
    BY <2>2 DEF SwitchesOK
<1>6. QueueOK
  <2>1. prefs.on = AllOff /\ intents = <<>>
    OBVIOUS
  <2>2. Leads(prefs.on, intents, AllOff)
    BY <2>1, AllOffConsistent, LeadsNowhere
  <2> QED
    BY <1>2, <2>2, AllOffConsistent DEF QueueOK
<1>7. Registered
  BY DEF Registered
<1>8. BotGreeted
  BY InitGInv DEF GInv
<1> QED
  BY <1>4, <1>5, <1>6, <1>7, <1>8 DEF AppInv, Undisturbed

LEMMA NextAppInv == AppInv /\ [AppNext]_appVars => AppInv'
<1> SUFFICES ASSUME AppInv, [AppNext]_appVars PROVE AppInv'
  OBVIOUS
<1>1. CASE UNCHANGED appVars
  <2>1. UNCHANGED vars /\ UNCHANGED <<access, screen, checked, from, broadcasting, calls, disturbed>>
    BY <1>1 DEF appVars, activityVars
  <2>2. IInv'
    BY <2>1, NextIInv DEF AppInv, AppTypes
  <2>3. UNCHANGED <<proc, prefs, phase, intents, cur, enabled, observers, listed, replyTo,
                    tasks, out, greeted>>
    BY <2>1 DEF vars, phoneVars, listenerVars, objectVars, replyVars, historyVars
  <2>4. Shown' = Shown
    BY <2>1 DEF Shown
  <2>5. AppTypes'
    BY <2>1, <2>2, <2>3, <2>4 DEF AppInv, AppTypes, ActivityTypeOK, AppShape
  <2>6. Registered => Registered'
    BY <2>3 DEF Registered
  <2>7. BotGreeted => BotGreeted'
    BY <2>3 DEF BotGreeted, ListedGreeted, FieldsGreeted, TasksGreeted, LastAnswerGreeted
  <2>8. ASSUME ~disturbed PROVE SwitchesOK' /\ QueueOK'
    BY <2>1, <2>3, <2>4, <2>8, SameSwitches DEF AppInv, Undisturbed
  <2> QED
    BY <2>1, <2>5, <2>6, <2>7, <2>8 DEF AppInv, Undisturbed
<1> QED
  BY <1>1, StartStep, NavigateStep, AccessStep, ToggleStep, ListenerStep, LifecycleStep,
     DeliverStep, ServeStep, BackgroundStep DEF AppNext

\* The app keeps its inductive invariant, whatever it is given.
THEOREM AppInvariance == AppSpec => []AppInv
BY InitAppInv, NextAppInv, PTL DEF AppSpec

\* Whatever the user taps, and wherever a tap is while broadcasts, rotations,
\* rebindings and crashes go on: once its listeners have returned, the switches
\* show Notify mode or AssistBot mode but not both, and the bot's switch is on
\* exactly when an app's is.
THEOREM ModesConsistentHolds == AppSpec => []ModesConsistent
<1>1. AppInv => ModesConsistent
  <2> SUFFICES ASSUME AppInv PROVE ModesConsistent
    OBVIOUS
  <2>1. AppTypeOK
    BY DEF AppInv, AppTypes, AppTypeOK, IInv
  <2>2. OneModeShown
    BY SwitchesAtRest DEF AppInv, AppTypes, Undisturbed, OneModeShown
  <2> QED
    BY <2>1, <2>2 DEF ModesConsistent
<1> QED
  BY <1>1, AppInvariance, PTL

\* The broadcasts on their way to a connected service take its flags to what the
\* switches show, at any moment of any tap.
THEOREM ServiceFollowsSwitchesHolds == AppSpec => []ServiceFollowsSwitches
<1>1. AppInv => ServiceFollowsSwitches
  <2> SUFFICES ASSUME AppInv, ~disturbed, phase = "connected",
                      screen \in {"main", "dialog", "settings"}, NEW m \in Modes
               PROVE  After(m) = checked[m]
    BY DEF ServiceFollowsSwitches
  <2>1. /\ Leads(prefs.on, intents, checked) /\ enabled[cur] = prefs.on
        /\ intents \in Seq(Intents)
    BY DEF AppInv, AppTypes, Undisturbed, QueueOK, Shown, IInv, PrefsMirror, TypeOK, PhoneTypeOK
  <2>2. Pos(intents, m) = Pending(m)
    BY DEF Pos, Pending
  <2>3. CASE Pending(m) = {}
    BY <2>1, <2>2, <2>3 DEF After, Leads
  <2>4. CASE Pending(m) # {}
    <3>1. \E k \in Pending(m) : \A j \in Pending(m) : j <= k
      <4>1. Len(intents) \in Nat /\ Pending(m) \in SUBSET (1 .. Len(intents))
        BY <2>1 DEF Pending
      <4> QED
        BY <2>4, <4>1, LastOne
    <3> DEFINE l == CHOOSE k \in Pending(m) : \A j \in Pending(m) : j <= k
    <3>2. l \in Pending(m) /\ \A j \in Pending(m) : j <= l
      BY <3>1
    <3>3. After(m) = intents[l].on
      BY <2>4 DEF After
    <3> HIDE DEF l
    <3> QED
      BY <2>1, <2>2, <3>2, <3>3 DEF Leads
  <2> QED
    BY <2>3, <2>4
<1> QED
  BY <1>1, AppInvariance, PTL

\* Repeated ENABLE_NOTIFY broadcasts, rebindings and restarts never register the
\* listener twice or leave it registered outside Notify mode.
THEOREM ObserveOnceHolds == AppSpec => []ObserveOnce
<1>1. AppInv => ObserveOnce
  BY DEF AppInv, Undisturbed, Registered, ObserveOnce
<1> QED
  BY <1>1, AppInvariance, PTL

\* In both modes, and through every change between them, the bot only answers
\* conversations that were greeted.
THEOREM GreetedFirstHolds == AppSpec => []GreetedFirst
<1>1. AppInv => GreetedFirst
  BY DEF AppInv, Undisturbed, BotGreeted, LastAnswerGreeted, GreetedFirst
<1> QED
  BY <1>1, AppInvariance, PTL

\* An "off" broadcast for Notify mode always finds the reference made by the
\* "on" before it, unless the app was disturbed.
THEOREM NoToggleCrashHolds == AppSpec => NoToggleCrash
<1>1. AppInv /\ [AppNext]_appVars => [proc' = "receive: reference" => disturbed]_appVars
  <2> SUFFICES ASSUME AppInv, AppNext, proc' = "receive: reference", ~disturbed
               PROVE  FALSE
    OBVIOUS
  <2> USE DEF AppInv, AppTypes
  <2>1. CASE Deliver
    <3> DEFINE m == Head(intents)
    <3>1. onReceive /\ proc = "up"
      BY <2>1 DEF Deliver, Idle
    <3>2. phase = "connected" /\ intents # <<>> /\ m.mode = "notify" /\ ~m.on /\ reference[cur] = NoRef
      BY <3>1 DEF onReceive, Dies, PhoneDies
    <3>3. /\ intents \in Seq(Intents) /\ prefs.on \in [Modes -> BOOLEAN]
          /\ cur \in Instances /\ enabled[cur] = prefs.on
          /\ phoneNumber[cur] # NoRef
      <4>1. intents \in Seq(Intents) /\ prefs.on \in [Modes -> BOOLEAN]
        BY DEF IInv, TypeOK, PhoneTypeOK, Prefs
      <4>2. cur \in Instances /\ enabled[cur] = prefs.on
        BY <3>2 DEF IInv, Bound, PrefsMirror
      <4>3. phoneNumber[cur] \in Phones \cup {NoPhone}
        BY <4>2 DEF IInv, TypeOK
      <4> QED
        BY <4>1, <4>2, <4>3, ListenerAssumption
    <3>4. m.on # prefs.on[m.mode]
      <4>1. CASE Shown
        <5>1. Leads(prefs.on, intents, checked) /\ checked \in [Modes -> BOOLEAN]
          BY <4>1 DEF Undisturbed, QueueOK, ActivityTypeOK
        <5> QED
          BY <3>2, <3>3, <5>1, LeadsDelivered
      <4>2. CASE ~Shown
        <5>1. PICK t \in [Modes -> BOOLEAN] : Consistent(t) /\ Leads(prefs.on, intents, t)
          BY <4>2 DEF Undisturbed, QueueOK
        <5> QED
          BY <3>2, <3>3, <5>1, LeadsDelivered
      <4> QED
        BY <4>1, <4>2
    <3>5. m.on \in BOOLEAN /\ prefs.on["notify"] \in BOOLEAN
      <4>1. m \in Intents
        BY <3>2, <3>3, HeadTailProperties
      <4> QED
        BY <3>3, <4>1, ModesAre DEF Intents
    <3> HIDE DEF m
    <3>6. prefs.on["notify"]
      BY <3>2, <3>4, <3>5
    <3>7. reference[cur] = phoneNumber[cur]
      BY <3>2, <3>3, <3>6 DEF IInv, NotifyListens
    <3> QED
      BY <3>2, <3>3, <3>7
  <2>2. CASE ~Deliver
    <3>1. CASE Lifecycle
      BY <3>1 DEF Lifecycle, Idle, onCreate, onListenerConnected, onDestroy, Kill, Dies, PhoneDies
    <3>2. CASE Serve
      BY <3>2 DEF Serve, Idle, onNotificationPosted, onNotificationRemoved, onDataChange,
                  onPostExecute, Dies, PhoneDies, phoneVars
    <3>3. CASE Background
      BY <3>3 DEF Background, Flush, Restart, SaveLogin
    <3>4. CASE StartActivity \/ Navigate \/ ChangeAccess \/ UserToggles \/ RunListener
      BY <3>4 DEF StartActivity, Navigate, ChangeAccess, UserToggles, RunListener, ActivityFrame,
                  Launch, LoginDone, Recreate, OpenSettings, onActivityResult, Finish,
                  ToggleSwitch, Statement, Idle
    <3> QED
      BY <2>2, <3>1, <3>2, <3>3, <3>4 DEF AppNext
  <2> QED
    BY <2>1, <2>2
<1> QED
  BY <1>1, AppInvariance, PTL DEF AppSpec, NoToggleCrash
=============================================================================
