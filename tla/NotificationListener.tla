------------------------ MODULE NotificationListener ------------------------
(***************************************************************************)
(* services/NotificationListener.java: the service that sees the phone's   *)
(* notifications.  In AssistBot mode it greets a sender once and lets the  *)
(* api.ai bot answer what follows; in Notify mode it mirrors WhatsApp and  *)
(* Messenger notifications to Firebase and sends the replies typed on the  *)
(* desktop.                                                                *)
(*                                                                         *)
(* Android makes a new object for every binding.  An old object lives on   *)
(* while an AsyncTask or a Firebase observer refers to it, so the fields   *)
(* are indexed by object; cur is the one bound now.                        *)
(***************************************************************************)
EXTENDS Phone

CONSTANTS
    Titles,        \* EXTRA_TITLE strings: the senders' display names
    NoTitle,       \* no EXTRA_TITLE
    Ids,           \* the strings used as hashMap keys and notification ids
    IdOf,          \* toLowerCase, "(..)" dropped, ":" and " " dropped
    Notifications, \* the StatusBarNotifications that may be posted
    None,          \* null (no reply action, no such key)
    NoRef,         \* reference == null
    DisconnectsOnDestroy, \* the base class's onDestroy calls
                          \* onListenerDisconnected (Android 7 and later)
    MaxInstances,  \* bound: service objects made by one process
    MaxTasks       \* bound: AsyncTasks waiting for api.ai

\* text says what handleConversationalBot looks for in EXTRA_TEXT; acts says
\* whether the notification has actions and one of them has remote inputs.
Sbn == [app   : Apps \cup {"other"},
        title : Titles \cup {NoTitle},
        text  : {"plain", "new message", "new messages", "null"},
        acts  : {"none", "no input", "reply"}]

\* A conversation: where a PendingIntent taken from a notification delivers.
Convs == [app : Apps, title : Titles]

Instances == 1 .. MaxInstances

ASSUME ListenerAssumption ==
    /\ NoTitle \notin Titles
    /\ IdOf \in [Titles -> Ids]
    /\ Notifications \subseteq Sbn
    /\ None \notin Convs
    /\ NoRef \notin Phones \cup {NoPhone}
    /\ DisconnectsOnDestroy \in BOOLEAN
    /\ MaxInstances \in Nat
    /\ MaxTasks \in Nat

VARIABLES
    cur,         \* the bound object; 0 before the first
    enabled,     \* isAssistEnabled, isNotifyEnabled, isWhatsAppEnabled, ...
    phoneNumber,
    reference,   \* the phone number of the path reference points to
    observers,   \* how often messagesListener is registered with Firebase
    listed,      \* waList and fbMsgList, read only with contains
    hashMap,     \* id -> conversation of the stored reply action
    replyTo,     \* the fields remoteInputs and pendingIntent
    tasks,       \* AsyncTasks, in the order of the serial executor
    out,         \* what the last step sent: a reply or a Firebase write
    greeted,     \* history: conversations that were sent the greeting
    mirrored     \* history: conversations shown on the desktop

objectVars == <<cur, enabled, phoneNumber, reference, observers>>
historyVars == <<greeted, mirrored>>
replyVars == <<listed, hashMap, replyTo, tasks, historyVars>>
listenerVars == <<objectVars, replyVars, out>>
vars == <<phoneVars, listenerVars>>

Tasks == [owner : Instances, app : Apps, title : Titles]

Quiet == [kind |-> "quiet"]

\* A PendingIntent fired: via is the conversation it delivers to, app and
\* title are the package and sender the text was made for.
Replies == [kind : {"greeting", "answer", "relay"}, via : Convs,
            app : Apps, title : Titles]

\* setValue on the "app" and the "remove/id" child.
Writes == [kind : {"app"}, app : Apps, name : Titles, id : Ids,
           text : {"plain", "new message", "new messages", "null"}]
          \cup [kind : {"remove"}, id : Ids]

\* What the desktop client stores under "desktop".
DesktopReplies == {[app |-> a, name |-> t, id |-> IdOf[t]] :
                      a \in Apps, t \in Titles}

NoneListed == [a \in Apps |-> {}]
EmptyMap == [id \in Ids |-> None]

Init ==
    /\ PhoneInit
    /\ cur = 0
    /\ enabled = [i \in Instances |-> AllOff]
    /\ phoneNumber = [i \in Instances |-> NoPhone]
    /\ reference = [i \in Instances |-> NoRef]
    /\ observers = [i \in Instances |-> 0]
    /\ listed = [i \in Instances |-> NoneListed]
    /\ hashMap = [i \in Instances |-> EmptyMap]
    /\ replyTo = [i \in Instances |-> None]
    /\ tasks = <<>>
    /\ out = Quiet
    /\ greeted = {}
    /\ mirrored = {}

\* The process dies with every object in it.
Dies(cause) ==
    /\ PhoneDies(cause)
    /\ cur' = 0
    /\ enabled' = [i \in Instances |-> AllOff]
    /\ phoneNumber' = [i \in Instances |-> NoPhone]
    /\ reference' = [i \in Instances |-> NoRef]
    /\ observers' = [i \in Instances |-> 0]
    /\ listed' = [i \in Instances |-> NoneListed]
    /\ hashMap' = [i \in Instances |-> EmptyMap]
    /\ replyTo' = [i \in Instances |-> None]
    /\ tasks' = <<>>
    /\ out' = Quiet
    /\ UNCHANGED historyVars

-----------------------------------------------------------------------------
(* Service life cycle.                                                     *)

onCreate ==
    /\ proc = "up"
    /\ phase = "down"
    /\ cur < MaxInstances
    /\ cur' = cur + 1
    /\ phase' = "created"
    /\ out' = Quiet
    /\ UNCHANGED <<proc, prefs, disk, intents, enabled, phoneNumber,
                   reference, observers, replyVars>>

\* Mutants: the listener is added to a local reference; it is added only the
\* first time.
ConnectLocalReference(phone) ==
    /\ observers' = [observers EXCEPT ![cur] = @ + 1]
    /\ UNCHANGED reference
ConnectOnce(phone) ==
    IF reference[cur] = NoRef
      THEN /\ reference' = [reference EXCEPT ![cur] = phone]
           /\ observers' = [observers EXCEPT ![cur] = @ + 1]
      ELSE UNCHANGED <<reference, observers>>

\* The second registration of the same listener is counted: Firebase calls it
\* once per registration and forgets one registration per removal.
connectToFirebase(phone) ==
    /\ reference' = [reference EXCEPT ![cur] = phone]
    /\ observers' = [observers EXCEPT ![cur] = @ + 1]

\* Mutant: another listener object is removed.
RemoveAnother == UNCHANGED observers

\* Removing a listener that is not registered does nothing.
removeEventListener ==
    observers' = [observers EXCEPT ![cur] = IF @ > 0 THEN @ - 1 ELSE 0]

\* Mutants: isFbMsgEnabled is left unassigned; isFbMsgOn is not read.
RestoreThree == [m \in Modes \ {"fb"} |-> prefs.on[m]]
RestoreAllButMessenger == [prefs.on EXCEPT !["fb"] = FALSE]

\* The four getBoolean calls.
SavedFlags == prefs.on

onListenerConnected ==
    /\ phase = "created"
    /\ phase' = "connected"
    /\ phoneNumber' = [phoneNumber EXCEPT ![cur] = prefs.phone]
    /\ enabled' = [enabled EXCEPT ![cur] = SavedFlags]
    /\ IF SavedFlags["notify"] THEN connectToFirebase(prefs.phone)
                             ELSE UNCHANGED <<reference, observers>>
    /\ out' = Quiet
    /\ UNCHANGED <<proc, prefs, disk, intents, cur, replyVars>>

\* Since Android 7 super.onDestroy() runs onListenerDisconnected, which
\* dereferences reference.  Broadcasts on their way are dropped.
onDestroy ==
    /\ phase # "down"
    /\ \/ /\ DisconnectsOnDestroy
          /\ reference[cur] = NoRef
          /\ Dies("disconnect: reference")
       \/ /\ IF DisconnectsOnDestroy
               THEN /\ reference[cur] # NoRef
                    /\ listed' = [listed EXCEPT ![cur] = NoneListed]
                    /\ removeEventListener
               ELSE UNCHANGED <<listed, observers>>
          /\ phase' = "down"
          /\ intents' = <<>>
          /\ out' = Quiet
          /\ UNCHANGED <<proc, prefs, disk, cur, enabled, phoneNumber,
                         reference, hashMap, replyTo, tasks, historyVars>>

\* The low-memory killer, a reinstall, ...
Kill ==
    /\ proc = "up"
    /\ Dies("killed")

-----------------------------------------------------------------------------
(* EnableToggleReceiver.onReceive for the oldest broadcast.  editor is null *)
(* until onListenerConnected; reference is null until Notify mode was on.  *)

\* Mutants: every flag is saved under isAssistOn; ENABLE_FB_MSG sets
\* isWhatsAppEnabled.
PutAssist(m) == prefs' = [prefs EXCEPT !.on["assist"] = m.on]
SetWhatsAppFlag(m) ==
    enabled' = [enabled EXCEPT ![cur][IF m.mode = "fb" THEN "wa" ELSE m.mode] = m.on]

putBoolean(m) == prefs' = [prefs EXCEPT !.on[m.mode] = m.on]
SetFlag(m) == enabled' = [enabled EXCEPT ![cur][m.mode] = m.on]

onReceive ==
    /\ phase # "down"
    /\ intents # <<>>
    /\ LET m == Head(intents)
           off(a) == m.mode = a /\ ~m.on
       IN \/ /\ phase = "created"
             /\ Dies("receive: editor")
          \/ /\ phase = "connected"
             /\ off("notify")
             /\ reference[cur] = NoRef
             /\ Dies("receive: reference")
          \/ /\ phase = "connected"
             /\ off("notify") => reference[cur] # NoRef
             /\ SetFlag(m)
             /\ putBoolean(m)
             /\ IF m.mode # "notify" THEN UNCHANGED <<reference, observers>>
                ELSE IF m.on THEN connectToFirebase(phoneNumber[cur])
                ELSE removeEventListener /\ UNCHANGED reference
             /\ listed' = [listed EXCEPT ![cur] =
                             [a \in Apps |-> IF off(a) THEN {} ELSE @[a]]]
             /\ intents' = Tail(intents)
             /\ out' = Quiet
             /\ UNCHANGED <<proc, disk, phase, cur, phoneNumber, hashMap,
                            replyTo, tasks, historyVars>>

-----------------------------------------------------------------------------
(* Replies.                                                                *)

\* Mutant: the sender is listed before the early return and the send().
ListThenReply(i, kind, via, app, title, key) ==
    /\ \/ /\ via # None
          /\ out' = [kind |-> kind, via |-> via, app |-> app, title |-> title]
          /\ greeted' = IF kind = "greeting" THEN greeted \cup {via} ELSE greeted
       \/ out' = Quiet /\ UNCHANGED greeted
    /\ listed' = [listed EXCEPT ![i][app] = @ \cup {title}]
    /\ UNCHANGED hashMap

\* reply(): via is the conversation of the remoteInputs and pendingIntent it
\* is given, key is notifId.  send() may throw CanceledException.
reply(i, kind, via, app, title, key) ==
    \/ /\ via # None
       /\ out' = [kind |-> kind, via |-> via, app |-> app, title |-> title]
       /\ greeted' = IF kind = "greeting" THEN greeted \cup {via} ELSE greeted
       /\ IF enabled[i]["notify"]
            THEN /\ hashMap' = [hashMap EXCEPT ![i] =
                        [id \in Ids |-> IF id = key THEN None ELSE @[id]]]
                 /\ UNCHANGED listed
            ELSE /\ listed' = [listed EXCEPT ![i][app] = @ \cup {title}]
                 /\ UNCHANGED hashMap
    \/ /\ out' = Quiet
       /\ UNCHANGED <<listed, hashMap, greeted>>

ConvOf(n) == [app |-> n.app, title |-> n.title]

\* The last action with remote inputs, or null.
ReplyAction(n) == IF n.acts = "reply" THEN ConvOf(n) ELSE None

\* The sender was greeted: ask api.ai.  The reply action goes to the fields,
\* unless there is none; a missing text throws, which onNotificationPosted
\* catches.  The condition on the text is as written: a text with
\* "new message" but not "new messages" is sent to the bot.
handleConversationalBot(n) ==
    /\ replyTo' = IF n.acts = "reply"
                    THEN [replyTo EXCEPT ![cur] = ConvOf(n)] ELSE replyTo
    /\ IF n.text \in {"plain", "new message"}
         THEN /\ Len(tasks) < MaxTasks
              /\ tasks' = Append(tasks, [owner |-> cur, app |-> n.app,
                                         title |-> n.title])
         ELSE UNCHANGED tasks
    /\ out' = Quiet
    /\ UNCHANGED <<listed, hashMap, historyVars>>

\* A null title is never in the lists, and making its greeting throws.
handleAssistBotNotifications(n) ==
    \/ /\ n.app \in Apps
       /\ n.title \in listed[cur][n.app]
       /\ handleConversationalBot(n)
    \/ /\ n.app \in Apps
       /\ n.title \notin listed[cur][n.app]
       /\ enabled[cur][n.app]
       /\ n.title # NoTitle
       /\ reply(cur, "greeting", ReplyAction(n), n.app, n.title, NoTitle)
       /\ UNCHANGED <<replyTo, tasks, mirrored>>

\* Mutant: the loop over the actions assigns the fields, not the locals.
FileFields(n) ==
    /\ n.acts # "none"
    /\ n.app \in Apps
    /\ n.title # NoTitle
    /\ reference[cur] # NoRef
    /\ out' = [kind |-> "app", app |-> n.app, name |-> n.title,
               id |-> IdOf[n.title], text |-> n.text]
    /\ replyTo' = IF n.acts = "reply"
                    THEN [replyTo EXCEPT ![cur] = ConvOf(n)] ELSE replyTo
    /\ hashMap' = [hashMap EXCEPT ![cur][IdOf[n.title]] = replyTo'[cur]]
    /\ mirrored' = mirrored \cup {ConvOf(n)}
    /\ UNCHANGED <<listed, tasks, greeted>>

\* A null title throws before anything is written.
handleNotifyNotifications(n) ==
    /\ n.acts # "none"
    /\ n.app \in Apps
    /\ n.title # NoTitle
    /\ reference[cur] # NoRef
    /\ out' = [kind |-> "app", app |-> n.app, name |-> n.title,
               id |-> IdOf[n.title], text |-> n.text]
    /\ hashMap' = [hashMap EXCEPT ![cur][IdOf[n.title]] = ReplyAction(n)]
    /\ mirrored' = mirrored \cup {ConvOf(n)}
    /\ UNCHANGED <<listed, replyTo, tasks, greeted>>

onNotificationPosted(n) ==
    /\ phase = "connected"
    /\ \/ /\ enabled[cur]["assist"]
          /\ handleAssistBotNotifications(n)
       \/ /\ ~enabled[cur]["assist"]
          /\ enabled[cur]["notify"]
          /\ handleNotifyNotifications(n)
    /\ UNCHANGED <<phoneVars, objectVars>>

\* Not under a try: a missing title or reference kills the process.
onNotificationRemoved(n) ==
    /\ phase = "connected"
    /\ enabled[cur]["notify"]
    /\ n.app \in Apps
    /\ \/ /\ n.title = NoTitle \/ reference[cur] = NoRef
          /\ Dies("removed")
       \/ /\ n.title # NoTitle
          /\ reference[cur] # NoRef
          /\ out' = [kind |-> "remove", id |-> IdOf[n.title]]
          /\ UNCHANGED <<phoneVars, objectVars, replyVars>>

\* messagesListener of object i, called with a reply to something that was
\* shown on the desktop, now or long ago: "desktop" is never cleared.  An id that is not in the map throws, which
\* is caught; one stored without a reply action returns early.
onDataChange(i, v) ==
    /\ proc = "up"
    /\ observers[i] > 0
    /\ [app |-> v.app, title |-> v.name] \in mirrored
    /\ hashMap[i][v.id] # None
    /\ reply(i, "relay", hashMap[i][v.id], v.app, v.name, v.id)
    /\ UNCHANGED <<phoneVars, objectVars, replyTo, tasks, mirrored>>

\* The oldest AsyncTask ends: with no response, or with one that is sent
\* through what the owner's fields hold by now.
onPostExecute ==
    /\ tasks # <<>>
    /\ LET t == Head(tasks)
       IN \/ /\ out' = Quiet
             /\ UNCHANGED <<listed, hashMap, greeted>>
          \/ reply(t.owner, "answer", replyTo[t.owner], t.app, t.title, t.title)
    /\ tasks' = Tail(tasks)
    /\ UNCHANGED <<phoneVars, objectVars, replyTo, mirrored>>

-----------------------------------------------------------------------------
(* The service under every sequence of broadcasts, notifications, desktop  *)
(* replies and failures.                                                   *)

CONSTANTS
    Toggles,      \* the ENABLE_* broadcasts that may be sent
    MaxObservers  \* bound: registrations of messagesListener

ASSUME EnvironmentAssumption ==
    /\ Toggles \subseteq Intents
    /\ MaxObservers \in Nat

\* Some component of the app sends a toggle.
Toggle(m) ==
    /\ proc = "up"
    /\ phase # "down"
    /\ Len(intents) < MaxIntents
    /\ cur \in Instances => observers[cur] < MaxObservers
    /\ sendBroadcast(m)
    /\ out' = Quiet
    /\ UNCHANGED <<proc, prefs, disk, phase, objectVars, replyVars>>

System ==
    \/ /\ Flush \/ Restart \/ \E p \in Phones : SaveLogin(p)
       /\ out' = Quiet
       /\ UNCHANGED <<objectVars, replyVars>>
    \/ onCreate
    \/ onListenerConnected
    \/ onDestroy
    \/ Kill

Handlers ==
    \/ onReceive
    \/ \E n \in Notifications : onNotificationPosted(n)
    \/ \E n \in Notifications : onNotificationRemoved(n)
    \/ \E i \in Instances, v \in DesktopReplies : onDataChange(i, v)
    \/ onPostExecute

Next ==
    \/ System
    \/ Handlers
    \/ \E m \in Toggles : Toggle(m)

Spec == Init /\ [][Next]_vars

-----------------------------------------------------------------------------
(* Properties.                                                             *)

TypeOK ==
    /\ PhoneTypeOK
    /\ cur \in 0 .. MaxInstances
    /\ enabled \in [Instances -> [Modes -> BOOLEAN]]
    /\ phoneNumber \in [Instances -> Phones \cup {NoPhone}]
    /\ reference \in [Instances -> Phones \cup {NoPhone, NoRef}]
    /\ observers \in [Instances -> Nat]
    /\ listed \in [Instances -> [Apps -> SUBSET Titles]]
    /\ hashMap \in [Instances -> [Ids -> Convs \cup {None}]]
    /\ replyTo \in [Instances -> Convs \cup {None}]
    /\ tasks \in Seq(Tasks)
    /\ out \in {Quiet} \cup Replies \cup Writes
    /\ greeted \in SUBSET Convs
    /\ mirrored \in SUBSET Convs

\* A connected service behaves as the preferences say, so an activity that
\* reads them later shows what the service does: onReceive changes a flag and
\* saves it together, onListenerConnected starts from what was saved.
PrefsMirror == phase = "connected" => enabled[cur] = prefs.on

\* In Notify mode the service listens for desktop replies, under the phone
\* number it was connected with: however often ENABLE_NOTIFY is repeated or
\* the service is bound anew, "off" never takes away the registration of a
\* later "on".
NotifyListens ==
    phase = "connected" /\ enabled[cur]["notify"]
        => observers[cur] > 0 /\ reference[cur] = phoneNumber[cur]

\* The map's entries are filed under the id of the sender they reply to.
HashMapRoutes ==
    \A i \in Instances, id \in Ids :
        hashMap[i][id] # None => IdOf[hashMap[i][id].title] = id

\* A reply typed on the desktop is delivered to a conversation whose sender
\* has the id of the sender it was typed for, whatever was posted, answered,
\* toggled or rebound between the notification and the reply.
RelayRoutes ==
    out.kind = "relay" => IdOf[out.via.title] = IdOf[out.title]

AssistOnly == \A m \in Toggles : m.mode # "notify"

\* While Notify mode is not used, the bot only talks to somebody who was sent
\* the user's own greeting first: no order of notifications, late answers,
\* toggles, failed sends and rebindings lets onPostExecute reply in a
\* conversation that was not greeted.  (In Notify mode a desktop reply that
\* arrives after the switch lists its sender.)
AnswersGreeted == AssistOnly /\ out.kind = "answer" => out.via \in greeted

\* The bot's answer goes to the one whose message it answers ("A Chat
\* Assistant Bot that replies on your behave").  The code shares the fields
\* remoteInputs and pendingIntent between the tasks.
AnswerGoesToAsker ==
    out.kind = "answer" => out.via = [app |-> out.app, title |-> out.title]
=============================================================================
