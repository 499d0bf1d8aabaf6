------------------------------ MODULE Desktop ------------------------------
(***************************************************************************)
(* The macOS client (ViewController.swift, with the persistence that       *)
(* AppDelegate.swift turns on) and the three Firebase slots it shares with *)
(* the phone: "app" holds the notification to show, "remove" the id to     *)
(* take away, "desktop" the reply to send.  The phone's side is what       *)
(* NotificationListener.java writes to and hears from these slots.         *)
(*                                                                         *)
(* Firebase is external, modelled from how the client uses it.  A write    *)
(* changes the local view at once, is queued (on disk, so that it outlives *)
(* the app) and is sent again after a reconnection until it is             *)
(* acknowledged.  The server sends every change, and acknowledgements, in  *)
(* order.  An observer is called, later and on the main thread, when the   *)
(* local view changes, and once when it is added if the view is known.     *)
(***************************************************************************)
EXTENDS Integers, Sequences, FiniteSets, SequencesExt

CONSTANTS
    Sent,        \* the notifications the phone may write: [app, id, text]
    Ids,
    Answers,     \* texts the user may reply
    NoText,      \* EXTRA_TEXT was null: the key "message" is missing
    Nil,         \* no value
    Unknown,     \* nothing is cached yet
    MaxPosts, MaxRemoves, MaxReplies, MaxKills, MaxDrops \* bounds

ASSUME DesktopAssumption ==
    /\ \A m \in Sent : m.id \in Ids
    /\ Nil \notin Sent /\ Nil \notin Ids /\ Nil # Unknown
    /\ {MaxPosts, MaxRemoves, MaxReplies, MaxKills, MaxDrops} \subseteq Nat

VARIABLES
    server,     \* the slots app, remove and desktop
    app,        \* the client: "open", "closed" (the window), or "dead"
    connected,
    cache,      \* what the client last heard of app and remove, on disk
    writes,     \* its writes not acknowledged, oldest first, on disk
    arrived,    \* how many of them the server has applied on this connection
    down,       \* changes and acknowledgements on their way to the client
    events,     \* calls of the observers waiting for the main thread
    notifData,  \* id -> the notification that later messages are added to
    center,     \* id -> delivered notification, kept by macOS
    toPhone,    \* values of "desktop" on their way to messagesListener
    count,      \* how often each bounded thing happened
    shown,      \* history: numbers of the notifications that were shown
    lost,       \* history: those the client erased before it showed them
    safe,       \* history: those written while the client was in step
    since       \* history: id -> messages shown since the last reply

clientVars == <<app, connected, cache, writes, arrived, down, events, notifData, center>>
histVars == <<shown, lost, safe, since>>
deskVars == <<server, clientVars, toPhone, count, histVars>>

\* A value in "app": num is history, it tells equal notifications apart.
Posts == {[app |-> m.app, id |-> m.id, text |-> m.text, num |-> k] :
             m \in Sent, k \in 1 .. MaxPosts}
Replies == [app : {m.app : m \in Sent}, id : Ids, text : Answers, num : 1 .. MaxReplies]
Shows == [app : {m.app : m \in Sent}, text : Seq({m.text : m \in Sent} \ {NoText})]
Counted == {"post", "remove", "reply", "kill", "drop"}
Bound == [post |-> MaxPosts, remove |-> MaxRemoves, reply |-> MaxReplies,
          kill |-> MaxKills, drop |-> MaxDrops]

ASSUME ValuesAssumption == {Nil, Unknown} \cap (Posts \cup Shows) = {}

Value(slot, v) == [slot |-> slot, val |-> v]
Clear == Value("app", Nil)
Ack == Value("ack", Nil)

\* Every slot, cache and queue holds values of its kind.
DeskTypeOK ==
    /\ server.app \in Posts \cup {Nil}
    /\ server.remove \in Ids \cup {Nil}
    /\ server.desktop \in Replies \cup {Nil}
    /\ app \in {"open", "closed", "dead"}
    /\ cache.app \in Posts \cup {Nil, Unknown}
    /\ cache.remove \in Ids \cup {Nil, Unknown}
    /\ Range(writes) \subseteq {Clear} \cup {Value("desktop", r) : r \in Replies}
    /\ arrived \in 0 .. Len(writes)
    /\ \A i \in Ids : notifData[i] \in Shows \cup {Nil} /\ center[i] \in Shows \cup {Nil}
    /\ \A c \in Counted : count[c] \in 0 .. Bound[c]

DeskInit ==
    /\ server = [app |-> Nil, remove |-> Nil, desktop |-> Nil]
    /\ app = "dead"
    /\ connected = FALSE
    /\ cache = [app |-> Unknown, remove |-> Unknown]
    /\ writes = <<>>
    /\ arrived = 0
    /\ down = <<>>
    /\ events = <<>>
    /\ notifData = [i \in Ids |-> Nil]
    /\ center = [i \in Ids |-> Nil]
    /\ toPhone = <<>>
    /\ count = [c \in Counted |-> 0]
    /\ shown = {}
    /\ lost = {}
    /\ safe = {}
    /\ since = [i \in Ids |-> {}]

\* Equal as Firebase values: num is not part of them.
Same(v, w) ==
    IF v \in {Nil, Unknown} \/ w \in {Nil, Unknown} THEN v = w
    ELSE [v EXCEPT !.num = 0] = [w EXCEPT !.num = 0]

\* The client's view of "app": its own write that is not acknowledged hides
\* what the server says.
View(ca, ws) == IF Clear \in Range(ws) THEN Nil ELSE ca

\* The observer of "app" is called if the view changed.
Raise(evs, ca, ws) ==
    IF Same(View(ca, ws), View(cache.app, writes)) THEN evs
    ELSE Append(evs, Value("app", View(ca, ws)))

Counts(c) == count[c] < Bound[c] /\ count' = [count EXCEPT ![c] = @ + 1]

\* What the server tells the client of a change.
Push(slot, v) ==
    IF app = "open" /\ connected THEN Append(down, Value(slot, v)) ELSE down

\* The client has heard, handled and cleared all that was written.
InStep ==
    /\ app = "open"
    /\ connected
    /\ writes = <<>>
    /\ events = <<>>
    /\ down = <<>>
    /\ cache.app = Nil

-----------------------------------------------------------------------------
(* The phone.                                                              *)

\* handleNotifyNotifications: setValue on "app".  Writing what is there
\* already changes nothing.
Post(m) ==
    /\ Counts("post")
    /\ LET v == [app |-> m.app, id |-> m.id, text |-> m.text, num |-> count["post"] + 1]
       IN IF Same(v, server.app)
            THEN UNCHANGED <<server, down, safe>>
            ELSE /\ server' = [server EXCEPT !.app = v]
                 /\ down' = Push("app", v)
                 /\ safe' = IF InStep THEN safe \cup {v.num} ELSE safe
    /\ UNCHANGED <<app, connected, cache, writes, arrived, events, notifData, center, toPhone,
                   shown, lost, since>>

\* onNotificationRemoved: setValue on "remove/id".
RemoveId(i) ==
    /\ Counts("remove")
    /\ server' = [server EXCEPT !.remove = i]
    /\ down' = IF server.remove = i THEN down ELSE Push("remove", i)
    /\ UNCHANGED <<app, connected, cache, writes, arrived, events, notifData, center, toPhone,
                   histVars>>

\* messagesListener.onDataChange.  What it then sends is NotificationListener's.
onDataChange ==
    /\ toPhone # <<>>
    /\ toPhone' = Tail(toPhone)
    /\ UNCHANGED <<server, clientVars, count, histVars>>

-----------------------------------------------------------------------------
(* Firebase.                                                               *)

\* The client connects: its listens are answered with the values of now.
Connect ==
    /\ app # "dead"
    /\ ~connected
    /\ connected' = TRUE
    /\ down' = IF app = "open" THEN <<Value("app", server.app), Value("remove", server.remove)>>
                               ELSE <<>>
    /\ UNCHANGED <<server, app, cache, writes, arrived, events, notifData, center, toPhone,
                   count, histVars>>

\* Mutant: a write is sent once.
SendOnce == UNCHANGED arrived

SendAgain == arrived' = 0

\* The connection is lost; the writes without acknowledgement are sent again.
Disconnect ==
    /\ connected
    /\ Counts("drop")
    /\ connected' = FALSE
    /\ down' = <<>>
    /\ SendAgain
    /\ UNCHANGED <<server, app, cache, writes, events, notifData, center, toPhone, histVars>>

\* The server applies the client's next write, tells the observers of the slot
\* and acknowledges it.
Apply ==
    /\ connected
    /\ arrived < Len(writes)
    /\ arrived' = arrived + 1
    /\ LET w == writes[arrived + 1]
           old == server[w.slot]
       IN /\ server' = [server EXCEPT ![w.slot] = w.val]
          /\ IF w.slot = "app"
               THEN /\ down' = (IF old = Nil THEN down ELSE Push("app", Nil)) \o <<Ack>>
                    /\ lost' = IF old # Nil /\ old.num \notin shown
                               THEN lost \cup {old.num} ELSE lost
                    /\ UNCHANGED toPhone
               ELSE /\ down' = Append(down, Ack)
                    /\ toPhone' = IF Same(old, w.val) THEN toPhone ELSE Append(toPhone, w.val)
                    /\ UNCHANGED lost
    /\ UNCHANGED <<app, connected, cache, writes, events, notifData, center, count,
                   shown, safe, since>>

\* The client takes the next message of the server.
Receive ==
    /\ down # <<>>
    /\ down' = Tail(down)
    /\ LET d == Head(down)
       IN \/ /\ d.slot = "ack"
             /\ writes' = Tail(writes)
             /\ arrived' = arrived - 1
             /\ events' = IF app = "open" THEN Raise(events, cache.app, Tail(writes)) ELSE events
             /\ UNCHANGED cache
          \/ /\ d.slot = "app"
             /\ cache' = [cache EXCEPT !.app = d.val]
             /\ events' = Raise(events, d.val, writes)
             /\ UNCHANGED <<writes, arrived>>
          \/ /\ d.slot = "remove"
             /\ cache' = [cache EXCEPT !.remove = d.val]
             /\ events' = IF d.val = cache.remove THEN events ELSE Append(events, d)
             /\ UNCHANGED <<writes, arrived>>
    /\ UNCHANGED <<server, app, connected, notifData, center, toPhone, count, histVars>>

-----------------------------------------------------------------------------
(* ViewController.                                                         *)

\* The app is gone; the cache, the writes and the delivered notifications stay.
Dies ==
    /\ app' = "dead"
    /\ connected' = FALSE
    /\ arrived' = 0
    /\ down' = <<>>
    /\ events' = <<>>
    /\ notifData' = [i \in Ids |-> Nil]
    /\ since' = [i \in Ids |-> {}]
    /\ safe' = {}
    /\ UNCHANGED <<server, cache, writes, center, toPhone, shown, lost>>

\* The user quits, or the system stops the app.
Kill ==
    /\ app # "dead"
    /\ Counts("kill")
    /\ Dies

\* The observers are called with what the persisted cache knows.
viewDidLoad ==
    /\ app = "dead"
    /\ app' = "open"
    /\ events' = (IF View(cache.app, writes) = Unknown THEN <<>>
                  ELSE <<Value("app", View(cache.app, writes))>>)
                 \o (IF cache.remove = Unknown THEN <<>>
                     ELSE <<Value("remove", cache.remove)>>)
    /\ UNCHANGED <<server, connected, cache, writes, arrived, down, notifData, center, toPhone,
                   count, histVars>>

\* Closing the window removes the observers; the app goes on.  What is under way
\* to it now are the acknowledgements of the writes that were applied.
viewDidDisappear ==
    /\ app = "open"
    /\ app' = "closed"
    /\ events' = <<>>
    /\ down' = [k \in 1 .. arrived |-> Ack]
    /\ safe' = {}
    /\ UNCHANGED <<server, connected, cache, writes, arrived, notifData, center, toPhone, count,
                   shown, lost, since>>

\* A message for a notification that is there: added unless it is its text.
AddText(n, m) == IF n.text = <<m.text>> THEN n ELSE [n EXCEPT !.text = Append(@, m.text)]

\* Mutant: an id that is on the screen is not shown again.
ShowOnce(m) ==
    IF notifData[m.id] # Nil THEN UNCHANGED <<notifData, center, shown, since>>
    ELSE /\ notifData' = [notifData EXCEPT ![m.id] = [app |-> m.app, text |-> <<m.text>>]]
         /\ center' = [center EXCEPT ![m.id] = [app |-> m.app, text |-> <<m.text>>]]
         /\ shown' = shown \cup {m.num}
         /\ since' = [since EXCEPT ![m.id] = @ \cup {m.text}]

showNotification(m) ==
    LET n == IF notifData[m.id] = Nil THEN [app |-> m.app, text |-> <<m.text>>]
                                      ELSE AddText(notifData[m.id], m)
    IN /\ notifData' = [notifData EXCEPT ![m.id] = n]
       /\ center' = [center EXCEPT ![m.id] = n]
       /\ shown' = shown \cup {m.num}
       /\ since' = [since EXCEPT ![m.id] = @ \cup {m.text}]

\* setValue(nil), whose own echo is one more event.
setNil ==
    /\ writes' = Append(writes, Clear)
    /\ events' = Raise(Tail(events), cache.app, Append(writes, Clear))

\* msgListener.  data!["message"]! traps when the key is missing.
msgListener ==
    /\ app = "open"
    /\ events # <<>>
    /\ Head(events).slot = "app"
    /\ LET v == Head(events).val
       IN \/ /\ v # Nil
             /\ v.text = NoText
             /\ Dies
          \/ /\ v # Nil
             /\ v.text # NoText
             /\ showNotification(v)
             /\ setNil
             /\ UNCHANGED <<server, app, connected, cache, arrived, down, toPhone,
                            lost, safe>>
          \/ /\ v = Nil
             /\ setNil
             /\ UNCHANGED <<server, app, connected, cache, arrived, down, notifData, center,
                            toPhone, histVars>>
    /\ UNCHANGED count

\* The observer of "remove" takes the notification away, not its notifData.
notificationRemoveListener ==
    /\ app = "open"
    /\ events # <<>>
    /\ Head(events).slot = "remove"
    /\ events' = Tail(events)
    /\ center' = [i \in Ids |-> IF i = Head(events).val THEN Nil ELSE center[i]]
    /\ UNCHANGED <<server, app, connected, cache, writes, arrived, down, notifData, toPhone,
                   count, histVars>>

removeValue(i) == notifData' = [notifData EXCEPT ![i] = Nil]

Response(i, answer) ==
    [app |-> center[i].app, id |-> i, text |-> answer, num |-> count["reply"] + 1]

\* The user replies to a delivered notification, which macOS then takes away.
didActivate(i, answer) ==
    /\ app # "dead"
    /\ center[i] # Nil
    /\ Counts("reply")
    /\ writes' = Append(writes, Value("desktop", Response(i, answer)))
    /\ removeValue(i)
    /\ center' = [center EXCEPT ![i] = Nil]
    /\ since' = [since EXCEPT ![i] = {}]
    /\ UNCHANGED <<server, app, connected, cache, arrived, down, events, toPhone,
                   shown, lost, safe>>

DeskNext ==
    \/ \E m \in Sent : Post(m)
    \/ \E i \in Ids : RemoveId(i)
    \/ onDataChange
    \/ Connect
    \/ Disconnect
    \/ Apply
    \/ Receive
    \/ Kill
    \/ viewDidLoad
    \/ viewDidDisappear
    \/ msgListener
    \/ notificationRemoveListener
    \/ \E i \in Ids, answer \in Answers : didActivate(i, answer)

DeskSpec == DeskInit /\ [][DeskNext]_deskVars

-----------------------------------------------------------------------------
(* Properties.                                                             *)

\* A notification written while the client is in step, and not closed before
\* it shows it, is never erased unseen, although the client clears the slot
\* on every event, the echo of its own clearing included (lines 27-35).
KeepsUp == lost \cap safe = {}

\* What a notification says is what was shown for its id since the last
\* reply: nothing is missing, nothing is from before it (lines 50-76, 92).
TextSinceReply ==
    \A i \in Ids : since[i] = IF notifData[i] = Nil THEN {} ELSE Range(notifData[i].text)

\* The open client takes every notification out of the slot, through lost
\* connections and writes that are sent again, and its clearing ends.
Drains == app = "open" /\ server.app # Nil ~> server.app = Nil \/ app # "open"

\* The clearing of the slot does not feed itself: the client comes to rest.
ComesToRest == <>[](events = <<>> /\ (app = "open" => writes = <<>>))

\* What the client shows, through crashes and restarts from its cache: nothing
\* is erased unseen while it keeps up, and a text is what came since the last
\* reply.
ShownRight == DeskTypeOK /\ KeepsUp /\ TextSinceReply
=============================================================================
