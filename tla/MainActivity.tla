---------------------------- MODULE MainActivity ----------------------------
(***************************************************************************)
(* activitites/MainActivity.java: the screen with the four switches.       *)
(*                                                                         *)
(* A switch that changes calls its onCheckedChanged, which sends an        *)
(* ENABLE_* broadcast and sets other switches, whose listeners run before  *)
(* the call returns.  calls is that call stack: the statements still to    *)
(* run, the innermost first.  While it is not empty the main thread does   *)
(* nothing else.                                                           *)
(***************************************************************************)
EXTENDS Phone

VARIABLES
    access,       \* the app is among the enabled notification listeners
    screen,       \* what the user sees of the app
    checked,      \* the switches
    from,         \* fromWhatsapp and fromFbMsg
    broadcasting, \* switches whose listener is running (mBroadcasting)
    calls

activityVars == <<access, screen, checked, from, broadcasting, calls>>

Screens == {"closed", "login", "dialog", "settings", "main"}

Statements == [op : {"set", "setFrom", "ensureAssist", "dropAssist",
                     "resetFrom", "return"},
               sw : Modes, on : BOOLEAN]

Other(a) == CHOOSE b \in Apps : b # a

Stmt(op, sw) == [op |-> op, sw |-> sw, on |-> FALSE]
Set(sw, b) == [op |-> "set", sw |-> sw, on |-> b]

NoFrom == [a \in Apps |-> TRUE]

NoActivity ==
    /\ screen = "closed"
    /\ checked = AllOff
    /\ from = NoFrom
    /\ broadcasting = {}
    /\ calls = <<>>

\* The activity object goes, and its running listeners with it.
DropActivity ==
    /\ screen' = "closed"
    /\ checked' = AllOff
    /\ from' = NoFrom
    /\ broadcasting' = {}
    /\ calls' = <<>>

ActivityInit ==
    /\ access = FALSE
    /\ NoActivity

ActivityTypeOK ==
    /\ access \in BOOLEAN
    /\ screen \in Screens
    /\ checked \in [Modes -> BOOLEAN]
    /\ from \in [Apps -> BOOLEAN]
    /\ broadcasting \in SUBSET Modes
    /\ calls \in Seq(Statements)

\* The main thread is free to take the next message.
Idle == proc = "up" /\ calls = <<>>

-----------------------------------------------------------------------------
(* onCreate, the access dialog and the way back from the settings.         *)

\* onCreate: to LoginActivity, or the switches as saved, with the access
\* dialog on top if the app may not see notifications.  The switches get
\* their listeners after their values.
Show(restore) ==
    IF prefs.phone = NoPhone
      THEN /\ screen' = "login"
           /\ UNCHANGED <<checked, from, broadcasting, calls>>
      ELSE /\ screen' = IF access THEN "main" ELSE "dialog"
           /\ checked' = prefs.on
           /\ from' = NoFrom
           /\ broadcasting' = {}
           /\ calls' = restore

Launch ==
    /\ Idle
    /\ screen = "closed"
    /\ Show(<<>>)
    /\ UNCHANGED access

\* LoginActivity has saved the login: it starts MainActivity and finishes.
LoginDone ==
    /\ Idle
    /\ screen = "login"
    /\ prefs.phone # NoPhone
    /\ Show(<<>>)
    /\ UNCHANGED access

\* A configuration change makes a new activity.  After onCreate the framework
\* restores every switch, in layout order and now with listeners, to what the
\* old activity showed.
Recreate ==
    /\ Idle
    /\ screen \in {"main", "dialog"}
    /\ Len(intents) <= MaxIntents
    /\ Show(<<Set("notify", checked["notify"]), Set("assist", checked["assist"]),
              Set("wa", checked["wa"]), Set("fb", checked["fb"])>>)
    /\ UNCHANGED access

OpenSettings ==
    /\ Idle
    /\ screen = "dialog"
    /\ screen' = "settings"
    /\ UNCHANGED <<access, checked, from, broadcasting, calls>>

onActivityResult ==
    /\ Idle
    /\ screen = "settings"
    /\ screen' = IF access THEN "main" ELSE "dialog"
    /\ UNCHANGED <<access, checked, from, broadcasting, calls>>

\* "Not now" in the dialog, or the back button.
Finish ==
    /\ Idle
    /\ screen \in {"login", "dialog", "main"}
    /\ DropActivity
    /\ UNCHANGED access

\* The user edits the list of notification listeners in the settings.
SetAccess(b) ==
    /\ access # b
    /\ access' = b
    /\ UNCHANGED <<screen, checked, from, broadcasting, calls>>

-----------------------------------------------------------------------------
(* The switches.                                                           *)

ToggleSwitch(sw) ==
    /\ Idle
    /\ screen = "main"
    /\ Len(intents) <= MaxIntents
    /\ calls' = <<Set(sw, ~checked[sw])>>
    /\ UNCHANGED <<access, screen, checked, from, broadcasting, intents>>

\* The listeners, after the sendBroadcast each of them starts with.
NotifyListener(b) ==
    IF b THEN <<Set("assist", FALSE), Set("wa", FALSE), Set("fb", FALSE)>>
         ELSE <<>>

AssistListener(b) ==
    IF b THEN <<Set("notify", FALSE), Stmt("setFrom", "wa"),
                Stmt("setFrom", "fb"), Stmt("resetFrom", "assist")>>
         ELSE <<Set("wa", FALSE), Set("fb", FALSE)>>

AppListener(a, b) ==
    IF b THEN <<Stmt("ensureAssist", a), Set("notify", FALSE)>>
         ELSE <<Stmt("dropAssist", a)>>

onCheckedChanged(sw, b) ==
    (CASE sw = "notify" -> NotifyListener(b)
       [] sw = "assist" -> AssistListener(b)
       [] OTHER -> AppListener(sw, b))
    \o <<Stmt("return", sw)>>

\* CompoundButton.setChecked: nothing to do if nothing changes, and no
\* listener if this switch's listener is already running.
SetChecked(sw, b, rest) ==
    \/ /\ checked[sw] = b
       /\ calls' = rest
       /\ UNCHANGED <<checked, broadcasting, intents>>
    \/ /\ checked[sw] # b
       /\ checked' = [checked EXCEPT ![sw] = b]
       /\ IF sw \in broadcasting
            THEN /\ calls' = rest
                 /\ UNCHANGED <<broadcasting, intents>>
            ELSE /\ calls' = onCheckedChanged(sw, b) \o rest
                 /\ broadcasting' = broadcasting \cup {sw}
                 /\ sendBroadcast([mode |-> sw, on |-> b])

\* if (!assistSwitch.isChecked()) { fromX = false; assistSwitch.setChecked(true) }
EnsureAssist(a, rest) ==
    IF checked["assist"] THEN calls' = rest /\ UNCHANGED from
    ELSE /\ from' = [from EXCEPT ![a] = FALSE]
         /\ calls' = <<Set("assist", TRUE)>> \o rest

\* Mutant: the last app switch leaves the assistant on.
KeepAssist(a, rest) == calls' = rest

\* if (!otherSwitch.isChecked()) assistSwitch.setChecked(false)
DropAssist(a, rest) ==
    calls' = IF checked[Other(a)] THEN rest
                                  ELSE <<Set("assist", FALSE)>> \o rest

\* One statement of a running listener.
Statement ==
    /\ proc = "up"
    /\ calls # <<>>
    /\ LET s == Head(calls)
           rest == Tail(calls)
       IN \/ /\ s.op = "set"
             /\ SetChecked(s.sw, s.on, rest)
             /\ UNCHANGED from
          \/ /\ s.op = "setFrom"
             /\ SetChecked(s.sw, from[Other(s.sw)], rest)
             /\ UNCHANGED from
          \/ /\ s.op = "ensureAssist"
             /\ EnsureAssist(s.sw, rest)
             /\ UNCHANGED <<checked, broadcasting, intents>>
          \/ /\ s.op = "dropAssist"
             /\ DropAssist(s.sw, rest)
             /\ UNCHANGED <<checked, from, broadcasting, intents>>
          \/ /\ s.op = "resetFrom"
             /\ from' = NoFrom
             /\ calls' = rest
             /\ UNCHANGED <<checked, broadcasting, intents>>
          \/ /\ s.op = "return"
             /\ broadcasting' = broadcasting \ {s.sw}
             /\ calls' = rest
             /\ UNCHANGED <<checked, from, intents>>
    /\ UNCHANGED <<access, screen>>

=============================================================================
