----------------------------- MODULE MCPhoneApp -----------------------------
(***************************************************************************)
(* The Android app for TLC.  The service alone, with the activity closed:  *)
(* AssistBot mode with an answer under way, as the configuration says, and *)
(* Notify mode.  The app: mode changes under all faults, as the            *)
(* configuration says, and AssistBot mode with messages and answers.       *)
(***************************************************************************)
EXTENDS PhoneApp

VARIABLE setting

Note(app, title, text, acts) ==
    [app |-> app, title |-> title, text |-> text, acts |-> acts]

NoNotifications == {}

\* Nothing is claimed of a disturbed process: do not look further.
Undisturbed == ~disturbed
-----------------------------------------------------------------------------
(* The service *)

\* One title is its own id, so that a sender's name can be a key of hashMap.
MCTitles == {"Bob", "eve"}
MCIds == {"bob", "eve"}
MCIdOf == [t \in MCTitles |-> IF t = "Bob" THEN "bob" ELSE "eve"]

NotifyToggles == [mode : {"notify"}, on : BOOLEAN]
BotToggles == [mode : {"assist", "wa", "fb"}, on : {TRUE}]
AssistToggles == BotToggles \cup {[mode |-> "wa", on |-> FALSE]}

\* Notify mode: two apps with one id, no reply action, no title.
RelayNotifications ==
    {Note("wa", "Bob", "plain", "reply"), Note("fb", "Bob", "plain", "reply"),
     Note("wa", "eve", "plain", "reply"), Note("wa", "eve", "plain", "no input"),
     Note("fb", NoTitle, "plain", "reply"), Note("other", "eve", "plain", "reply")}

\* AssistBot mode: two conversations, a summary and a text that is missing.
BotNotifications ==
    {Note("wa", "Bob", "plain", "reply"), Note("fb", "eve", "new message", "reply"),
     Note("fb", "eve", "new messages", "reply"), Note("wa", "Bob", "null", "no input"),
     Note("fb", "Bob", "plain", "no input")}

Relay == INSTANCE NotificationListener
    WITH Notifications <- RelayNotifications, Toggles <- NotifyToggles, MaxTasks <- 0

ServiceInit == AppInit /\ setting \in {"bot", "relay"}
ServiceNext ==
    /\ \/ setting = "bot" /\ Next
       \/ setting = "relay" /\ Relay!Next
    /\ UNCHANGED <<activityVars, disturbed, setting>>
ServiceSpec == ServiceInit /\ [][ServiceNext]_<<appVars, setting>>
-----------------------------------------------------------------------------
(* The app *)

\* A title that is its own id.
OneTitle == {"eve"}
OneId == {"eve"}
OneIdOf == [t \in OneTitle |-> t]

\* One sender in both apps; in one of them it cannot be replied to.
AppNotifications == {Note("wa", "eve", "plain", "reply"), Note("fb", "eve", "plain", "no input")}

Bot == INSTANCE PhoneApp
    WITH Notifications <- AppNotifications, MaxTasks <- 1, MaxIntents <- 0, Faults <- {}

ModesInit == AppInit /\ setting \in {"modes", "bot"}
ModesNext ==
    /\ \/ setting = "modes" /\ AppNext
       \/ setting = "bot" /\ Bot!AppNext
    /\ UNCHANGED setting
ModesSpec == ModesInit /\ [][ModesNext]_<<appVars, setting>>
=============================================================================
