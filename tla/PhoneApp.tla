------------------------------ MODULE PhoneApp ------------------------------
(***************************************************************************)
(* The Android app: MainActivity and NotificationListener in one process,  *)
(* joined by the broadcast queue and the preferences.                      *)
(***************************************************************************)
EXTENDS MainActivity, NotificationListener

\* What may happen to the app: the process is killed, the service is unbound
\* (and bound again), the access is revoked, the screen is rotated.
CONSTANT Faults

ASSUME FaultsAssumption == Faults \subseteq {"kill", "unbind", "revoke", "rotate"}

\* TRUE when, in this process, a broadcast was lost or an activity was made
\* while broadcasts were on their way, or when the process started from a
\* preference file with half of a mode change.
VARIABLE disturbed

appVars == <<vars, activityVars, disturbed>>

\* What the screen promises: "Notify me either works in 'Notify Mode' or
\* 'AssistBot Mode'", and the bot is on when it is on for some app.
Consistent(f) ==
    /\ ~(f["notify"] /\ f["assist"])
    /\ f["assist"] <=> \E a \in Apps : f[a]

AppInit ==
    /\ Init
    /\ ActivityInit
    /\ disturbed = FALSE

\* A step of the activity; the service only sees the broadcasts it sends.
ActivityFrame ==
    /\ out' = Quiet
    /\ UNCHANGED <<proc, prefs, disk, phase, objectVars, replyVars>>

StartActivity ==
    /\ Launch \/ LoginDone \/ ("rotate" \in Faults /\ Recreate)
    /\ disturbed' = (disturbed \/ intents # <<>>)
    /\ ActivityFrame
    /\ UNCHANGED intents

Navigate ==
    /\ OpenSettings \/ onActivityResult \/ Finish
    /\ ActivityFrame
    /\ UNCHANGED <<intents, disturbed>>

ChangeAccess ==
    /\ Idle
    /\ SetAccess(TRUE) \/ ("revoke" \in Faults /\ SetAccess(FALSE))
    /\ ActivityFrame
    /\ UNCHANGED <<intents, disturbed>>

UserToggles ==
    /\ \E sw \in Modes : ToggleSwitch(sw)
    /\ cur \in Instances => observers[cur] < MaxObservers
    /\ ActivityFrame
    /\ UNCHANGED disturbed

\* A listener that starts while the service is down broadcasts to nobody.
RunListener ==
    /\ Statement
    /\ disturbed' = (disturbed \/ (phase = "down" /\ ~(broadcasting' \subseteq broadcasting)))
    /\ ActivityFrame

\* A step of the service.  If it kills the process, the activity goes too.
ServiceFrame ==
    IF proc' = "up"
      THEN /\ disturbed' = (disturbed \/ (phase' = "down" /\ intents # <<>>))
           /\ UNCHANGED activityVars
      ELSE /\ disturbed' = ~Consistent(prefs'.on)
           /\ DropActivity
           /\ UNCHANGED access

Lifecycle ==
    /\ Idle
    /\ \/ access /\ onCreate
       \/ onListenerConnected
       \/ (~access \/ "unbind" \in Faults) /\ onDestroy
       \/ "kill" \in Faults /\ Kill
    /\ ServiceFrame

Deliver ==
    /\ Idle
    /\ onReceive
    /\ ServiceFrame

Serve ==
    /\ Idle
    /\ \/ \E n \in Notifications : onNotificationPosted(n)
       \/ \E n \in Notifications : onNotificationRemoved(n)
       \/ \E i \in Instances, v \in DesktopReplies : onDataChange(i, v)
       \/ onPostExecute
    /\ ServiceFrame

Background ==
    /\ calls = <<>>
    /\ \/ Flush
       \/ Restart
       \/ screen = "login" /\ \E p \in Phones : SaveLogin(p)
    /\ out' = Quiet
    /\ UNCHANGED <<objectVars, replyVars, activityVars, disturbed>>

AppNext ==
    \/ StartActivity \/ Navigate \/ ChangeAccess \/ UserToggles \/ RunListener
    \/ Lifecycle \/ Deliver \/ Serve \/ Background

AppSpec == AppInit /\ [][AppNext]_appVars

\* The main thread's looper: a running listener goes on to its end, and a
\* broadcast that was accepted is delivered while its receiver is registered.
AppFairness == WF_appVars(RunListener) /\ WF_appVars(Deliver)

FairAppSpec == AppSpec /\ AppFairness

-----------------------------------------------------------------------------
(* Properties.                                                             *)

AppTypeOK ==
    /\ TypeOK
    /\ ActivityTypeOK
    /\ disturbed \in BOOLEAN

\* At rest the switches show one mode: the chain of setChecked calls that any
\* tap starts ends in a consistent state.
OneModeShown == ~disturbed /\ calls = <<>> => Consistent(checked)

Pending(m) == {k \in 1 .. Len(intents) : intents[k].mode = m}

\* The service's flag once the broadcasts on their way are delivered.
After(m) ==
    IF Pending(m) = {} THEN enabled[cur][m]
    ELSE intents[CHOOSE k \in Pending(m) : \A j \in Pending(m) : j <= k].on

\* The broadcasts that onCheckedChanged sends, applied in order by onReceive,
\* take the service to exactly what the switches show.
ServiceFollowsSwitches ==
    ~disturbed /\ phase = "connected" /\ screen \in {"main", "dialog", "settings"}
        => \A m \in Modes : After(m) = checked[m]

\* messagesListener is registered once in Notify mode and never outside it.
ObserveOnce ==
    ~disturbed /\ DisconnectsOnDestroy =>
        \A i \in Instances :
            observers[i] = IF i = cur /\ phase = "connected" /\ enabled[i]["notify"]
                             THEN 1 ELSE 0

\* The bot only talks to somebody who was sent the user's own greeting first:
\* no order of notifications, answers, toggles and rebindings lets onPostExecute
\* reply in a conversation that reply() has not greeted.
GreetedFirst ==
    ~disturbed /\ DisconnectsOnDestroy /\ out.kind = "answer"
        => out.via \in greeted

\* onReceive dereferences a null reference only after a disturbance.
NoToggleCrash == [][proc' = "receive: reference" => disturbed]_appVars

\* Every tap ends: the listeners do not set each other's switches for ever, and
\* a service that stays connected comes to do what the switches then show.
\* (A user who taps again before that can put it off: checked with
\* MaxIntents = 0.)
Settles ==
    (phase = "connected" /\ screen = "main" /\ ~disturbed)
    ~> (\/ phase # "connected"
        \/ enabled[cur] = checked /\ calls = <<>>
        \/ screen # "main")

\* The modes in the activity: well typed, and at rest one of them at most.
ModesConsistent == AppTypeOK /\ OneModeShown
=============================================================================
