----------------------------- MODULE MCScreens ------------------------------
(***************************************************************************)
(* The app's two screens for TLC, one at a time: LoginActivity under all   *)
(* faults (as the configuration says), with interruptions only and with    *)
(* late answers only, and MainActivity with the service it switches.       *)
(***************************************************************************)
EXTENDS LoginActivity

MCCodeOf == [n \in Numbers |-> IF n = "+911" THEN "101" ELSE "102"]

VARIABLES
    setting,
    proc, prefs, disk, phase, intents,                      \* Phone
    cur, enabled, number, reference, observers, listed,     \* the service
    hashMap, replyTo, tasks, out, greeted, mirrored,
    access, showing, checked, from, broadcasting, calls, disturbed

mainVars == <<proc, prefs, disk, phase, intents, cur, enabled, number, reference,
              observers, listed, hashMap, replyTo, tasks, out, greeted, mirrored,
              access, showing, checked, from, broadcasting, calls, disturbed>>

Interrupted == INSTANCE LoginActivity WITH Faults <- {"stop", "refused"}, MaxPending <- 3
Late == INSTANCE LoginActivity WITH Faults <- {"refused", "timeout"}, MaxPending <- 3

Main == INSTANCE PhoneApp WITH
    phoneNumber <- number, screen <- showing,
    Phones <- {"123456789"}, NoPhone <- "", MaxIntents <- 0,
    Titles <- {}, NoTitle <- "none", Ids <- {}, IdOf <- <<>>, Notifications <- {},
    None <- "none", NoRef <- "null", DisconnectsOnDestroy <- TRUE, MaxInstances <- 1,
    MaxTasks <- 0, Toggles <- {}, MaxObservers <- 2, Faults <- {"rotate"}

ScreensInit ==
    /\ LoginInit
    /\ Main!AppInit
    /\ setting \in {"faults", "interrupted", "late", "main"}

ScreensNext ==
    /\ \/ setting = "faults" /\ LoginNext /\ UNCHANGED mainVars
       \/ setting = "interrupted" /\ Interrupted!LoginNext /\ UNCHANGED mainVars
       \/ setting = "late" /\ Late!LoginNext /\ UNCHANGED mainVars
       \/ setting = "main" /\ Main!AppNext /\ UNCHANGED loginVars
    /\ UNCHANGED setting

\* Firebase answers every request and every sign-in; the main thread goes on.
ScreensSpec ==
    /\ ScreensInit
    /\ [][ScreensNext]_<<loginVars, mainVars, setting>>
    /\ WF_loginVars(setting = "late" /\ Late!Callback)
    /\ WF_loginVars(setting = "late" /\ Late!SignedIn)
    /\ WF_mainVars(setting = "main" /\ Main!RunListener)
    /\ WF_mainVars(setting = "main" /\ Main!Deliver)
-----------------------------------------------------------------------------
\* When numbers are refused and codes time out, every press of the button is
\* followed by a callback that shows it again, or the screen closes.
PressAnswered ==
    (setting = "late" /\ OnScreen /\ ~button) ~> (button \/ life # "running")

\* Settles: every tap on a switch of the main screen ends in a service that
\* does what the switches show (MainActivity.java:93-209).
TapSettles == Main!Settles
=============================================================================
