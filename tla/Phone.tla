------------------------------- MODULE Phone -------------------------------
(***************************************************************************)
(* What the Android components of Notify Me share: the app's process, the  *)
(* SharedPreferences, the NotificationListener service's life-cycle phase  *)
(* and the broadcasts MainActivity sends to the service's                  *)
(* EnableToggleReceiver.                                                   *)
(*                                                                         *)
(* All Java code modelled here runs on the main thread of one process, so  *)
(* every callback is one step.  (The background half of the AsyncTask only *)
(* waits for api.ai, see NotificationListener.)                            *)
(***************************************************************************)
EXTENDS Naturals, Sequences

CONSTANTS
    Phones,    \* phone numbers LoginActivity may save
    NoPhone,   \* the default "" of getString("phone", "")
    MaxIntents \* bound: broadcasts on their way when the next one is caused

ASSUME PhoneAssumption ==
    /\ NoPhone \notin Phones
    /\ MaxIntents \in Nat

\* com.whatsapp and com.facebook.orca; each has a switch and a flag.
Apps == {"wa", "fb"}

\* The four flags, switches and ENABLE_* broadcast actions.
Modes == {"assist", "notify"} \cup Apps

AllOff == [m \in Modes |-> FALSE]

\* An ENABLE_* intent with its "1"/"0" extra.
Intents == [mode : Modes, on : BOOLEAN]

Prefs == [on : [Modes -> BOOLEAN], phone : Phones \cup {NoPhone}]

\* Why the process may be gone: killed by the system, or a NullPointerException
\* nobody catches: onReceive on the service's editor or on its reference,
\* onListenerDisconnected on reference, onNotificationRemoved on the title or
\* on reference.
Deaths == {"killed", "receive: editor", "receive: reference",
           "disconnect: reference", "removed"}

VARIABLES
    proc,      \* "up", or the reason why the process is dead
    prefs,     \* SharedPreferences in memory (what get* returns)
    disk,      \* the preference file: apply() writes it later
    phase,     \* the service: "down", "created" (receiver registered),
               \* or "connected" (onListenerConnected has run)
    intents    \* broadcasts accepted for the receiver, not yet delivered

phoneVars == <<proc, prefs, disk, phase, intents>>

PhoneTypeOK ==
    /\ proc \in {"up"} \cup Deaths
    /\ prefs \in Prefs
    /\ disk \in Prefs
    /\ phase \in {"down", "created", "connected"}
    /\ intents \in Seq(Intents)

PhoneInit ==
    /\ proc = "up"
    /\ prefs = [on |-> AllOff, phone |-> NoPhone]
    /\ disk = prefs
    /\ phase = "down"
    /\ intents = <<>>

\* SharedPreferences.Editor.apply(): memory at once, the file some time later.
Flush ==
    /\ proc = "up"
    /\ disk # prefs
    /\ disk' = prefs
    /\ UNCHANGED <<proc, prefs, phase, intents>>

\* The process is gone: the service and its receiver with it, the broadcasts
\* on their way to it, and the preferences that did not reach the file.
PhoneDies(cause) ==
    /\ proc' = cause
    /\ prefs' = disk
    /\ phase' = "down"
    /\ intents' = <<>>
    /\ UNCHANGED disk

\* Android starts the process again.
Restart ==
    /\ proc # "up"
    /\ proc' = "up"
    /\ UNCHANGED <<prefs, disk, phase, intents>>

\* A broadcast reaches the receiver only if it is registered when it is sent.
sendBroadcast(m) ==
    intents' = IF phase = "down" THEN intents ELSE Append(intents, m)

\* The editor.apply() at the end of LoginActivity's onComplete.
SaveLogin(p) ==
    /\ proc = "up"
    /\ prefs.phone = NoPhone
    /\ prefs' = [prefs EXCEPT !.phone = p]
    /\ UNCHANGED <<proc, disk, phase, intents>>
=============================================================================
