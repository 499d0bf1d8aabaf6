----------------------------- MODULE MCDesktop ------------------------------
(***************************************************************************)
(* Desktop for TLC, in two settings: the client is killed and crashes,     *)
(* and it stays alive behind a network that fails.                         *)
(***************************************************************************)
EXTENDS Desktop

VARIABLE setting

Note(a, i, t) == [app |-> a, id |-> i, text |-> t]

\* One sender with two texts; a notification without text.
WithoutText == {Note("wa", "bob", "hi"), Note("wa", "bob", "yo"), Note("fb", "bob", NoText)}

Killed == INSTANCE Desktop WITH MaxRemoves <- 0
Alive == INSTANCE Desktop
    WITH Sent <- {Note("wa", "bob", "hi")}, MaxKills <- 0

ClientInit == DeskInit /\ setting \in {"killed", "alive"}
ClientNext ==
    /\ \/ setting = "killed" /\ Killed!DeskNext
       \/ setting = "alive" /\ Alive!DeskNext
    /\ UNCHANGED setting

\* The network comes back; the server, the phone and the client's main thread
\* keep working.
ClientSpec ==
    /\ ClientInit /\ [][ClientNext]_<<deskVars, setting>>
    /\ WF_deskVars(setting = "alive" /\ Alive!Connect)
    /\ WF_deskVars(setting = "alive" /\ Alive!Apply)
    /\ WF_deskVars(setting = "alive" /\ Alive!Receive)
    /\ WF_deskVars(setting = "alive" /\ Alive!msgListener)
    /\ WF_deskVars(setting = "alive" /\ Alive!notificationRemoveListener)
    /\ WF_deskVars(setting = "alive" /\ Alive!onDataChange)
-----------------------------------------------------------------------------
\* Drains: the client that is not killed takes every notification out of the
\* slot, through lost connections and writes that are sent again (27-35).
ClientDrains == setting = "alive" => Drains

\* ComesToRest: clearing the slot on the event of its own clearing does not go
\* on for ever (27-35).
ClientRests == setting = "alive" => ComesToRest

\* The client that stays alive empties the slot and then is quiet.
ClientSettles == ClientDrains /\ ClientRests
=============================================================================
