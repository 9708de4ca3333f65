----------------------------- MODULE MqttSession -----------------------------
(***************************************************************************)
(* What the MQTT helper promises of a session, without its threads, its    *)
(* library or its socket numbers: a session is opened, comes up, may be    *)
(* closed on request, and is reported down only once its wire is gone; no  *)
(* new one is opened over the wire of an old one.                          *)
(***************************************************************************)
VARIABLES phase,  \* "off", "down", "opening", "up", "closing"
          wire    \* there is a connection to the broker

TypeOK == /\ phase \in {"off", "down", "opening", "up", "closing"}
          /\ wire \in BOOLEAN

Init == phase = "off" /\ wire = FALSE

SwitchOn  == phase = "off" /\ phase' = "down" /\ UNCHANGED wire
SwitchOff == phase = "down" /\ phase' = "off" /\ UNCHANGED wire
Open      == phase = "down" /\ phase' = "opening" /\ UNCHANGED wire
Attach    == phase = "opening" /\ ~wire /\ wire' = TRUE /\ UNCHANGED phase
Establish == phase = "opening" /\ wire /\ phase' = "up" /\ UNCHANGED wire
Shut      == phase = "up" /\ phase' = "closing" /\ UNCHANGED wire
Lose      == wire /\ wire' = FALSE /\ UNCHANGED phase
GiveUp    == /\ phase \in {"opening", "up", "closing"}
             /\ ~wire
             /\ phase' = "down"
             /\ UNCHANGED wire

Next == \/ SwitchOn \/ SwitchOff \/ Open \/ Attach \/ Establish \/ Shut
        \/ Lose \/ GiveUp

Spec == Init /\ [][Next]_<<phase, wire>>
=============================================================================
