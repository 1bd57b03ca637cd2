---------------------------- MODULE LightMachine ----------------------------
(***************************************************************************)
(* What the Light Lightness Control Server promises to a reader of its     *)
(* documentation: the state machine Standby - On - Prolong with a fade     *)
(* into each state, without timers, flags, storage or messages.            *)
(***************************************************************************)
VARIABLE light

Lit   == {"FadeOn", "On", "FadeProlong", "Prolong"}
Modes == {"Disabled", "Standby", "FadeStandby"} \cup Lit

MachineInit == light = "Disabled"

(* The server takes control of a light: it fades into Standby at once, or, *)
(* after a restart, goes on as it was.                                     *)
Enable == light = "Disabled" /\ light' \in {"FadeStandby", "Standby", "FadeOn"}

Disable == light # "Disabled" /\ light' = "Disabled"

(* A switch or a sensor.  In On the event only postpones the timeout. *)
OnEvent == light \in Modes \ {"Disabled", "FadeOn", "On"} /\ light' = "FadeOn"

(* A switch only: nothing else leaves the lit states for Standby. *)
OffEvent == light \in Lit /\ light' = "FadeStandby"

After == [FadeOn |-> "On", On |-> "FadeProlong", FadeProlong |-> "Prolong",
          Prolong |-> "FadeStandby", FadeStandby |-> "Standby"]

Timeout == light \in DOMAIN After /\ light' = After[light]

MachineNext == Enable \/ Disable \/ OnEvent \/ OffEvent \/ Timeout

MachineSpec == MachineInit /\ [][MachineNext]_light
=============================================================================
