----------------------------- MODULE MCLightCtrl -----------------------------
(* Instances of LightCtrl for TLC. *)
EXTENDS LightCtrl

(* One tick for every time: the manual fade is longer than TIME_MANUAL = 0, *)
(* as it is in the default configuration (500 against 5).                   *)
MCDefault == [c \in ConfigTimes |-> 1]

(* Instant fades into On and Standby. *)
MCInstant == [MCDefault EXCEPT !.fade_on = 0, !.fade_standby_manual = 0, !.fade_standby_auto = 0]

MCConfigs == {MCDefault, MCInstant}
=============================================================================
