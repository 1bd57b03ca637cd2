----------------------------- MODULE MCEsbLink -----------------------------
(* Instances of EsbLink for TLC; AirPackets is not used by it. *)
EXTENDS EsbLink
MCNoPackets == {}
=============================================================================
