------------------------------- MODULE MCEsb -------------------------------
(* Instances of Esb for TLC. *)
EXTENDS Esb

(* What an acknowledgment looks like to a PTX: with and without a payload,  *)
(* and with one that is too long.                                           *)
MCAcks == [pipe : Pipes, pid : {PID_MAX}, noack : {FALSE}, data : Contents]

(* What a PRX hears: any packet of a proper length, and one on pipe 0 that  *)
(* is too long and wants an acknowledgment.                                 *)
MCPackets ==
    [pipe : Pipes, pid : Pids, noack : NoAckChoices, data : Data]
        \cup [pipe : {0}, pid : {PID_MAX}, noack : {FALSE}, data : LongData]
=============================================================================
