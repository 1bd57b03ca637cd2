----------------------------- MODULE EsbChannel -----------------------------
(***************************************************************************)
(* What an Enhanced ShockBurst link promises to the two applications       *)
(* (doc/nrf/ug_esb.rst, "Packet transaction" and "FIFOs"): the packets the *)
(* PTX accepts reach the RX FIFO of the PRX once each and in order, and    *)
(* TX_SUCCESS is reported for a packet only after that.                    *)
(***************************************************************************)
EXTENDS Naturals, Sequences

CONSTANT Data
VARIABLES
    sent,      \* contents of the packets esb_write_payload() queued
    received,  \* contents the PRX put into its RX FIFO
    confirmed  \* number of packets the PTX removed as acknowledged

chVars == <<sent, received, confirmed>>

Init == sent = <<>> /\ received = <<>> /\ confirmed = 0

Send(d) ==
    /\ sent' = Append(sent, d)
    /\ UNCHANGED <<received, confirmed>>

Deliver ==
    /\ Len(received) < Len(sent)
    /\ Len(received) = confirmed
    /\ received' = Append(received, sent[Len(received) + 1])
    /\ UNCHANGED <<sent, confirmed>>

Confirm ==
    /\ confirmed < Len(received)
    /\ confirmed' = confirmed + 1
    /\ UNCHANGED <<sent, received>>

Next == (\E d \in Data : Send(d)) \/ Deliver \/ Confirm
Spec == Init /\ [][Next]_chVars
=============================================================================
