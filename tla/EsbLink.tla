------------------------------ MODULE EsbLink ------------------------------
(***************************************************************************)
(* A primary transmitter and a primary receiver, each running Esb, on one  *)
(* channel.  The end of a transmission is the end of the other device's    *)
(* reception, so the two RADIO interrupts are one step: the packet is      *)
(* heard, heard with a bad CRC, or lost.  A device that is not receiving   *)
(* hears nothing.                                                          *)
(*                                                                         *)
(* The variables of Esb are those of the transmitter; the receiver has its *)
(* own, with the prefix prx_.  The radio turns an acknowledgment around by *)
(* its hardware shortcut, well within RX_ACK_TIMEOUT_US: the transmitter   *)
(* does not time out while the receiver is transmitting.                   *)
(***************************************************************************)
EXTENDS Esb, Sequences, FiniteSets

CONSTANTS
    PrxAppCalls, PrxIdleCalls,  \* AppCalls and IdleCalls of the receiver
    MaxWrites                   \* bound on the payloads each side queues

VARIABLES
    prx_esb_initialized, prx_esb_state, prx_retransmit_count, prx_tx_fifo, prx_rx_fifo,
    prx_pids, prx_rx_pipe_info, prx_tx_payload_buffer, prx_retransmits_remaining,
    prx_last_tx_attempts, prx_interrupt_flags, prx_evt_pending, prx_on_radio_disabled,
    prx_radio, prx_shorts, prx_ppi, prx_esb_addr, prx_radio_addr, prx_evt, prx_call,
    prx_tx_count, prx_dropped,
    up,   \* history of the packets from the transmitter to the receiver
    down  \* history of the payloads of acknowledgments

Prx == INSTANCE Esb WITH
    MODE <- "PRX", AppCalls <- PrxAppCalls, IdleCalls <- PrxIdleCalls,
    esb_initialized <- prx_esb_initialized, esb_state <- prx_esb_state,
    retransmit_count <- prx_retransmit_count, tx_fifo <- prx_tx_fifo, rx_fifo <- prx_rx_fifo,
    pids <- prx_pids, rx_pipe_info <- prx_rx_pipe_info,
    tx_payload_buffer <- prx_tx_payload_buffer,
    retransmits_remaining <- prx_retransmits_remaining,
    last_tx_attempts <- prx_last_tx_attempts, interrupt_flags <- prx_interrupt_flags,
    evt_pending <- prx_evt_pending, on_radio_disabled <- prx_on_radio_disabled,
    radio <- prx_radio, shorts <- prx_shorts, ppi <- prx_ppi, esb_addr <- prx_esb_addr,
    radio_addr <- prx_radio_addr, evt <- prx_evt, call <- prx_call,
    tx_count <- prx_tx_count, dropped <- prx_dropped

prxVars ==
    <<prx_esb_initialized, prx_esb_state, prx_retransmit_count, prx_tx_fifo, prx_rx_fifo,
      prx_pids, prx_rx_pipe_info, prx_tx_payload_buffer, prx_retransmits_remaining,
      prx_last_tx_attempts, prx_interrupt_flags, prx_evt_pending, prx_on_radio_disabled,
      prx_radio, prx_shorts, prx_ppi, prx_esb_addr, prx_radio_addr, prx_evt, prx_call,
      prx_tx_count, prx_dropped>>
linkVars == <<vars, prxVars, up, down>>
-----------------------------------------------------------------------------
(* The contents of what went into a FIFO and of what came out at the other  *)
(* side, and how many were removed from the TX FIFO as sent.                *)
NoHistory == [sent |-> <<>>, received |-> <<>>, removed |-> 0]
Pushed(f, fNext) ==
    IF fNext.count > f.count THEN <<fNext.slot[f.back].data>> ELSE <<>>
Traffic(h, tx, txNext, rx, rxNext) ==
    [sent |-> h.sent \o Pushed(tx, txNext),
     received |-> h.received \o Pushed(rx, rxNext),
     removed |-> h.removed + IF txNext.count < tx.count THEN 1 ELSE 0]
Record ==
    /\ up' = Traffic(up, tx_fifo, tx_fifo', prx_rx_fifo, prx_rx_fifo')
    /\ down' = Traffic(down, prx_tx_fifo, prx_tx_fifo', rx_fifo, rx_fifo')

(* Two devices hear each other when their radios use one channel and one    *)
(* address for the pipe.                                                    *)
OneAddress == radio_addr.channel = prx_radio_addr.channel
              /\ radio_addr.base0 = prx_radio_addr.base0

(* The transmitter's packet. *)
PacketHeard == OneAddress /\ TxDone /\ Prx!RxDone(tx_payload_buffer)
PacketCorrupted == OneAddress /\ TxDone /\ Prx!RxCorrupt
PacketLost == TxDone /\ UNCHANGED prxVars

(* The receiver's acknowledgment. *)
AckHeard == OneAddress /\ Prx!TxDone /\ RxDone(prx_tx_payload_buffer)
AckCorrupted == OneAddress /\ Prx!TxDone /\ RxCorrupt
AckLost == Prx!TxDone /\ UNCHANGED vars

PtxTimeout == prx_radio # "tx" /\ RxTimeout /\ UNCHANGED prxVars

Air == PacketHeard \/ PacketCorrupted \/ PacketLost \/ AckHeard \/ AckCorrupted \/ AckLost
       \/ PtxTimeout \/ (TxStart /\ UNCHANGED prxVars)

PtxApp == App /\ UNCHANGED prxVars
PrxApp == Prx!App /\ UNCHANGED vars
Events == (Event /\ UNCHANGED prxVars) \/ (Prx!Event /\ UNCHANGED vars)

LinkInit == Init /\ Prx!Init /\ up = NoHistory /\ down = NoHistory
Begun(calls) == Cardinality({c \in Contexts : calls[c].op = "write"})
Bounded == /\ Len(up'.sent) + Begun(call') <= MaxWrites
           /\ Len(down'.sent) + Begun(prx_call') <= MaxWrites
LinkNext == (Air \/ Events \/ PtxApp \/ PrxApp) /\ Record /\ Bounded
LinkSpec == LinkInit /\ [][LinkNext]_linkVars

Step(A) == A /\ Record /\ Bounded
PtxStep(A) == Step(A /\ UNCHANGED prxVars)
PrxStep(A) == Step(A /\ UNCHANGED vars)
LinkFairness ==
    /\ WF_linkVars(Step(Air))
    /\ SF_linkVars(Step(PacketHeard))
    /\ SF_linkVars(Step(AckHeard))
    /\ WF_linkVars(PtxStep(Event)) /\ WF_linkVars(PrxStep(Prx!Event))
    /\ \A c \in Contexts :
          /\ SF_linkVars(PtxStep(InCall(c)))
          /\ SF_linkVars(PtxStep(esb_start_tx(c)))
          /\ SF_linkVars(PrxStep(Prx!esb_start_rx(c)))
          /\ SF_linkVars(PrxStep(Prx!esb_read_rx_payload(c) \/ Prx!InCall(c)))
LinkFairSpec == LinkSpec /\ LinkFairness
-----------------------------------------------------------------------------
Channel == INSTANCE EsbChannel WITH sent <- up.sent, received <- up.received,
                                    confirmed <- up.removed

(* The link is a reliable channel, whatever the air does: every packet is   *)
(* put into the receiver's RX FIFO once and in order, and is removed from   *)
(* the transmitter's TX FIFO only after that.                               *)
ReliableChannel == Channel!Spec

(* Whatever the transmitter queued, a time comes when all of it has reached *)
(* the receiver and is acknowledged, when the air does not lose packets     *)
(* forever, the transmitter is started again after TX_FAILED and the        *)
(* receiver reads its RX FIFO.                                              *)
AllConfirmed == up.removed < Len(up.sent) ~> up.removed = Len(up.sent)
=============================================================================
