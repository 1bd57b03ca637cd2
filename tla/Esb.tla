--------------------------------- MODULE Esb ---------------------------------
(***************************************************************************)
(* The Enhanced ShockBurst link layer of one device (subsys/esb/esb.c):    *)
(* the transmitter (PTX) and the receiver (PRX) state machines driven by   *)
(* the RADIO interrupt, the TX and RX FIFOs, packet identifiers, the event *)
(* software interrupt and the API calls of the application.                *)
(*                                                                         *)
(* Three contexts run this code.  The RADIO interrupt has the highest      *)
(* priority and is one atomic step.  The event interrupt (SWI0) has the    *)
(* next one; it runs the application's event handler, whose API calls are  *)
(* those of the context "handler".  The application's thread runs when     *)
(* neither interrupt does.  An API call is split where another context may *)
(* get in between and matter: around irq_lock(), and before the radio      *)
(* interrupt is masked.                                                    *)
(*                                                                         *)
(* The air is open here: what the radio receives is any packet, or         *)
(* nothing.  EsbLink closes it with a second device.                       *)
(***************************************************************************)
EXTENDS Integers

CONSTANTS
    MODE,               \* esb_cfg.mode: "PTX" or "PRX"
    PROTOCOL,           \* esb_cfg.protocol: "ESB" or "ESB_DPL"
    TXMODE,             \* esb_cfg.tx_mode: "AUTO", "MANUAL" or "MANUAL_START"
    SELECTIVE_AUTO_ACK, \* esb_cfg.selective_auto_ack
    TX_FIFO_SIZE,       \* CONFIG_ESB_TX_FIFO_SIZE
    RX_FIFO_SIZE,       \* CONFIG_ESB_RX_FIFO_SIZE
    PIPE_COUNT,         \* CONFIG_ESB_PIPE_COUNT
    PID_MAX,            \* largest packet identifier (3 in the code)
    UINT_MAX,           \* largest uint32_t; scaled down for model checking
    RetransmitCounts,   \* values the application gives retransmit_count
    Data,               \* contents of non-empty payloads
    NoData,             \* the empty payload (length 0)
    LongData,           \* contents over CONFIG_ESB_MAX_PAYLOAD_LENGTH, only on the air
    NoAckChoices,       \* values the application gives payload.noack
    AirPackets,         \* packets the open air may deliver
    Addrs,              \* values of base addresses, prefixes and lengths
    DefaultAddr,        \* the value the radio registers get from esb_init()
    Channels,           \* RF channels
    Contexts,           \* contexts that call the API: "thread", "handler"
    AppCalls,           \* calls the application makes at any time
    IdleCalls           \* calls it makes only after esb_is_idle()

VARIABLES
    esb_initialized,       \* also: the event interrupt is enabled
    esb_state,
    retransmit_count,      \* esb_cfg.retransmit_count
    tx_fifo, rx_fifo,
    pids,                  \* last packet identifier given out, by pipe
    rx_pipe_info,          \* what the PRX remembers of each pipe
    tx_payload_buffer,     \* the packet the radio sends (TXADDRESS included)
    retransmits_remaining,
    last_tx_attempts,
    interrupt_flags,
    evt_pending,           \* the event interrupt is pending in the NVIC
    on_radio_disabled,     \* the function the RADIO interrupt calls
    radio, shorts, ppi,    \* the radio peripheral and the PPI channels
    esb_addr, radio_addr,  \* addresses: the module's copy, the registers
    evt,                   \* the event interrupt in progress
    call,                  \* the API call in progress in each context
    tx_count,              \* history: packets sent since start_tx_transaction
    dropped                \* history: a packet over the maximum length came
                           \* since interrupt_flags was last cleared

radioVars == <<on_radio_disabled, radio, shorts, ppi>>
fifoVars  == <<tx_fifo, rx_fifo>>
pidVars   == <<pids, rx_pipe_info>>
txVars    == <<tx_payload_buffer, retransmits_remaining, last_tx_attempts, tx_count>>
irqVars   == <<interrupt_flags, evt_pending, dropped>>
cfgVars   == <<esb_initialized, retransmit_count, esb_addr, radio_addr>>
vars == <<esb_state, radioVars, fifoVars, pidVars, txVars, irqVars, cfgVars, evt, call>>
-----------------------------------------------------------------------------
(* Data. *)
Pipes == 0 .. (PIPE_COUNT - 1)
Pids  == 0 .. PID_MAX
EsbState == {"IDLE", "PTX_TX", "PTX_TX_ACK", "PTX_RX_ACK", "PRX", "PRX_SEND_ACK"}
Handlers == {"none", "tx_noack", "tx", "tx_wait_for_ack", "rx", "rx_ack"}
Flags    == {"TX_SUCCESS", "TX_FAILED", "RX_DATA_RECEIVED"}

(* struct esb_payload, and a packet on the air; an empty data field is a    *)
(* length of zero.                                                          *)
Contents == Data \cup LongData \cup {NoData}
Payload == [pipe : Pipes, pid : Pids, noack : BOOLEAN, data : Contents]
ZeroPayload == [pipe |-> 0, pid |-> 0, noack |-> FALSE, data |-> NoData]

ASSUME ModeAssumption ==
    /\ MODE \in {"PTX", "PRX"}
    /\ PROTOCOL \in {"ESB", "ESB_DPL"}
    /\ TXMODE \in {"AUTO", "MANUAL", "MANUAL_START"}
    /\ SELECTIVE_AUTO_ACK \in BOOLEAN
ASSUME SizeAssumption ==
    /\ TX_FIFO_SIZE \in Nat \ {0}
    /\ RX_FIFO_SIZE \in Nat \ {0}
    /\ PIPE_COUNT \in Nat \ {0}
    /\ PID_MAX \in Nat
    /\ UINT_MAX \in Nat
    /\ TX_FIFO_SIZE < UINT_MAX
    /\ RX_FIFO_SIZE < UINT_MAX
    /\ RetransmitCounts \subseteq 0 .. (UINT_MAX - 1)
ASSUME DataAssumption ==
    /\ NoData \notin Data \cup LongData
    /\ Data \cap LongData = {}
    /\ NoAckChoices \subseteq BOOLEAN
    /\ AirPackets \subseteq Payload
    /\ DefaultAddr \in Addrs
    /\ Contexts \subseteq {"thread", "handler"}

(* What a payload looks like on the air: the header of the fixed length     *)
(* protocol has a zero second byte, where the dynamic length protocol keeps *)
(* the identifier and the (inverted) noack bit.                             *)
Wire(p) == IF PROTOCOL = "ESB" THEN [p EXCEPT !.noack = TRUE] ELSE p
RxPid(p) == IF PROTOCOL = "ESB" THEN 0 ELSE p.pid

(* The radio's CRC covers the header and the contents: two packets of a     *)
(* pipe have one CRC when they have one header and one contents.            *)
Crc(p) == <<p.pid, p.noack, p.data>>
NoCrc == <<>>
PipeInfo == [crc : {NoCrc} \cup (Pids \X BOOLEAN \X Contents),
             pid : Pids, ack_payload : BOOLEAN]
ZeroPipeInfo == [crc |-> NoCrc, pid |-> 0, ack_payload |-> FALSE]

(* uint32_t arithmetic. *)
Inc(n) == IF n = UINT_MAX THEN 0 ELSE n + 1
Dec(n) == IF n = 0 THEN UINT_MAX ELSE n - 1

(* The two FIFOs are rings of payload slots. *)
Fifo(size) == [slot : [0 .. (size - 1) -> Payload], front : 0 .. (size - 1),
               back : 0 .. (size - 1), count : 0 .. UINT_MAX]
NextIndexPastEnd(i, size) == IF i + 1 > size THEN 0 ELSE i + 1  \* mutant
NextIndex(i, size) == IF i + 1 >= size THEN 0 ELSE i + 1
FifoResetKeepsFront(f) ==  \* mutant
    [slot |-> f.slot, front |-> f.front, back |-> 0, count |-> 0]
FifoReset(f) == [slot |-> f.slot, front |-> 0, back |-> 0, count |-> 0]
FifoPush(f, size, p) ==
    [slot |-> [f.slot EXCEPT ![f.back] = p], front |-> f.front,
     back |-> NextIndex(f.back, size), count |-> Inc(f.count)]
FifoPop(f, size) ==
    [slot |-> f.slot, front |-> NextIndex(f.front, size), back |-> f.back,
     count |-> Dec(f.count)]
FifoFront(f) == f.slot[f.front]

tx_fifo_remove_last(f) == IF f.count = 0 THEN f ELSE FifoPop(f, TX_FIFO_SIZE)

(* rx_fifo_push_rfbuf() of packet p: it refuses a packet when the FIFO has  *)
(* no room, or when the length of a dynamic length packet is over the       *)
(* maximum; what the application reads back of an accepted one.             *)
RxFullPastEnd == rx_fifo.count > RX_FIFO_SIZE  \* mutant
RxFull == rx_fifo.count >= RX_FIFO_SIZE
TooLong(p) == PROTOCOL = "ESB_DPL" /\ p.data \in LongData
RxAccepts(p) == ~RxFull /\ ~TooLong(p)
rx_fifo_push_rfbuf(p) ==
    IF RxAccepts(p) THEN FifoPush(rx_fifo, RX_FIFO_SIZE, [p EXCEPT !.pid = RxPid(p)])
                    ELSE rx_fifo

(* The API call a context has begun: the payload of a write, and where in   *)
(* the call it is.                                                          *)
CallOps == {"none", "write", "start", "read", "pop", "stop"}
NoCall == [op |-> "none", payload |-> ZeroPayload]
NoEvt  == [pc |-> "off", tx_attempts |-> 0, interrupts |-> {}]
-----------------------------------------------------------------------------
(***************************************************************************)
(* The radio.  When an operation ends the shortcut of SHORTS starts the    *)
(* next one, before the interrupt handler runs.                            *)
(***************************************************************************)
AfterShort == CASE shorts = "RXEN" -> "rx" [] shorts = "TXEN" -> "tx" [] OTHER -> "off"

(* A TXEN or RXEN task while the radio is not disabled: the hardware may    *)
(* ignore it.                                                               *)
Enabled(task, now) == IF now = "off" THEN {task} ELSE {task, now}

(* start_tx_transaction() with TX FIFO f, while the radio does "now".  The  *)
(* mutant runs it before tx_fifo_remove_last().                             *)
StartTx(p, now) ==
    LET ack == PROTOCOL = "ESB" \/ ~p.noack \/ ~SELECTIVE_AUTO_ACK
    IN /\ last_tx_attempts' = 1
       /\ tx_payload_buffer' = Wire(p)
       /\ retransmits_remaining' = IF ack THEN retransmit_count ELSE retransmits_remaining
       /\ shorts' = IF ack THEN "RXEN" ELSE "none"
       /\ on_radio_disabled' = IF ack THEN "tx" ELSE "tx_noack"
       /\ esb_state' = IF ack THEN "PTX_TX_ACK" ELSE "PTX_TX"
       /\ radio_addr' = [radio_addr EXCEPT !.channel = esb_addr.channel, !.pipes = {p.pipe}]
       /\ radio' \in Enabled("tx", now)
       /\ tx_count' = 0
start_tx_before_remove(f, now) == StartTx(FifoFront(tx_fifo), now)  \* mutant
start_tx_transaction(f, now) == StartTx(FifoFront(f), now)

(* A transaction ends and nothing else is to be sent. *)
GoIdle ==
    /\ esb_state' = "IDLE"
    /\ radio' = AfterShort
    /\ UNCHANGED <<shorts, on_radio_disabled, radio_addr, tx_payload_buffer, tx_count>>

SetFlagsWithoutPending(fs) ==  \* mutant
    /\ interrupt_flags' = interrupt_flags \cup fs
    /\ UNCHANGED <<evt_pending, dropped>>
SetFlags(fs) ==
    /\ interrupt_flags' = interrupt_flags \cup fs
    /\ evt_pending' = TRUE
    /\ UNCHANGED dropped

(* A packet sent without waiting for an acknowledgment is done. *)
on_radio_disabled_tx_noack ==
    LET f == tx_fifo_remove_last(tx_fifo)
    IN /\ on_radio_disabled = "tx_noack"
       /\ SetFlags({"TX_SUCCESS"})
       /\ tx_fifo' = f
       /\ \/ /\ f.count = 0
             /\ GoIdle
             /\ UNCHANGED <<retransmits_remaining, last_tx_attempts>>
          \/ f.count # 0 /\ start_tx_transaction(f, AfterShort)
       /\ UNCHANGED <<rx_fifo, ppi>>

(* The packet is out: listen for its acknowledgment until the timer ends    *)
(* the reception.                                                           *)
ListenTimersUnarmed == shorts' = "none" /\ ppi' = {}       \* mutant
ListenShortcutKept == shorts' = shorts /\ ppi' = {"RX_TIMEOUT"}  \* mutant
ListenForAck == shorts' = "none" /\ ppi' = {"RX_TIMEOUT"}
on_radio_disabled_tx ==
    /\ on_radio_disabled = "tx"
    /\ ListenForAck
    /\ on_radio_disabled' = "tx_wait_for_ack"
    /\ esb_state' = "PTX_RX_ACK"
    /\ radio' = AfterShort
    /\ tx_count' = tx_count + 1
    /\ UNCHANGED <<tx_payload_buffer, retransmits_remaining, last_tx_attempts, radio_addr,
                   fifoVars, irqVars>>

(* The acknowledgment p came. *)
AckedAttempts == (retransmit_count - retransmits_remaining + 1) % (UINT_MAX + 1)
tx_acked(p) ==
    LET f == tx_fifo_remove_last(tx_fifo)
        rx == PROTOCOL # "ESB" /\ p.data # NoData /\ RxAccepts(p)
    IN /\ on_radio_disabled = "tx_wait_for_ack"
       /\ ppi' = {}
       /\ SetFlags({"TX_SUCCESS"} \cup IF rx THEN {"RX_DATA_RECEIVED"} ELSE {})
       /\ tx_fifo' = f
       /\ rx_fifo' = IF rx THEN rx_fifo_push_rfbuf([p EXCEPT !.pipe = tx_payload_buffer.pipe])
                           ELSE rx_fifo
       /\ \/ /\ f.count = 0 \/ TXMODE = "MANUAL"
             /\ GoIdle
             /\ last_tx_attempts' = AckedAttempts
             /\ UNCHANGED retransmits_remaining
          \/ /\ ~(f.count = 0 \/ TXMODE = "MANUAL")
             /\ start_tx_transaction(f, AfterShort)

(* No acknowledgment, or a corrupted one, and no retransmission is left. *)
tx_given_up ==
    /\ on_radio_disabled = "tx_wait_for_ack"
    /\ retransmits_remaining = 0
    /\ retransmits_remaining' = Dec(retransmits_remaining)
    /\ ppi' = {}
    /\ last_tx_attempts' = Inc(retransmit_count)
    /\ SetFlags({"TX_FAILED"})
    /\ GoIdle
    /\ UNCHANGED fifoVars

(* No acknowledgment: the timer will start the next transmission. *)
RetriesNotCounted == retransmits_remaining # 0 /\ UNCHANGED retransmits_remaining  \* mutant
CountRetry == retransmits_remaining # 0 /\ retransmits_remaining' = Dec(retransmits_remaining)
tx_retransmit ==
    /\ on_radio_disabled = "tx_wait_for_ack"
    /\ CountRetry
    /\ shorts' = "RXEN"
    /\ on_radio_disabled' = "tx"
    /\ esb_state' = "PTX_TX_ACK"
    /\ ppi' = {"TX_START"}
    /\ radio' = AfterShort
    /\ UNCHANGED <<fifoVars, irqVars, tx_payload_buffer, last_tx_attempts, tx_count, radio_addr>>

(* clear_events_restart_rx(): forget the packet and listen again. *)
clear_events_restart_rx ==
    /\ shorts' = "TXEN"
    /\ radio' = "rx"
    /\ UNCHANGED <<on_radio_disabled, esb_state, tx_payload_buffer>>

rx_discard ==
    /\ on_radio_disabled = "rx"
    /\ clear_events_restart_rx
    /\ UNCHANGED <<fifoVars, rx_pipe_info, irqVars>>

(* The TX FIFO after on_radio_disabled_rx_dpl(): the payload that went out  *)
(* with the last acknowledgment of pipe p.pipe leaves when a new packet     *)
(* shows that it arrived.                                                   *)
AckWithPayload(p) == tx_fifo.count > 0 /\ FifoFront(tx_fifo).pipe = p.pipe
AckPayloadDone(p, retransmit) ==
    AckWithPayload(p) /\ rx_pipe_info[p.pipe].ack_payload /\ ~retransmit
DplTxFifo(p, retransmit) ==
    IF AckPayloadDone(p, retransmit) THEN FifoPop(tx_fifo, TX_FIFO_SIZE) ELSE tx_fifo

NeverRetransmit(p) == FALSE  \* mutant
IsRetransmit(p) ==
    rx_pipe_info[p.pipe].crc = Crc(p) /\ rx_pipe_info[p.pipe].pid = RxPid(p)

(* The flags of a packet; only one that went into the RX FIFO makes the     *)
(* event interrupt pending.                                                 *)
RxReportSilent(pushed, fs) ==  \* mutant
    /\ interrupt_flags' = interrupt_flags \cup fs
    /\ UNCHANGED evt_pending
RxReport(pushed, fs) ==
    /\ interrupt_flags' = interrupt_flags \cup fs
    /\ evt_pending' = (evt_pending \/ pushed)

(* The PRX got packet p with a good CRC and has room for it. *)
rx_packet(p) ==
    LET retransmit == IsRetransmit(p)
        send_ack == ~SELECTIVE_AUTO_ACK \/ (PROTOCOL = "ESB_DPL" /\ ~p.noack)
        dpl == send_ack /\ PROTOCOL = "ESB_DPL"
        f == IF dpl THEN DplTxFifo(p, retransmit) ELSE tx_fifo
        pushed == ~retransmit /\ RxAccepts(p)
        fs == (IF dpl /\ AckPayloadDone(p, retransmit) THEN {"TX_SUCCESS"} ELSE {})
              \cup (IF pushed THEN {"RX_DATA_RECEIVED"} ELSE {})
    IN /\ on_radio_disabled = "rx"
       /\ ~RxFull
       /\ rx_pipe_info' = [rx_pipe_info EXCEPT ![p.pipe] =
              [crc |-> Crc(p), pid |-> RxPid(p),
               ack_payload |-> IF dpl THEN AckWithPayload(p) ELSE @.ack_payload]]
       /\ tx_fifo' = f
       /\ \/ /\ send_ack
             /\ shorts' = "RXEN"
             /\ tx_payload_buffer' =
                    [p EXCEPT !.data = IF dpl /\ AckWithPayload(p) THEN FifoFront(f).data
                                                                   ELSE NoData]
             /\ esb_state' = "PRX_SEND_ACK"
             /\ on_radio_disabled' = "rx_ack"
             /\ radio' = AfterShort
          \/ ~send_ack /\ clear_events_restart_rx
       /\ rx_fifo' = IF retransmit THEN rx_fifo ELSE rx_fifo_push_rfbuf(p)
       /\ RxReport(pushed, fs)
       /\ dropped' = (dropped \/ TooLong(p))

(* The acknowledgment is out: listen for the next packet. *)
ListenShortcutForgotten == UNCHANGED shorts  \* mutant
ListenAgain == shorts' = "TXEN"
on_radio_disabled_rx_ack ==
    /\ on_radio_disabled = "rx_ack"
    /\ ListenAgain
    /\ on_radio_disabled' = "rx"
    /\ esb_state' = "PRX"
    /\ radio' = AfterShort
    /\ UNCHANGED <<fifoVars, rx_pipe_info, irqVars, tx_payload_buffer>>

(* The RADIO interrupt is masked (esb_stop_rx): only the shortcut acts. *)
radio_masked ==
    /\ on_radio_disabled = "none"
    /\ radio' = AfterShort
    /\ UNCHANGED <<esb_state, on_radio_disabled, shorts, tx_payload_buffer, fifoVars, irqVars>>

RadioFrame == UNCHANGED <<esb_initialized, retransmit_count, esb_addr, pids, evt, call>>
PtxFrame == RadioFrame /\ UNCHANGED rx_pipe_info
PrxFrame == RadioFrame /\ UNCHANGED <<ppi, retransmits_remaining, last_tx_attempts, tx_count,
                                      radio_addr>>

(* The functions that do not look at what was received. *)
AfterAny ==
    \/ on_radio_disabled_tx_noack /\ PtxFrame
    \/ on_radio_disabled_tx /\ PtxFrame
    \/ on_radio_disabled_rx_ack /\ PrxFrame
    \/ radio_masked /\ PrxFrame /\ UNCHANGED rx_pipe_info

(* The functions that do: a packet p with a good CRC, or a bad one. *)
AfterPacket(p) ==
    \/ tx_acked(p) /\ PtxFrame
    \/ rx_packet(p) /\ PrxFrame
    \/ RxFull /\ rx_discard /\ PrxFrame
AfterCorrupt ==
    \/ tx_given_up /\ PtxFrame
    \/ tx_retransmit /\ PtxFrame
    \/ rx_discard /\ PrxFrame

(* RADIO_IRQHandler() at the end of a transmission; CRCSTATUS and the       *)
(* buffer are old when on_radio_disabled_rx() gets to run after one.        *)
TxDone == radio = "tx" /\ AfterAny
TxDoneStale ==
    /\ radio = "tx"
    /\ AfterCorrupt \/ \E p \in AirPackets : AfterPacket(p)

(* RADIO_IRQHandler() at the end of a reception: a good packet or a bad     *)
(* one.                                                                     *)
RxDone(p) == radio = "rx" /\ p.pipe \in radio_addr.pipes /\ (AfterPacket(p) \/ AfterAny)
RxCorrupt == radio = "rx" /\ (AfterCorrupt \/ AfterAny)

(* The timer disables the radio: nothing came in time. *)
RxTimeout ==
    /\ radio = "rx"
    /\ "RX_TIMEOUT" \in ppi
    /\ tx_given_up \/ tx_retransmit
    /\ PtxFrame

(* The timer starts the retransmission. *)
TxStart ==
    /\ radio = "off"
    /\ "TX_START" \in ppi
    /\ radio' = "tx"
    /\ UNCHANGED <<esb_state, on_radio_disabled, shorts, ppi, fifoVars, pidVars, txVars, irqVars,
                   cfgVars, evt, call>>
-----------------------------------------------------------------------------
(***************************************************************************)
(* The event interrupt: ESB_EVT_IRQHandler().  It reads last_tx_attempts,  *)
(* then takes the flags, then calls the application once for each of them. *)
(***************************************************************************)
EvtEnter ==
    /\ evt.pc = "off" /\ evt_pending /\ esb_initialized
    /\ evt_pending' = FALSE
    /\ evt' = [evt EXCEPT !.pc = "entered", !.tx_attempts = last_tx_attempts]
    /\ UNCHANGED <<esb_state, radioVars, fifoVars, pidVars, txVars, interrupt_flags, dropped,
                   cfgVars, call>>

get_and_clear_irqs ==
    /\ evt.pc = "entered"
    /\ interrupt_flags' = {}
    /\ dropped' = FALSE
    /\ evt' = [evt EXCEPT !.pc = "callback", !.interrupts = interrupt_flags]
    /\ UNCHANGED <<esb_state, radioVars, fifoVars, pidVars, txVars, evt_pending, cfgVars, call>>

(* The event being delivered, and the return of event_handler(). *)
EvtId == CHOOSE f \in evt.interrupts :
             \/ f = "TX_SUCCESS"
             \/ f = "TX_FAILED" /\ "TX_SUCCESS" \notin evt.interrupts
             \/ evt.interrupts = {"RX_DATA_RECEIVED"}
event_handler ==
    /\ evt.pc = "callback" /\ evt.interrupts # {}
    /\ "handler" \in Contexts => call["handler"].op = "none"
    /\ evt' = [evt EXCEPT !.interrupts = @ \ {EvtId}]
    /\ UNCHANGED <<esb_state, radioVars, fifoVars, pidVars, txVars, irqVars, cfgVars, call>>

EvtReturn ==
    /\ evt.pc = "callback" /\ evt.interrupts = {}
    /\ evt' = NoEvt
    /\ UNCHANGED <<esb_state, radioVars, fifoVars, pidVars, txVars, irqVars, cfgVars, call>>
-----------------------------------------------------------------------------
(***************************************************************************)
(* The API.  A call that returns an error changes nothing and is left out. *)
(***************************************************************************)
Running(c) ==
    \/ c = "handler" /\ evt.pc = "callback" /\ evt.interrupts # {}
    \/ c = "thread" /\ evt.pc = "off" /\ ~(evt_pending /\ esb_initialized)
Calls(c, name) ==
    /\ Running(c) /\ call[c].op = "none"
    /\ name \in AppCalls \/ (name \in IdleCalls /\ esb_state = "IDLE")
At(c, op) == Running(c) /\ call[c].op = op
Goto(c, op, p) == call' = [call EXCEPT ![c] = [op |-> op, payload |-> p]]

(* esb_write_payload(): the check of the FIFO, the locked push, and the     *)
(* start of a transmission when nothing is going on.                        *)
esb_write_payload(c, p) ==
    /\ Calls(c, "esb_write_payload")
    /\ esb_initialized
    /\ tx_fifo.count < TX_FIFO_SIZE
    /\ Goto(c, "write", p)
    /\ UNCHANGED <<esb_state, radioVars, fifoVars, pidVars, txVars, irqVars, cfgVars, evt>>

SamePid(pid) == pid  \* mutant
NextPid(pid) == (pid + 1) % (PID_MAX + 1)
write_push(c) ==
    LET p == call[c].payload
        pid == NextPid(pids[p.pipe])
    IN /\ At(c, "write")
       /\ pids' = [pids EXCEPT ![p.pipe] = pid]
       /\ tx_fifo' = FifoPush(tx_fifo, TX_FIFO_SIZE, [p EXCEPT !.pid = pid])
       /\ Goto(c, "start", ZeroPayload)
       /\ UNCHANGED <<esb_state, radioVars, rx_fifo, rx_pipe_info, txVars, irqVars, cfgVars, evt>>

AutoStart == MODE = "PTX" /\ TXMODE = "AUTO" /\ esb_state = "IDLE"
StartFrame == UNCHANGED <<ppi, fifoVars, pidVars, irqVars, esb_initialized, retransmit_count,
                          esb_addr, evt>>
write_start(c) ==
    /\ At(c, "start")
    /\ Goto(c, "none", ZeroPayload)
    /\ \/ AutoStart /\ start_tx_transaction(tx_fifo, radio) /\ StartFrame
       \/ /\ ~AutoStart
          /\ UNCHANGED <<esb_state, radioVars, fifoVars, pidVars, txVars, irqVars, cfgVars, evt>>

(* esb_read_rx_payload(): the check, and the locked pop. *)
esb_read_rx_payload(c) ==
    /\ Calls(c, "esb_read_rx_payload")
    /\ esb_initialized
    /\ rx_fifo.count # 0
    /\ Goto(c, "read", ZeroPayload)
    /\ UNCHANGED <<esb_state, radioVars, fifoVars, pidVars, txVars, irqVars, cfgVars, evt>>

read_pop(c) ==
    /\ At(c, "read")
    /\ rx_fifo' = FifoPop(rx_fifo, RX_FIFO_SIZE)
    /\ Goto(c, "none", ZeroPayload)
    /\ UNCHANGED <<esb_state, radioVars, tx_fifo, pidVars, txVars, irqVars, cfgVars, evt>>

(* esb_pop_tx(): the check, and the locked change, which advances the back. *)
esb_pop_tx(c) ==
    /\ Calls(c, "esb_pop_tx")
    /\ esb_initialized
    /\ tx_fifo.count # 0
    /\ Goto(c, "pop", ZeroPayload)
    /\ UNCHANGED <<esb_state, radioVars, fifoVars, pidVars, txVars, irqVars, cfgVars, evt>>

pop_tx_locked(c) ==
    /\ At(c, "pop")
    /\ tx_fifo' = [slot |-> tx_fifo.slot, front |-> tx_fifo.front,
                   back |-> NextIndex(tx_fifo.back, TX_FIFO_SIZE), count |-> Dec(tx_fifo.count)]
    /\ Goto(c, "none", ZeroPayload)
    /\ UNCHANGED <<esb_state, radioVars, rx_fifo, pidVars, txVars, irqVars, cfgVars, evt>>

esb_flush_tx(c) ==
    /\ Calls(c, "esb_flush_tx")
    /\ esb_initialized
    /\ tx_fifo' = FifoReset(tx_fifo)
    /\ UNCHANGED <<esb_state, radioVars, rx_fifo, pidVars, txVars, irqVars, cfgVars, evt, call>>

esb_flush_rx(c) ==
    /\ Calls(c, "esb_flush_rx")
    /\ esb_initialized
    /\ rx_fifo' = FifoReset(rx_fifo)
    /\ rx_pipe_info' = [i \in Pipes |-> ZeroPipeInfo]
    /\ UNCHANGED <<esb_state, radioVars, tx_fifo, pids, txVars, irqVars, cfgVars, evt, call>>

esb_start_tx(c) ==
    /\ Calls(c, "esb_start_tx")
    /\ esb_state = "IDLE"
    /\ tx_fifo.count # 0
    /\ start_tx_transaction(tx_fifo, radio)
    /\ StartFrame /\ UNCHANGED call

esb_start_rx(c) ==
    /\ Calls(c, "esb_start_rx")
    /\ esb_state = "IDLE"
    /\ on_radio_disabled' = "rx"
    /\ shorts' = "TXEN"
    /\ esb_state' = "PRX"
    /\ radio_addr' = [radio_addr EXCEPT !.pipes = esb_addr.pipes, !.channel = esb_addr.channel]
    /\ radio' \in Enabled("rx", radio)
    /\ UNCHANGED txVars
    /\ StartFrame /\ UNCHANGED call

(* esb_stop_rx(): it clears SHORTS, and then masks the interrupt, disables  *)
(* the radio and is idle.  The interrupt may come in between.               *)
esb_stop_rx(c) ==
    /\ Calls(c, "esb_stop_rx")
    /\ esb_state \in {"PRX", "PRX_SEND_ACK"}
    /\ shorts' = "none"
    /\ Goto(c, "stop", ZeroPayload)
    /\ UNCHANGED <<esb_state, on_radio_disabled, radio, ppi, fifoVars, pidVars, txVars, irqVars,
                   cfgVars, evt>>

stop_rx_disable(c) ==
    /\ At(c, "stop")
    /\ on_radio_disabled' = "none"
    /\ radio' = AfterShort
    /\ esb_state' = "IDLE"
    /\ Goto(c, "none", ZeroPayload)
    /\ UNCHANGED <<shorts, ppi, fifoVars, pidVars, txVars, irqVars, cfgVars, evt>>

esb_suspend(c) ==
    /\ Calls(c, "esb_suspend")
    /\ esb_state = "IDLE"
    /\ ppi' = {}
    /\ UNCHANGED <<esb_state, on_radio_disabled, radio, shorts, fifoVars, pidVars, txVars, irqVars,
                   cfgVars, evt, call>>

(* esb_disable(): the radio and its interrupt handler go on. *)
reset_fifos == tx_fifo' = FifoReset(tx_fifo) /\ rx_fifo' = FifoReset(rx_fifo)
ForgetPipes ==
    /\ rx_pipe_info' = [i \in Pipes |-> ZeroPipeInfo]
    /\ pids' = [i \in Pipes |-> 0]
esb_disable(c) ==
    /\ Calls(c, "esb_disable")
    /\ ppi' = {}
    /\ esb_state' = "IDLE"
    /\ esb_initialized' = FALSE
    /\ reset_fifos
    /\ ForgetPipes
    /\ shorts' = "none"
    /\ UNCHANGED <<on_radio_disabled, radio, txVars, irqVars, retransmit_count, esb_addr,
                   radio_addr, evt, call>>

(* esb_init() with another retransmit_count; it disables the module first   *)
(* if it runs.  The registers get the default addresses, esb_addr keeps     *)
(* what was set; the address length is taken from esb_addr.                 *)
esb_init(c, rc) ==
    /\ Calls(c, "esb_init")
    /\ shorts' = IF esb_initialized THEN "none" ELSE shorts
    /\ ppi' = IF esb_initialized THEN {} ELSE ppi
    /\ esb_state' = "IDLE"
    /\ esb_initialized' = TRUE
    /\ retransmit_count' = rc
    /\ interrupt_flags' = {} /\ dropped' = FALSE
    /\ reset_fifos
    /\ ForgetPipes
    /\ radio_addr' = [radio_addr EXCEPT !.base0 = DefaultAddr, !.base1 = DefaultAddr,
                          !.prefixes = [i \in Pipes |-> DefaultAddr], !.length = esb_addr.length]
    /\ UNCHANGED <<on_radio_disabled, radio, txVars, evt_pending, esb_addr, evt, call>>

(* The setters, which refuse to work unless the module is idle. *)
SetterFrame == UNCHANGED <<esb_state, radioVars, fifoVars, rx_pipe_info, txVars, irqVars,
                           esb_initialized, evt, call>>
AddrFrame == SetterFrame /\ UNCHANGED <<pids, retransmit_count>>
BusyAllowed(c, name) == Calls(c, name)  \* mutant
IdleGuard(c, name) == Calls(c, name) /\ esb_state = "IDLE"

esb_set_address_length(c, a) ==
    /\ IdleGuard(c, "esb_set_address_length")
    /\ esb_addr' = [esb_addr EXCEPT !.length = a]
    /\ radio_addr' = [radio_addr EXCEPT !.length = a]
    /\ AddrFrame
esb_set_base_address_0(c, a) ==
    /\ IdleGuard(c, "esb_set_base_address_0")
    /\ esb_addr' = [esb_addr EXCEPT !.base0 = a]
    /\ radio_addr' = [radio_addr EXCEPT !.base0 = a]
    /\ AddrFrame
esb_set_base_address_1(c, a) ==
    /\ IdleGuard(c, "esb_set_base_address_1")
    /\ esb_addr' = [esb_addr EXCEPT !.base1 = a]
    /\ radio_addr' = [radio_addr EXCEPT !.base1 = a]
    /\ AddrFrame
esb_set_prefixes(c, n, a) ==
    LET prefixes == [i \in Pipes |-> IF i < n THEN a ELSE esb_addr.prefixes[i]]
    IN /\ IdleGuard(c, "esb_set_prefixes")
       /\ esb_addr' = [esb_addr EXCEPT !.prefixes = prefixes, !.pipes = 0 .. (n - 1)]
       /\ radio_addr' = [radio_addr EXCEPT !.prefixes = prefixes]
       /\ AddrFrame
esb_update_prefix(c, i, a) ==
    /\ IdleGuard(c, "esb_update_prefix")
    /\ esb_addr' = [esb_addr EXCEPT !.prefixes = [esb_addr.prefixes EXCEPT ![i] = a]]
    /\ radio_addr' = [radio_addr EXCEPT !.prefixes = [esb_addr.prefixes EXCEPT ![i] = a]]
    /\ AddrFrame
esb_enable_pipes(c, enabled) ==
    /\ IdleGuard(c, "esb_enable_pipes")
    /\ esb_addr' = [esb_addr EXCEPT !.pipes = enabled]
    /\ UNCHANGED radio_addr
    /\ AddrFrame
esb_set_rf_channel(c, ch) ==
    /\ IdleGuard(c, "esb_set_rf_channel")
    /\ esb_addr' = [esb_addr EXCEPT !.channel = ch]
    /\ UNCHANGED radio_addr
    /\ AddrFrame
esb_set_retransmit_count(c, rc) ==
    /\ IdleGuard(c, "esb_set_retransmit_count")
    /\ retransmit_count' = rc
    /\ SetterFrame /\ UNCHANGED <<pids, esb_addr, radio_addr>>
esb_reuse_pid(c, i) ==
    /\ IdleGuard(c, "esb_reuse_pid")
    /\ pids' = [pids EXCEPT ![i] = (@ + PID_MAX) % (PID_MAX + 1)]
    /\ SetterFrame /\ UNCHANGED <<retransmit_count, esb_addr, radio_addr>>
-----------------------------------------------------------------------------
(* The state after the first esb_init() of the program. *)
Init ==
    /\ esb_initialized = TRUE
    /\ esb_state = "IDLE"
    /\ retransmit_count \in RetransmitCounts
    /\ tx_fifo = [slot |-> [i \in 0 .. (TX_FIFO_SIZE - 1) |-> ZeroPayload],
                  front |-> 0, back |-> 0, count |-> 0]
    /\ rx_fifo = [slot |-> [i \in 0 .. (RX_FIFO_SIZE - 1) |-> ZeroPayload],
                  front |-> 0, back |-> 0, count |-> 0]
    /\ pids = [i \in Pipes |-> 0]
    /\ rx_pipe_info = [i \in Pipes |-> ZeroPipeInfo]
    /\ tx_payload_buffer = ZeroPayload
    /\ retransmits_remaining = 0 /\ last_tx_attempts = 0 /\ tx_count = 0
    /\ interrupt_flags = {} /\ evt_pending = FALSE /\ dropped = FALSE
    /\ on_radio_disabled = "none" /\ radio = "off" /\ shorts = "none" /\ ppi = {}
    /\ \E ch \in Channels :
          esb_addr = [base0 |-> DefaultAddr, base1 |-> DefaultAddr, length |-> DefaultAddr,
                      prefixes |-> [i \in Pipes |-> DefaultAddr], pipes |-> Pipes,
                      channel |-> ch]
    /\ radio_addr = esb_addr
    /\ evt = NoEvt
    /\ call = [c \in Contexts |-> NoCall]

(* Payloads the application writes; esb_write_payload() gives the pid. *)
Written == [pipe : Pipes, pid : {0}, noack : NoAckChoices, data : Data]

Radio == TxDone \/ TxDoneStale \/ RxCorrupt \/ RxTimeout \/ TxStart
         \/ \E p \in AirPackets : RxDone(p)
Event == EvtEnter \/ get_and_clear_irqs \/ event_handler \/ EvtReturn
Queues(c) ==
    \/ \E p \in Written : esb_write_payload(c, p)
    \/ write_push(c) \/ write_start(c)
    \/ esb_read_rx_payload(c) \/ read_pop(c)
    \/ esb_pop_tx(c) \/ pop_tx_locked(c)
    \/ esb_flush_tx(c) \/ esb_flush_rx(c)
Control(c) ==
    \/ esb_start_tx(c) \/ esb_start_rx(c)
    \/ esb_stop_rx(c) \/ stop_rx_disable(c)
    \/ esb_suspend(c) \/ esb_disable(c)
    \/ \E rc \in RetransmitCounts : esb_init(c, rc) \/ esb_set_retransmit_count(c, rc)
Setters(c) ==
    \/ \E a \in Addrs :
          \/ esb_set_address_length(c, a)
          \/ esb_set_base_address_0(c, a)
          \/ esb_set_base_address_1(c, a)
          \/ \E n \in 0 .. PIPE_COUNT : esb_set_prefixes(c, n, a)
          \/ \E i \in Pipes : esb_update_prefix(c, i, a)
    \/ \E enabled \in SUBSET Pipes : esb_enable_pipes(c, enabled)
    \/ \E ch \in Channels : esb_set_rf_channel(c, ch)
    \/ \E i \in Pipes : esb_reuse_pid(c, i)
App == \E c \in Contexts : Queues(c) \/ Control(c) \/ Setters(c)
Next == Radio \/ Event \/ App
Spec == Init /\ [][Next]_vars

(* The hardware finishes what it started, interrupts run when they are      *)
(* pending, and the event handler of the application returns.               *)
InCall(c) == write_push(c) \/ write_start(c) \/ read_pop(c) \/ pop_tx_locked(c)
             \/ stop_rx_disable(c)
Fairness ==
    /\ WF_vars(TxDone) /\ WF_vars(RxTimeout) /\ WF_vars(TxStart)
    /\ WF_vars(EvtEnter) /\ WF_vars(get_and_clear_irqs) /\ WF_vars(EvtReturn)
    /\ \A c \in Contexts \ {"thread"} : WF_vars(InCall(c))
    /\ SF_vars(event_handler)
FairSpec == Spec /\ Fairness
-----------------------------------------------------------------------------
(***************************************************************************)
(* Properties.                                                             *)
(***************************************************************************)
Addr == [base0 : Addrs, base1 : Addrs, length : Addrs, prefixes : [Pipes -> Addrs],
         pipes : SUBSET Pipes, channel : Channels]

(* Every variable of esb.c keeps the type it is declared with. *)
TypeOK ==
    /\ esb_initialized \in BOOLEAN
    /\ esb_state \in EsbState
    /\ retransmit_count \in RetransmitCounts
    /\ tx_fifo \in Fifo(TX_FIFO_SIZE)
    /\ rx_fifo \in Fifo(RX_FIFO_SIZE)
    /\ pids \in [Pipes -> Pids]
    /\ rx_pipe_info \in [Pipes -> PipeInfo]
    /\ tx_payload_buffer \in Payload
    /\ retransmits_remaining \in 0 .. UINT_MAX
    /\ last_tx_attempts \in 0 .. UINT_MAX
    /\ tx_count \in Nat
    /\ interrupt_flags \subseteq Flags
    /\ evt_pending \in BOOLEAN
    /\ dropped \in BOOLEAN
    /\ on_radio_disabled \in Handlers
    /\ radio \in {"off", "tx", "rx"}
    /\ shorts \in {"none", "RXEN", "TXEN"}
    /\ ppi \subseteq {"RX_TIMEOUT", "TX_START"}
    /\ esb_addr \in Addr
    /\ radio_addr \in Addr
    /\ evt \in [pc : {"off", "entered", "callback"}, tx_attempts : 0 .. UINT_MAX,
                interrupts : SUBSET Flags]
    /\ call \in [Contexts -> [op : CallOps, payload : Payload]]

(* The indices and the count of a ring agree and the count never exceeds    *)
(* the ring: no payload is overwritten before it is sent or read, whatever  *)
(* the RADIO interrupt does between the check and the lock of a call.       *)
RingOK(f, size) == f.count <= size /\ f.back = (f.front + f.count) % size
FifoCoherent == RingOK(tx_fifo, TX_FIFO_SIZE) /\ RingOK(rx_fifo, RX_FIFO_SIZE)

(* The radio, its shortcut, the timer channels and the function that will   *)
(* run next are the ones of esb_state: in every busy state something will   *)
(* end it, and an idle module leaves the radio alone.                       *)
RadioOfState ==
    CASE esb_state = "IDLE" -> radio = "off"
      [] esb_state = "PTX_TX" -> /\ radio = "tx" /\ shorts = "none"
                                 /\ on_radio_disabled = "tx_noack"
      [] esb_state = "PTX_TX_ACK" -> /\ radio = "tx" \/ (radio = "off" /\ "TX_START" \in ppi)
                                     /\ shorts = "RXEN" /\ on_radio_disabled = "tx"
      [] esb_state = "PTX_RX_ACK" -> /\ radio = "rx" /\ shorts = "none"
                                     /\ ppi = {"RX_TIMEOUT"}
                                     /\ on_radio_disabled = "tx_wait_for_ack"
      [] esb_state = "PRX" -> radio = "rx" /\ shorts = "TXEN" /\ on_radio_disabled = "rx"
      [] OTHER -> radio = "tx" /\ shorts = "RXEN" /\ on_radio_disabled = "rx_ack"
TimersMatchState ==
    /\ esb_state \notin {"PTX_TX_ACK", "PTX_RX_ACK"} => ppi = {}
    /\ esb_state = "PTX_TX_ACK" => ppi \subseteq {"TX_START"}
RadioMatchesState == RadioOfState /\ TimersMatchState

(* While a transaction runs the radio sends the packet at the front of the  *)
(* TX FIFO: the one tx_fifo_remove_last() will remove when the              *)
(* acknowledgment comes.                                                    *)
Transmitting == esb_state \in {"PTX_TX", "PTX_TX_ACK", "PTX_RX_ACK"}
InFlightIsFront ==
    Transmitting => tx_fifo.count > 0 /\ tx_payload_buffer = Wire(FifoFront(tx_fifo))

(* A packet goes out once and then at most retransmit_count times more, and *)
(* retransmits_remaining says how often it did.                             *)
AttemptsExact ==
    /\ Transmitting => tx_count <= retransmit_count + 1
    /\ esb_state = "PTX_TX_ACK" => tx_count + retransmits_remaining = retransmit_count
    /\ esb_state = "PTX_RX_ACK" => tx_count + retransmits_remaining = retransmit_count + 1

(* A flag set by the RADIO interrupt has an event interrupt on its way,     *)
(* also when it is set while the event interrupt runs.  The one exception   *)
(* of the code: on_radio_disabled_rx() sets TX_SUCCESS for the payload of   *)
(* the last acknowledgment, and pends the interrupt only if the packet that *)
(* confirmed it goes into the RX FIFO, which refuses one over the maximum   *)
(* length: then TX_SUCCESS alone waits for the next event.                  *)
SilentSuccess == dropped /\ interrupt_flags = {"TX_SUCCESS"}
NoFlagForgotten == interrupt_flags # {} => evt_pending \/ evt.pc = "entered" \/ SilentSuccess

(* A busy radio works with the channel and the pipes the application set,   *)
(* and the address registers are those of esb_addr.                         *)
RadioAddressed ==
    /\ esb_state # "IDLE" => radio_addr.channel = esb_addr.channel
    /\ esb_state \in {"PRX", "PRX_SEND_ACK"} => radio_addr.pipes = esb_addr.pipes
    /\ Transmitting => radio_addr.pipes = {tx_payload_buffer.pipe}
    /\ \A f \in {"base0", "base1", "prefixes", "length"} : radio_addr[f] = esb_addr[f]

(* Every transaction ends in an event the application sees. *)
TransactionReported ==
    Transmitting ~> evt.pc = "callback" /\ evt.interrupts \cap {"TX_SUCCESS", "TX_FAILED"} # {}

(* Every flag the RADIO interrupt sets reaches the event handler, except a  *)
(* TX_SUCCESS that a packet over the maximum length brought (see            *)
(* NoFlagForgotten).                                                        *)
FlagsReported ==
    \A f \in Flags :
        f \in interrupt_flags
            ~> (evt.pc = "callback" /\ f \in evt.interrupts) \/ (f = "TX_SUCCESS" /\ SilentSuccess)
=============================================================================
