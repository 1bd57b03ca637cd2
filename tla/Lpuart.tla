------------------------------- MODULE Lpuart -------------------------------
(***************************************************************************)
(* The low power UART of drivers/serial/uart_nrf_sw_lpuart.c: one          *)
(* direction of a link, with the transmitter of one device and the         *)
(* receiver of the other, the control line between the transmitter's REQ   *)
(* pin and the receiver's RDY pin, and the UART under each driver. The two *)
(* directions of a link share nothing but the struct they are stored in.   *)
(*                                                                         *)
(* Each device has one CPU: an interrupt handler runs to its end, and a    *)
(* thread goes on when no interrupt is pending on its device.              *)
(***************************************************************************)
EXTENDS Naturals

CONSTANTS
    PACKETS,    \* packets are numbered modulo PACKETS
    Links       \* sets of windows; a link is open to one of them:
                \*   "latency"     a timeout or an abort of the transmitter may
                \*                 meet a receiver that has not answered yet
                \*   "stale"       and one whose answer is already pending
                \*   "preempt"     calls of the receiver's thread are interrupted
                \*   "rx_disable"  the application disables reception

ASSUME LpuartAssumption ==
    /\ PACKETS \in Nat /\ PACKETS > 1
    /\ Links \subseteq SUBSET {"latency", "stale", "preempt", "rx_disable"}

NULL == PACKETS

VARIABLES
    tx_buf,     \* the packet to be sent, or NULL
    tx_active,
    tx_timer,   \* the timer runs
    tx_call,    \* where the thread of the transmitter is
    req_pin,    \* "low", "high": output; "pullup": input, falling edge armed
    req_evt,    \* the event of the REQ pin is pending
    uart_tx,    \* the UART of the transmitter: "idle", "busy", "done", "aborting"
    uart_last,  \* the transfer of the UART is the one of the last packet
    rx_state,
    rx_req,
    rx_buf,     \* the driver has a buffer of the application
    rx_isr,     \* an interrupt handler is in activate_rx()
    rx_call,    \* where the thread of the receiver is
    rdy_pin,    \* "low": output; "pullup": input, falling edge armed;
                \* "nopull": input, rising edge armed
    rdy_evt,    \* the event of the RDY pin is pending
    uart_rx,    \* the UART of the receiver: "off", "on", "stopping"
    pkt,        \* the last packet the application asked to send
    outcome,    \* its TX_DONE or TX_ABORTED event, or "silent": ended without one
    rx_pkt,     \* the last packet the receiver has taken as a whole
    whole,      \* the receiver has been on during the transfer so far
    listening,  \* the application has enabled reception
    windows     \* what this link is open to

txVars   == <<tx_buf, tx_active, tx_timer, tx_call, uart_tx, uart_last, pkt, outcome>>
rxVars   == <<rx_state, rx_req, rx_buf, rx_isr, rx_call, uart_rx, listening>>
lineVars == <<req_pin, req_evt, rdy_pin, rdy_evt>>
wireVars == <<rx_pkt, whole>>
vars     == <<txVars, rxVars, lineVars, wireVars, windows>>

\* lpuart_init() of both devices.
Init ==
    /\ tx_buf = NULL /\ tx_active = FALSE /\ tx_timer = FALSE /\ tx_call = "none"
    /\ req_pin = "low" /\ req_evt = FALSE /\ uart_tx = "idle" /\ uart_last = FALSE
    /\ rx_state = "RX_OFF" /\ rx_req = FALSE /\ rx_buf = FALSE
    /\ rx_isr = FALSE /\ rx_call = "none"
    /\ rdy_pin = "nopull" /\ rdy_evt = FALSE /\ uart_rx = "off"
    /\ pkt = 0 /\ outcome = "TX_DONE" /\ rx_pkt = 0 /\ whole = FALSE
    /\ listening = FALSE
    /\ windows \in Links

Open(w) == w \in windows

-----------------------------------------------------------------------------
(* The control line *)

\* An output that is low wins; an idle receiver does not drive the line.
High(req, rdy) == req # "low" /\ rdy # "low"

\* The pins are set (ctrl_pin_set(), ctrl_pin_clear(), ctrl_pin_idle()): an input
\* detects the edge it is armed for. The handler of the served pin has run.
Line(req, rdy, served) ==
    LET was  == High(req_pin, rdy_pin)
        is   == High(req, rdy)
        fall == was /\ ~ is
        rise == ~ was /\ is
    IN  /\ req_pin' = req
        /\ rdy_pin' = rdy
        /\ req_evt' = \/ req_evt /\ served # "req"
                      \/ req = "pullup" /\ req_pin = req /\ fall
        /\ rdy_evt' = \/ rdy_evt /\ served # "rdy"
                      \/ rdy = "pullup" /\ rdy_pin = rdy /\ fall
                      \/ rdy = "nopull" /\ rdy_pin = rdy /\ rise

-----------------------------------------------------------------------------
(* Transmitter *)

TxThread == ~ req_evt /\ uart_tx # "done"   \* no interrupt is pending
TxStep == (Open("preempt") \/ rx_call = "none") /\ UNCHANGED <<rxVars, windows>>

\* api_tx(): the buffer is taken and the timer started, then the pin is set.
\* Only a receiver that will answer may be waited for without a timeout.
api_tx ==
    /\ TxThread /\ tx_call = "none"
    /\ tx_buf = NULL
    /\ tx_buf' = (pkt + 1) % PACKETS
    /\ pkt' = (pkt + 1) % PACKETS
    /\ outcome' = "none"
    /\ uart_last' = FALSE
    /\ tx_timer' \in IF windows = {} /\ listening THEN BOOLEAN ELSE {TRUE}
    /\ tx_call' = "ctrl_pin_set"
    /\ UNCHANGED <<tx_active, uart_tx, lineVars, wireVars>>
    /\ TxStep

api_tx_pin ==
    /\ TxThread /\ tx_call = "ctrl_pin_set"
    /\ tx_call' = "none"
    /\ Line("pullup", rdy_pin, "none")
    /\ UNCHANGED <<tx_buf, tx_active, tx_timer, uart_tx, uart_last, pkt, outcome, wireVars>>
    /\ TxStep

tx_complete_stays_active(evt) ==   \* mutant
    /\ Line("low", rdy_pin, "none")
    /\ tx_buf' = NULL
    /\ outcome' = evt
    /\ UNCHANGED tx_active

\* tx_complete() and the event to the application.
tx_complete(evt) ==
    /\ Line("low", rdy_pin, "none")
    /\ tx_buf' = NULL
    /\ tx_active' = FALSE
    /\ outcome' = evt

\* on_req_pin_change(): the receiver has confirmed. Without data to send the line
\* goes idle. Otherwise the transfer starts, unless uart_tx() fails: always while
\* the UART still ends an aborted transfer, or for a reason of its own. Then the
\* transfer ends and no event says so. (A receiver that is in time has ended its
\* interrupt handler.)
on_req_pin_change ==
    /\ req_evt
    /\ \/ /\ tx_buf = NULL
          /\ Line("low", rdy_pin, "req")
          /\ tx_active' = FALSE
          /\ UNCHANGED <<tx_buf, tx_timer, uart_tx, uart_last, outcome, whole>>
       \/ /\ tx_buf # NULL /\ uart_tx = "idle"
          /\ Line("high", rdy_pin, "req")
          /\ tx_timer' = FALSE
          /\ tx_active' = TRUE
          /\ uart_tx' = "busy" /\ uart_last' = TRUE
          /\ whole' = (uart_rx = "on")
          /\ UNCHANGED <<tx_buf, outcome>>
       \/ /\ tx_buf # NULL
          /\ Open("latency") \/ ~ rx_isr
          /\ Line("low", rdy_pin, "req")
          /\ tx_timer' = FALSE
          /\ tx_buf' = NULL
          /\ tx_active' = FALSE
          /\ outcome' = "silent"
          /\ UNCHANGED <<uart_tx, uart_last, whole>>
    /\ UNCHANGED <<tx_call, pkt, rx_pkt>>
    /\ TxStep

\* The UART has sent the last byte; a receiver that was on has the packet. A
\* receiver that is in time ends its interrupt handler before.
UartSent ==
    /\ uart_tx = "busy"
    /\ Open("latency") \/ ~ rx_isr
    /\ uart_tx' = "done"
    /\ rx_pkt' = IF whole /\ uart_last THEN pkt ELSE rx_pkt
    /\ UNCHANGED <<tx_buf, tx_active, tx_timer, tx_call, uart_last, pkt, outcome, whole, lineVars>>
    /\ TxStep

\* UART_TX_DONE in uart_callback(). The event names the buffer, which need not be
\* the one of the last packet.
uart_tx_done ==
    /\ uart_tx = "done"
    /\ uart_tx' = "idle"
    /\ tx_complete(IF uart_last THEN "TX_DONE" ELSE outcome)
    /\ UNCHANGED <<tx_timer, tx_call, uart_last, pkt, wireVars>>
    /\ TxStep

\* UART_TX_ABORTED in uart_callback()
uart_tx_aborted ==
    /\ uart_tx = "aborting"
    /\ uart_tx' = "idle"
    /\ outcome' = IF uart_last THEN "TX_ABORTED" ELSE outcome
    /\ UNCHANGED <<tx_buf, tx_active, tx_timer, tx_call, uart_last, pkt, wireVars, lineVars>>
    /\ TxStep

\* When the transmitter gives up: long before a receiver answers, while it
\* answers, or when the answer is already pending.
GivesUp ==
    /\ Open("latency") \/ (tx_call = "none" /\ ~ listening /\ ~ rdy_evt)
    /\ Open("stale") \/ ~ req_evt

TxAbortedSilently == tx_complete(outcome)   \* mutant

\* The driver reports TX_ABORTED itself when no transfer is active.
TxAborted == tx_complete("TX_ABORTED")

\* tx_timeout(): an active transfer would be cut, but on_req_pin_change() stops the
\* timer before one is.
tx_timeout ==
    /\ tx_timer
    /\ GivesUp
    /\ tx_timer' = FALSE
    /\ IF tx_active
       THEN /\ uart_tx' = IF uart_tx = "busy" THEN "aborting" ELSE uart_tx
            /\ UNCHANGED <<tx_buf, tx_active, outcome, lineVars>>
       ELSE /\ TxAborted
            /\ UNCHANGED uart_tx
    /\ UNCHANGED <<tx_call, uart_last, pkt, wireVars>>
    /\ TxStep

\* api_tx_abort(): the line goes idle, then the UART is stopped. The event comes
\* from the UART later, or from the call when the UART is idle. The UART may still
\* have an earlier transfer: uart_tx_abort() succeeds and the only event is the
\* earlier one's.
api_tx_abort ==
    /\ TxThread /\ tx_call = "none"
    /\ tx_buf # NULL
    /\ GivesUp
    /\ tx_timer' = FALSE
    /\ \/ /\ uart_tx # "idle"
          /\ tx_complete(IF uart_last THEN outcome ELSE "silent")
          /\ uart_tx' = "aborting"
       \/ /\ uart_tx = "idle"
          /\ TxAborted
          /\ UNCHANGED uart_tx
    /\ UNCHANGED <<tx_call, uart_last, pkt, wireVars>>
    /\ TxStep

-----------------------------------------------------------------------------
(* Receiver *)

\* Interrupts come before the thread goes on. A call of the thread takes no time
\* unless the link is open to preemption.
Interrupts == ~ rx_isr /\ (Open("preempt") \/ rx_call = "none")
RxThread == ~ rx_isr /\ ~ rdy_evt
RxStep == UNCHANGED <<txVars, rx_pkt, windows>> /\ whole' = (whole /\ uart_rx' = "on")

activate_rx_without_uart(served) ==   \* mutant
    /\ Line(req_pin, "low", served)
    /\ UNCHANGED uart_rx

\* activate_rx(): the UART is turned on (which fails when it is on) and the pin
\* is low; then the pin is released and its falling edge armed; then the state is
\* set. An interrupt handler does the last two in one step.
activate_rx(served) ==
    /\ uart_rx' = IF uart_rx = "off" THEN "on" ELSE uart_rx
    /\ Line(req_pin, "low", served)

RxActive == rx_req' = FALSE /\ rx_state' = "RX_ACTIVE"

activate_rx_isr ==
    /\ rx_isr
    /\ rx_isr' = FALSE
    /\ Line(req_pin, "pullup", "none")
    /\ RxActive
    /\ UNCHANGED <<rx_buf, rx_call, uart_rx, listening>>
    /\ RxStep

activate_rx_thread ==
    /\ RxThread
    /\ \/ /\ rx_call = "ready"
          /\ rx_call' = "armed"
          /\ Line(req_pin, "pullup", "none")
          /\ UNCHANGED <<rx_req, rx_state>>
       \/ /\ rx_call = "armed"
          /\ rx_call' = "none"
          /\ RxActive
          /\ UNCHANGED lineVars
    /\ UNCHANGED <<rx_buf, rx_isr, uart_rx, listening>>
    /\ RxStep

\* deactivate_rx(): the pin is idle; a line that is high again is a request.
deactivate_rx ==
    /\ Line(req_pin, "nopull", "rdy")
    /\ rx_req' = (rx_req \/ High(req_pin, "nopull"))
    /\ rx_state' = "RX_TO_IDLE"
    /\ uart_rx' = IF uart_rx = "on" THEN "stopping" ELSE uart_rx

\* on_rdy_pin_change(): the edge that is armed tells what was detected.
on_rdy_pin_change ==
    /\ rdy_evt /\ Interrupts
    /\ \/ /\ rdy_pin = "nopull"
          /\ rx_state = "RX_IDLE"
          /\ rx_req' = TRUE
          /\ activate_rx("rdy")
          /\ rx_isr' = TRUE
          /\ UNCHANGED rx_state
       \/ /\ rdy_pin = "nopull"
          /\ rx_state # "RX_IDLE"
          /\ rx_req' = TRUE
          /\ Line(req_pin, rdy_pin, "rdy")
          /\ UNCHANGED <<rx_state, uart_rx, rx_isr>>
       \/ /\ rdy_pin # "nopull"
          /\ deactivate_rx
          /\ UNCHANGED rx_isr
    /\ UNCHANGED <<rx_buf, rx_call, listening>>
    /\ RxStep

\* UART_RX_DISABLED in uart_callback(). A receiver that becomes idle asks the
\* application for a buffer, which it provides in the callback, or from a thread.
uart_rx_disabled ==
    /\ uart_rx = "stopping" /\ Interrupts
    /\ \/ /\ rx_state = "RX_TO_IDLE" /\ rx_req      \* api_rx_buf_rsp()
          /\ uart_rx' = "on"
          /\ Line(req_pin, "low", "none")
          /\ rx_isr' = TRUE
          /\ UNCHANGED <<rx_state, rx_call>>
       \/ /\ rx_state = "RX_TO_IDLE" /\ ~ rx_req
          /\ rx_state' = "RX_IDLE"
          /\ uart_rx' = "off"
          /\ UNCHANGED <<rx_isr, rx_call, lineVars>>
       \/ /\ rx_state = "RX_TO_IDLE" /\ Open("preempt") /\ rx_call = "none"
          /\ rx_call' = "buf_rsp"
          /\ uart_rx' = "off"
          /\ UNCHANGED <<rx_state, rx_isr, lineVars>>
       \/ /\ rx_state # "RX_TO_IDLE"
          /\ rx_state' = IF rx_state = "RX_TO_OFF" THEN "RX_OFF" ELSE rx_state
          /\ uart_rx' = "off"
          /\ UNCHANGED <<rx_isr, rx_call, lineVars>>
    /\ UNCHANGED <<rx_req, rx_buf, listening>>
    /\ RxStep

\* api_rx_buf_rsp() from a thread: what was pending is looked at before the state
\* is set.
api_rx_buf_rsp ==
    /\ RxThread
    /\ \/ /\ rx_call = "buf_rsp" /\ rx_state = "RX_TO_IDLE" /\ rx_req
          /\ activate_rx("none")
          /\ rx_call' = "ready"
          /\ UNCHANGED rx_state
       \/ /\ rx_call = "buf_rsp" /\ rx_state = "RX_TO_IDLE" /\ ~ rx_req
          /\ rx_call' = "to_idle"
          /\ UNCHANGED <<rx_state, uart_rx, lineVars>>
       \/ /\ rx_call = "to_idle"
          /\ rx_call' = "none"
          /\ rx_state' = "RX_IDLE"
          /\ UNCHANGED <<uart_rx, lineVars>>
    /\ UNCHANGED <<rx_req, rx_buf, rx_isr, listening>>
    /\ RxStep

\* api_rx_enable(): the state is set; the pin is read with interrupts locked; a
\* line that is high is a request that came before. The buffer of an earlier
\* call is never given back.
api_rx_enable ==
    /\ \/ /\ RxThread /\ rx_call = "none"
          /\ rx_state = "RX_OFF"
          /\ ~ rx_buf
          /\ rx_buf' = TRUE
          /\ rx_state' = "RX_IDLE"
          /\ rx_call' = "enable"
          /\ listening' = TRUE
          /\ UNCHANGED <<uart_rx, lineVars>>
       \/ /\ rx_call = "enable" /\ ~ rx_isr /\ (rdy_evt => Open("preempt"))
          /\ rx_call' = IF High(req_pin, rdy_pin) /\ rx_state = "RX_IDLE" THEN "pending" ELSE "none"
          /\ UNCHANGED <<rx_state, rx_buf, uart_rx, listening, lineVars>>
       \/ /\ RxThread /\ rx_call = "pending"
          /\ activate_rx("none")
          /\ rx_call' = "ready"
          /\ UNCHANGED <<rx_state, rx_buf, listening>>
    /\ UNCHANGED <<rx_req, rx_isr>>
    /\ RxStep

\* api_rx_disable()
api_rx_disable ==
    /\ Open("rx_disable")
    /\ RxThread /\ rx_call = "none"
    /\ listening
    /\ listening' = FALSE
    /\ rx_state' = "RX_TO_OFF"
    /\ uart_rx' = IF uart_rx = "on" THEN "stopping" ELSE uart_rx
    /\ UNCHANGED <<rx_req, rx_buf, rx_isr, rx_call, lineVars>>
    /\ RxStep

-----------------------------------------------------------------------------

ReceiverIsr == activate_rx_isr \/ on_rdy_pin_change \/ uart_rx_disabled
ReceiverCall == activate_rx_thread \/ api_rx_buf_rsp \/ (rx_call # "none" /\ api_rx_enable)

Next ==
    \/ api_tx \/ api_tx_pin \/ on_req_pin_change \/ UartSent \/ uart_tx_done
    \/ uart_tx_aborted \/ tx_timeout \/ api_tx_abort
    \/ ReceiverIsr \/ ReceiverCall \/ api_rx_enable \/ api_rx_disable

Spec == Init /\ [][Next]_vars

\* The interrupts and the calls that were begun on both devices run, and a timer
\* that was started expires. When the applications call is up to them.
Fairness ==
    /\ WF_vars(on_req_pin_change) /\ WF_vars(api_tx_pin)
    /\ WF_vars(UartSent) /\ WF_vars(uart_tx_done) /\ WF_vars(uart_tx_aborted)
    /\ WF_vars(ReceiverIsr) /\ WF_vars(ReceiverCall)
    /\ WF_vars(tx_timeout)

FairSpec == Spec /\ Fairness

-----------------------------------------------------------------------------
(* Properties *)

\* Every variable has its type, and a transfer is active only while the driver has
\* its buffer and its timer is stopped: no timeout cuts an active transfer.
TypeOK ==
    /\ tx_buf \in 0..PACKETS /\ tx_active \in BOOLEAN /\ tx_timer \in BOOLEAN
    /\ tx_active => tx_buf # NULL /\ ~ tx_timer
    /\ tx_call \in {"none", "ctrl_pin_set"}
    /\ req_pin \in {"low", "high", "pullup"} /\ req_evt \in BOOLEAN
    /\ uart_tx \in {"idle", "busy", "done", "aborting"} /\ uart_last \in BOOLEAN
    /\ rx_state \in {"RX_OFF", "RX_IDLE", "RX_ACTIVE", "RX_TO_IDLE", "RX_TO_OFF"}
    /\ rx_req \in BOOLEAN /\ rx_buf \in BOOLEAN /\ rx_isr \in BOOLEAN
    /\ rx_call \in {"none", "enable", "pending", "ready", "armed", "buf_rsp", "to_idle"}
    /\ rdy_pin \in {"low", "pullup", "nopull"} /\ rdy_evt \in BOOLEAN
    /\ uart_rx \in {"off", "on", "stopping"}
    /\ pkt \in 0..PACKETS - 1 /\ rx_pkt \in 0..PACKETS - 1
    /\ outcome \in {"none", "TX_DONE", "TX_ABORTED", "silent"}
    /\ whole \in BOOLEAN /\ listening \in BOOLEAN

\* A packet that was reported TX_DONE has reached the receiver as a whole.
DoneIsReceived == outcome = "TX_DONE" /\ listening => rx_pkt = pkt

\* doc/nrf/drivers/uart_nrf_sw_lpuart.rst: "Once the receiver acknowledges the
\* transfer, it must be capable of receiving the whole transfer until the REQ line
\* goes down."
ReadyUntilEnd == uart_tx = "busy" /\ listening => uart_rx = "on"

\* The assertions of on_rdy_pin_change() and uart_callback(), and the one of
\* activate_rx(): a receiver that is on is not turned on again.
AssertsHold ==
    /\ rdy_evt /\ Interrupts => (rdy_pin = "nopull" <=> rx_state # "RX_ACTIVE")
    /\ uart_rx = "stopping" => rx_state \in {"RX_TO_IDLE", "RX_TO_OFF"}
    /\ \/ rdy_evt /\ Interrupts /\ rdy_pin = "nopull" /\ rx_state = "RX_IDLE"
       \/ RxThread /\ rx_call = "pending"
          => uart_rx = "off"

\* A link whose devices react in time loses no packet: requests that come before
\* reception is enabled, while the receiver shuts down or one after the other are
\* answered when the receiver is on, which stays on to the end of the transfer;
\* the event of the RDY pin is never taken for the other edge.
OrderlyTransfer == windows = {} => DoneIsReceived /\ ReadyUntilEnd /\ AssertsHold

\* A packet the application asked to send is reported, through timeouts, aborts and
\* late answers: TX_DONE, TX_ABORTED, or the UART is about to report it aborted. A
\* link whose devices react in time needs no timeout for that. The code reports
\* nothing of a packet whose uart_tx() fails, and of one that is aborted while the
\* UART still has an earlier transfer: these two are "silent".
SendReported ==
    outcome = "none" ~>
        outcome \in {"TX_DONE", "TX_ABORTED"} \/ uart_tx = "aborting" \/ outcome = "silent"
=============================================================================
