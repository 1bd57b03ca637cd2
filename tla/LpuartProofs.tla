---------------------------- MODULE LpuartProofs ----------------------------
(***************************************************************************)
(* Theorems about the low power UART, for every number of packets and      *)
(* every set of links.                                                     *)
(***************************************************************************)
EXTENDS Lpuart, TLAPS

(* The REQ pin tells where the transmitter is: nothing to send or in       *)
(* api_tx(), waiting for the receiver, or sending to a receiver that has   *)
(* been on from the start.                                                 *)
TxPhase ==
    /\ req_pin = "low" =>
          /\ ~tx_active /\ uart_tx = "idle" /\ ~req_evt
          /\ tx_call = "none" => tx_buf = NULL /\ ~tx_timer
          /\ tx_call # "none" => tx_buf # NULL /\ outcome = "none"
    /\ req_pin = "pullup" =>
          tx_call = "none" /\ tx_buf # NULL /\ ~tx_active /\ uart_tx = "idle" /\ outcome = "none"
    /\ req_pin = "high" =>
          /\ tx_call = "none" /\ tx_buf # NULL /\ tx_active /\ ~tx_timer /\ ~req_evt
          /\ uart_tx \in {"busy", "done"} /\ uart_last /\ outcome = "none"
          /\ uart_rx = "on" /\ whole

(* What the transmitter has reported, the receiver has. *)
Delivered == outcome = "TX_DONE" \/ uart_tx = "done" => rx_pkt = pkt

(* The phases of the receiver, each with the requests that are possible in *)
(* it and the event by which it will learn of them.                        *)
RxOff ==
    /\ rx_state = "RX_OFF" /\ rx_call = "none" /\ ~rx_isr /\ uart_rx = "off" /\ rdy_pin = "nopull"
    /\ ~listening /\ ~rx_buf
    /\ req_pin # "high" /\ ~req_evt
    /\ rdy_evt => req_pin = "pullup"

(* Reception is being enabled: the pin has not been read yet, or was high. *)
RxEnabling ==
    /\ rx_state = "RX_IDLE" /\ rx_call \in {"enable", "pending"} /\ ~rx_isr
    /\ uart_rx = "off" /\ rdy_pin = "nopull" /\ listening /\ rx_buf
    /\ ~rdy_evt /\ ~req_evt
    /\ req_pin # "high"
    /\ rx_call = "pending" => req_pin = "pullup"

RxIdle ==
    /\ rx_state = "RX_IDLE" /\ rx_call = "none" /\ ~rx_isr
    /\ uart_rx = "off" /\ rdy_pin = "nopull" /\ listening /\ rx_buf
    /\ req_pin # "high" /\ ~req_evt
    /\ rdy_evt <=> req_pin = "pullup"

(* activate_rx(): the transmitter has its answer, and may send before the  *)
(* interrupt handler has ended.                                            *)
RxAnswering ==
    /\ \/ rx_call = "none" /\ rx_isr /\ rx_state \in {"RX_IDLE", "RX_TO_IDLE"} /\ rdy_pin = "low"
       \/ rx_call = "ready" /\ ~rx_isr /\ rx_state = "RX_IDLE" /\ rdy_pin = "low" /\ req_pin = "pullup"
       \/ rx_call = "armed" /\ ~rx_isr /\ rx_state = "RX_IDLE" /\ rdy_pin = "pullup" /\ req_pin = "pullup"
    /\ uart_rx = "on" /\ listening /\ rx_buf /\ ~rdy_evt
    /\ req_pin # "low"
    /\ req_pin = "pullup" => req_evt
    /\ uart_tx # "done"

(* The falling edge at the end of the transfer is armed, or was seen. *)
RxActivated ==
    /\ rx_state = "RX_ACTIVE" /\ rx_call = "none" /\ ~rx_isr /\ ~rx_req
    /\ uart_rx = "on" /\ rdy_pin = "pullup" /\ listening /\ rx_buf
    /\ IF rdy_evt THEN req_pin # "high" /\ ~req_evt
                  ELSE req_pin # "low" /\ (req_pin = "pullup" => req_evt)

(* The next request may already be there. *)
RxStopping ==
    /\ rx_state = "RX_TO_IDLE" /\ rx_call = "none" /\ ~rx_isr
    /\ uart_rx = "stopping" /\ rdy_pin = "nopull" /\ listening /\ rx_buf
    /\ req_pin # "high" /\ ~req_evt
    /\ req_pin = "low" => ~rx_req /\ ~rdy_evt
    /\ req_pin = "pullup" => (rx_req <=> ~rdy_evt)

RxPhase == RxOff \/ RxEnabling \/ RxIdle \/ RxAnswering \/ RxActivated \/ RxStopping

(* Links that are open to nothing. *)
InTime == TxPhase /\ Delivered /\ RxPhase

(* What TypeOK says of the packet and its buffer needs this of every link. *)
IInv == TypeOK /\ (windows = {} => InTime)

-----------------------------------------------------------------------------
(* Setting the pins leaves events that are Boolean, and the edges of Line. *)
LEMMA LineSets ==
    ASSUME TypeOK, NEW req, NEW rdy, NEW served, Line(req, rdy, served)
    PROVE  /\ req_pin' = req /\ rdy_pin' = rdy
           /\ req_evt' \in BOOLEAN /\ rdy_evt' \in BOOLEAN
           /\ req_evt' <=> \/ req_evt /\ served # "req"
                           \/ req = "pullup" /\ req_pin = req
                              /\ High(req_pin, rdy_pin) /\ ~High(req, rdy)
           /\ rdy_evt' <=> \/ rdy_evt /\ served # "rdy"
                           \/ rdy = "pullup" /\ rdy_pin = rdy
                              /\ High(req_pin, rdy_pin) /\ ~High(req, rdy)
                           \/ rdy = "nopull" /\ rdy_pin = rdy
                              /\ ~High(req_pin, rdy_pin) /\ High(req, rdy)
BY DEF Line, High, TypeOK

(* The type invariant in three parts. *)
Numbers ==
    /\ tx_buf \in 0 .. PACKETS /\ pkt \in 0 .. PACKETS - 1 /\ rx_pkt \in 0 .. PACKETS - 1
    /\ tx_active => tx_buf # NULL

Flags ==
    /\ tx_active \in BOOLEAN /\ tx_timer \in BOOLEAN /\ req_evt \in BOOLEAN
    /\ tx_active => ~tx_timer
    /\ uart_last \in BOOLEAN
    /\ rx_req \in BOOLEAN /\ rx_buf \in BOOLEAN /\ rx_isr \in BOOLEAN /\ rdy_evt \in BOOLEAN
    /\ whole \in BOOLEAN /\ listening \in BOOLEAN

Names ==
    /\ tx_call \in {"none", "ctrl_pin_set"} /\ uart_tx \in {"idle", "busy", "done", "aborting"}
    /\ req_pin \in {"low", "high", "pullup"} /\ rdy_pin \in {"low", "pullup", "nopull"}
    /\ rx_state \in {"RX_OFF", "RX_IDLE", "RX_ACTIVE", "RX_TO_IDLE", "RX_TO_OFF"}
    /\ rx_call \in {"none", "enable", "pending", "ready", "armed", "buf_rsp", "to_idle"}
    /\ uart_rx \in {"off", "on", "stopping"}
    /\ outcome \in {"none", "TX_DONE", "TX_ABORTED", "silent"}

LEMMA TypeParts == TypeOK <=> Numbers /\ Flags /\ Names
BY DEF TypeOK, Numbers, Flags, Names

LEMMA NextPacket ==
    ASSUME NEW p \in 0 .. PACKETS - 1
    PROVE  (p + 1) % PACKETS \in 0 .. PACKETS - 1
BY LpuartAssumption

LEMMA InvInit == Init => IInv
<1> SUFFICES ASSUME Init PROVE IInv
  OBVIOUS
<1>1. Numbers /\ Names
  BY LpuartAssumption DEF Init, Numbers, Names, NULL
<1>2. Flags
  BY DEF Init, Flags
<1>3. InTime
  BY DEF Init, InTime, TxPhase, Delivered, RxPhase, RxOff
<1> QED BY <1>1, <1>2, <1>3, TypeParts DEF IInv

LEMMA ApiTxPreserves ==
    ASSUME IInv, api_tx
    PROVE  IInv'
<1> USE DEF txVars, rxVars, lineVars, wireVars
<1>1. TypeOK'
  <2>1. Numbers'
    BY TypeParts DEF IInv, Numbers, api_tx, NULL
  <2>2. Flags'
    BY TypeParts DEF IInv, Numbers, Flags, api_tx, TxStep, TxThread
  <2>3. Names'
    BY TypeParts DEF IInv, Names, api_tx, TxStep, TxThread
  <2> QED BY <2>1, <2>2, <2>3 DEF TypeOK, Numbers, Flags, Names
<1>2. windows' = windows
  BY DEF api_tx, TxStep, TxThread
<1>3. ASSUME windows = {} PROVE TxPhase' /\ Delivered'
  BY <1>3 DEF IInv, InTime, TypeOK, TxPhase, Delivered, api_tx, NULL
<1>4. ASSUME windows = {} PROVE RxPhase'
  BY <1>4 DEF IInv, InTime, RxPhase, RxOff, RxEnabling, RxIdle, RxAnswering, RxActivated,
     RxStopping, api_tx, TxStep
<1> QED BY <1>1, <1>2, <1>3, <1>4 DEF IInv, InTime

LEMMA ApiTxPinPreserves ==
    ASSUME IInv, api_tx_pin
    PROVE  IInv'
<1> USE DEF txVars, rxVars, lineVars, wireVars
<1>1. TypeOK'
  <2>1. Numbers'
    BY TypeParts DEF IInv, Numbers, api_tx_pin
  <2>2. Flags'
    BY LineSets, TypeParts DEF IInv, Flags, api_tx_pin, TxStep
  <2>3. Names'
    BY LineSets, TypeParts DEF IInv, Names, api_tx_pin, TxStep
  <2> QED BY <2>1, <2>2, <2>3 DEF TypeOK, Numbers, Flags, Names
<1>2. windows' = windows
  BY DEF api_tx_pin, TxStep, TxThread
<1>3. ASSUME windows = {} PROVE TxPhase' /\ Delivered'
  BY LineSets, <1>3 DEF IInv, InTime, TypeOK, TxPhase, Delivered, api_tx_pin
<1>4. ASSUME windows = {} PROVE RxPhase'
  BY LineSets, <1>4 DEF IInv, InTime, TypeOK, TxPhase, RxPhase, RxOff, RxEnabling, RxIdle,
     RxAnswering, RxActivated, RxStopping, api_tx_pin, TxStep, Open, High
<1> QED BY <1>1, <1>2, <1>3, <1>4 DEF IInv, InTime

LEMMA OnReqPinChangePreserves ==
    ASSUME IInv, on_req_pin_change
    PROVE  IInv'
<1> USE DEF txVars, rxVars, lineVars, wireVars
<1>1. TypeOK'
  <2>1. Numbers'
    BY LpuartAssumption, TypeParts DEF IInv, Numbers, on_req_pin_change, NULL
  <2>2. Flags'
    BY LineSets, TypeParts DEF IInv, Flags, on_req_pin_change, TxStep, TxThread
  <2>3. Names'
    BY LineSets, TypeParts DEF IInv, Names, on_req_pin_change, TxStep, TxThread
  <2> QED BY <2>1, <2>2, <2>3 DEF TypeOK, Numbers, Flags, Names
<1>2. windows' = windows
  BY DEF on_req_pin_change, TxStep, TxThread
<1>3. ASSUME windows = {} PROVE TxPhase' /\ Delivered'
  BY LineSets, <1>3 DEF IInv, InTime, TypeOK, TxPhase, Delivered, RxPhase, RxOff, RxEnabling,
     RxIdle, RxAnswering, RxActivated, RxStopping, on_req_pin_change, TxStep
<1>4. ASSUME windows = {} PROVE RxPhase'
  BY LineSets, <1>4 DEF IInv, InTime, TypeOK, TxPhase, RxPhase, RxOff, RxEnabling, RxIdle,
     RxAnswering, RxActivated, RxStopping, on_req_pin_change, TxStep, TxThread, Open, High
<1> QED BY <1>1, <1>2, <1>3, <1>4 DEF IInv, InTime

LEMMA UartSentPreserves ==
    ASSUME IInv, UartSent
    PROVE  IInv'
<1> USE DEF txVars, rxVars, lineVars, wireVars
<1>1. TypeOK'
  <2>1. Numbers'
    BY TypeParts DEF IInv, Numbers, UartSent
  <2>2. Flags'
    BY TypeParts DEF IInv, Flags, UartSent, TxStep, TxThread
  <2>3. Names'
    BY TypeParts DEF IInv, Names, UartSent, TxStep, TxThread
  <2> QED BY <2>1, <2>2, <2>3 DEF TypeOK, Numbers, Flags, Names
<1>2. windows' = windows
  BY DEF UartSent, TxStep, TxThread
<1>3. ASSUME windows = {} PROVE TxPhase' /\ Delivered'
  BY <1>3 DEF IInv, InTime, TypeOK, TxPhase, Delivered, UartSent, TxStep
<1>4. ASSUME windows = {} PROVE RxPhase'
  BY <1>4 DEF IInv, InTime, RxPhase, RxOff, RxEnabling, RxIdle, RxAnswering, RxActivated,
     RxStopping, UartSent, TxStep, Open
<1> QED BY <1>1, <1>2, <1>3, <1>4 DEF IInv, InTime

LEMMA UartTxDonePreserves ==
    ASSUME IInv, uart_tx_done
    PROVE  IInv'
<1> USE DEF txVars, rxVars, lineVars, wireVars
<1>1. TypeOK'
  <2>1. Numbers'
    BY LpuartAssumption, TypeParts DEF IInv, Numbers, uart_tx_done, tx_complete, NULL
  <2>2. Flags'
    BY LineSets, TypeParts DEF IInv, Flags, uart_tx_done, tx_complete, TxStep, TxThread
  <2>3. Names'
    BY LineSets, TypeParts DEF IInv, Names, uart_tx_done, tx_complete, TxStep, TxThread
  <2> QED BY <2>1, <2>2, <2>3 DEF TypeOK, Numbers, Flags, Names
<1>2. windows' = windows
  BY DEF uart_tx_done, TxStep, TxThread
<1>3. ASSUME windows = {} PROVE TxPhase' /\ Delivered'
  BY LineSets, <1>3 DEF IInv, InTime, TypeOK, TxPhase, Delivered, uart_tx_done, tx_complete
<1>4. ASSUME windows = {} PROVE RxPhase'
  BY LineSets, <1>4 DEF IInv, InTime, TypeOK, TxPhase, RxPhase, RxOff, RxEnabling, RxIdle,
     RxAnswering, RxActivated, RxStopping, uart_tx_done, tx_complete, TxStep, TxThread, High
<1> QED BY <1>1, <1>2, <1>3, <1>4 DEF IInv, InTime

LEMMA UartTxAbortedPreserves ==
    ASSUME IInv, uart_tx_aborted
    PROVE  IInv'
<1> USE DEF txVars, rxVars, lineVars, wireVars
<1>1. TypeOK'
  <2>1. Numbers'
    BY TypeParts DEF IInv, Numbers, uart_tx_aborted
  <2>2. Flags'
    BY TypeParts DEF IInv, Flags, uart_tx_aborted, TxStep
  <2>3. Names'
    BY TypeParts DEF IInv, Names, uart_tx_aborted, TxStep
  <2> QED BY <2>1, <2>2, <2>3 DEF TypeOK, Numbers, Flags, Names
<1>2. windows' = windows
  BY DEF uart_tx_aborted, TxStep
<1>3. windows # {}
  BY DEF IInv, InTime, TypeOK, TxPhase, uart_tx_aborted
<1> QED BY <1>1, <1>2, <1>3 DEF IInv

LEMMA TxTimeoutPreserves ==
    ASSUME IInv, tx_timeout
    PROVE  IInv'
<1> USE DEF txVars, rxVars, lineVars, wireVars
<1>1. TypeOK'
  <2>1. Numbers'
    BY LpuartAssumption, TypeParts DEF IInv, Numbers, tx_timeout, TxAborted, tx_complete, NULL
  <2>2. Flags'
    BY LineSets, TypeParts DEF IInv, Flags, tx_timeout, TxAborted, tx_complete, TxStep, TxThread
  <2>3. Names'
    BY LineSets, TypeParts DEF IInv, Names, tx_timeout, TxAborted, tx_complete, TxStep, TxThread
  <2> QED BY <2>1, <2>2, <2>3 DEF TypeOK, Numbers, Flags, Names
<1>2. windows' = windows
  BY DEF tx_timeout, TxStep, TxThread, GivesUp
<1>3. ASSUME windows = {} PROVE TxPhase' /\ Delivered'
  BY LineSets, <1>3 DEF IInv, InTime, TypeOK, TxPhase, Delivered, tx_timeout, TxAborted,
     tx_complete, GivesUp, Open
<1>4. ASSUME windows = {} PROVE RxPhase'
  BY LineSets, <1>4 DEF IInv, InTime, RxPhase, RxOff, RxEnabling, RxIdle, RxAnswering,
     RxActivated, RxStopping, tx_timeout, TxAborted, tx_complete, TxStep, GivesUp, Open, High
<1> QED BY <1>1, <1>2, <1>3, <1>4 DEF IInv, InTime

LEMMA ApiTxAbortPreserves ==
    ASSUME IInv, api_tx_abort
    PROVE  IInv'
<1> USE DEF txVars, rxVars, lineVars, wireVars
<1>1. TypeOK'
  <2>1. Numbers'
    BY LpuartAssumption, TypeParts DEF IInv, Numbers, api_tx_abort, TxAborted, tx_complete, NULL
  <2>2. Flags'
    BY LineSets, TypeParts DEF IInv, Flags, api_tx_abort, TxAborted, tx_complete, TxStep
  <2>3. Names'
    BY LineSets, TypeParts DEF IInv, Names, api_tx_abort, TxAborted, tx_complete, TxStep
  <2> QED BY <2>1, <2>2, <2>3 DEF TypeOK, Numbers, Flags, Names
<1>2. windows' = windows
  BY DEF api_tx_abort, TxStep, TxThread, GivesUp
<1>3. ASSUME windows = {} PROVE TxPhase' /\ Delivered'
  <2>1. uart_tx = "idle" /\ TypeOK
    BY <1>3 DEF IInv, InTime, TypeOK, TxPhase, RxPhase, RxOff, RxEnabling, RxIdle, RxAnswering,
       RxActivated, RxStopping, api_tx_abort, GivesUp, Open
  <2>2. uart_tx' = "idle" /\ TxAborted
    BY <2>1 DEF api_tx_abort
  <2> QED BY <2>1, <2>2, LineSets DEF TxPhase, Delivered, api_tx_abort, TxAborted, tx_complete,
          TxThread
<1>4. ASSUME windows = {} PROVE RxPhase'
  BY LineSets, <1>4 DEF IInv, InTime, RxPhase, RxOff, RxEnabling, RxIdle, RxAnswering,
     RxActivated, RxStopping, api_tx_abort, TxAborted, tx_complete, TxStep, GivesUp, Open, High
<1> QED BY <1>1, <1>2, <1>3, <1>4 DEF IInv, InTime

LEMMA ActivateRxIsrPreserves ==
    ASSUME IInv, activate_rx_isr
    PROVE  IInv'
<1> USE DEF txVars, rxVars, lineVars, wireVars
<1>1. TypeOK'
  <2>1. Numbers'
    BY TypeParts DEF IInv, Numbers, activate_rx_isr, RxStep
  <2>2. Flags'
    BY LineSets, TypeParts DEF IInv, Flags, activate_rx_isr, RxActive, RxStep, RxThread,
       Interrupts
  <2>3. Names'
    BY LineSets, TypeParts DEF IInv, Names, activate_rx_isr, RxActive, RxStep, RxThread,
       Interrupts
  <2> QED BY <2>1, <2>2, <2>3 DEF TypeOK, Numbers, Flags, Names
<1>2. windows' = windows
  BY DEF activate_rx_isr, RxStep, RxThread, Interrupts
<1>3. ASSUME windows = {} PROVE TxPhase' /\ Delivered'
  BY LineSets, <1>3 DEF IInv, InTime, TypeOK, TxPhase, Delivered, activate_rx_isr, RxStep
<1>4. ASSUME windows = {} PROVE RxPhase'
  BY LineSets, <1>4 DEF IInv, InTime, RxPhase, RxOff, RxEnabling, RxIdle, RxAnswering,
     RxActivated, RxStopping, activate_rx_isr, RxActive
<1> QED BY <1>1, <1>2, <1>3, <1>4 DEF IInv, InTime

LEMMA ActivateRxThreadPreserves ==
    ASSUME IInv, activate_rx_thread
    PROVE  IInv'
<1> USE DEF txVars, rxVars, lineVars, wireVars
<1>1. TypeOK'
  <2>1. Numbers'
    BY TypeParts DEF IInv, Numbers, activate_rx_thread, RxStep
  <2>2. Flags'
    BY LineSets, TypeParts DEF IInv, Flags, activate_rx_thread, RxActive, RxStep
  <2>3. Names'
    BY LineSets, TypeParts DEF IInv, Names, activate_rx_thread, RxActive, RxStep
  <2> QED BY <2>1, <2>2, <2>3 DEF TypeOK, Numbers, Flags, Names
<1>2. windows' = windows
  BY DEF activate_rx_thread, RxStep, RxThread, Interrupts
<1>3. ASSUME windows = {} PROVE TxPhase' /\ Delivered'
  BY LineSets, <1>3 DEF IInv, InTime, TxPhase, Delivered, RxPhase, RxOff, RxEnabling, RxIdle,
     RxAnswering, RxActivated, RxStopping, activate_rx_thread, RxStep
<1>4. ASSUME windows = {} PROVE RxPhase'
  BY LineSets, <1>4 DEF IInv, InTime, RxPhase, RxOff, RxEnabling, RxIdle, RxAnswering,
     RxActivated, RxStopping, activate_rx_thread, RxActive, RxStep
<1> QED BY <1>1, <1>2, <1>3, <1>4 DEF IInv, InTime

LEMMA OnRdyPinChangePreserves ==
    ASSUME IInv, on_rdy_pin_change
    PROVE  IInv'
<1> USE DEF txVars, rxVars, lineVars, wireVars
<1>1. TypeOK'
  <2>1. Numbers'
    BY TypeParts DEF IInv, Numbers, on_rdy_pin_change, RxStep
  <2>2. Flags'
    BY LineSets, TypeParts DEF IInv, Flags, on_rdy_pin_change, activate_rx, deactivate_rx,
       RxStep, RxThread
  <2>3. Names'
    BY LineSets, TypeParts DEF IInv, Names, on_rdy_pin_change, activate_rx, deactivate_rx,
       RxStep, RxThread
  <2> QED BY <2>1, <2>2, <2>3 DEF TypeOK, Numbers, Flags, Names
<1>2. windows' = windows
  BY DEF on_rdy_pin_change, RxStep, RxThread, Interrupts
<1>3. ASSUME windows = {} PROVE TxPhase' /\ Delivered'
  BY LineSets, <1>3 DEF IInv, InTime, TxPhase, Delivered, RxPhase, RxOff, RxEnabling, RxIdle,
     RxAnswering, RxActivated, RxStopping, on_rdy_pin_change, activate_rx, deactivate_rx, RxStep
<1>4. ASSUME windows = {} PROVE RxPhase'
  <2>1. /\ rdy_evt /\ ~rx_isr /\ rx_call = "none"
        /\ UNCHANGED <<rx_buf, rx_call, listening, uart_tx>>
    BY <1>4 DEF on_rdy_pin_change, Interrupts, Open, RxStep
  <2>2. CASE RxOff
    BY <2>2, LineSets DEF IInv, RxOff, RxPhase, on_rdy_pin_change
  <2>3. CASE RxIdle
    BY <1>4, <2>1, <2>3, LineSets
       DEF IInv, InTime, TxPhase, RxIdle, RxAnswering, RxPhase, on_rdy_pin_change, activate_rx, High
  <2>4. CASE RxActivated
    <3>1. deactivate_rx /\ rx_isr' = rx_isr
      BY <2>4 DEF RxActivated, on_rdy_pin_change
    <3>2. /\ req_pin' = req_pin /\ rdy_pin' = "nopull" /\ ~rdy_evt' /\ ~req_evt'
          /\ req_pin # "high"
      BY <2>1, <2>4, <3>1, LineSets DEF IInv, RxActivated, deactivate_rx, High
    <3>3. rx_req' <=> req_pin = "pullup"
      BY <2>4, <3>1, <3>2 DEF IInv, TypeOK, RxActivated, deactivate_rx, High
    <3> QED BY <2>1, <2>4, <3>1, <3>2, <3>3 DEF RxActivated, RxStopping, RxPhase, deactivate_rx
  <2>5. CASE RxStopping
    BY <2>5, LineSets DEF IInv, RxStopping, RxPhase, on_rdy_pin_change
  <2>6. ~RxEnabling /\ ~RxAnswering
    BY <2>1 DEF RxEnabling, RxAnswering
  <2> QED BY <1>4, <2>2, <2>3, <2>4, <2>5, <2>6 DEF IInv, InTime, RxPhase
<1> QED BY <1>1, <1>2, <1>3, <1>4 DEF IInv, InTime

LEMMA UartRxDisabledPreserves ==
    ASSUME IInv, uart_rx_disabled
    PROVE  IInv'
<1> USE DEF txVars, rxVars, lineVars, wireVars
<1>1. TypeOK'
  <2>1. Numbers'
    BY TypeParts DEF IInv, Numbers, uart_rx_disabled, RxStep
  <2>2. Flags'
    BY LineSets, TypeParts DEF IInv, Flags, uart_rx_disabled, RxStep, RxThread
  <2>3. Names'
    BY LineSets, TypeParts DEF IInv, Names, uart_rx_disabled, RxStep, RxThread
  <2> QED BY <2>1, <2>2, <2>3 DEF TypeOK, Numbers, Flags, Names
<1>2. windows' = windows
  BY DEF uart_rx_disabled, RxStep, RxThread, Interrupts
<1>3. ASSUME windows = {} PROVE TxPhase' /\ Delivered'
  BY LineSets, <1>3 DEF IInv, InTime, TxPhase, Delivered, uart_rx_disabled, RxStep
<1>4. ASSUME windows = {} PROVE RxPhase'
  BY LineSets, <1>4 DEF IInv, InTime, TypeOK, TxPhase, RxPhase, RxOff, RxEnabling, RxIdle,
     RxAnswering, RxActivated, RxStopping, uart_rx_disabled, RxStep, RxThread, Open, High
<1> QED BY <1>1, <1>2, <1>3, <1>4 DEF IInv, InTime

LEMMA ApiRxBufRspPreserves ==
    ASSUME IInv, api_rx_buf_rsp
    PROVE  IInv'
<1> USE DEF txVars, rxVars, lineVars, wireVars
<1>1. TypeOK'
  <2>1. Numbers'
    BY TypeParts DEF IInv, Numbers, api_rx_buf_rsp, RxStep
  <2>2. Flags'
    BY LineSets, TypeParts DEF IInv, Flags, api_rx_buf_rsp, activate_rx, RxStep
  <2>3. Names'
    BY LineSets, TypeParts DEF IInv, Names, api_rx_buf_rsp, activate_rx, RxStep
  <2> QED BY <2>1, <2>2, <2>3 DEF TypeOK, Numbers, Flags, Names
<1>2. windows' = windows
  BY DEF api_rx_buf_rsp, RxStep, RxThread, Interrupts
<1>3. ASSUME windows = {} PROVE TxPhase' /\ Delivered'
  BY <1>3 DEF IInv, InTime, RxPhase, RxOff, RxEnabling, RxIdle, RxAnswering, RxActivated,
     RxStopping, api_rx_buf_rsp
<1>4. ASSUME windows = {} PROVE RxPhase'
  BY <1>4 DEF IInv, InTime, RxPhase, RxOff, RxEnabling, RxIdle, RxAnswering, RxActivated,
     RxStopping, api_rx_buf_rsp
<1> QED BY <1>1, <1>2, <1>3, <1>4 DEF IInv, InTime

LEMMA ApiRxEnablePreserves ==
    ASSUME IInv, api_rx_enable
    PROVE  IInv'
<1> USE DEF txVars, rxVars, lineVars, wireVars
<1>1. TypeOK'
  <2>1. Numbers'
    BY TypeParts DEF IInv, Numbers, api_rx_enable, RxStep
  <2>2. Flags'
    BY LineSets, TypeParts DEF IInv, Flags, api_rx_enable, activate_rx, RxStep
  <2>3. Names'
    BY LineSets, TypeParts DEF IInv, Names, api_rx_enable, activate_rx, RxStep
  <2> QED BY <2>1, <2>2, <2>3 DEF TypeOK, Numbers, Flags, Names
<1>2. windows' = windows
  BY DEF api_rx_enable, RxStep, RxThread, Interrupts
<1>3. ASSUME windows = {} PROVE TxPhase' /\ Delivered'
  BY LineSets, <1>3 DEF IInv, InTime, TxPhase, Delivered, RxPhase, RxOff, RxEnabling, RxIdle,
     RxAnswering, RxActivated, RxStopping, api_rx_enable, activate_rx, RxStep
<1>4. ASSUME windows = {} PROVE RxPhase'
  <2>1. UNCHANGED <<rx_req, rx_isr, uart_tx>>
    BY DEF api_rx_enable, RxStep
  <2>2. CASE RxOff
    BY <2>2 DEF RxOff, RxEnabling, RxPhase, api_rx_enable, RxThread
  <2>3. CASE RxEnabling
    <3>1. CASE rx_call = "enable"
      BY <2>1, <2>3, <3>1
         DEF IInv, TypeOK, RxEnabling, RxIdle, RxPhase, api_rx_enable, High
    <3>2. CASE rx_call = "pending"
      BY <1>4, <2>1, <2>3, <3>2, LineSets
         DEF IInv, InTime, TxPhase, RxEnabling, RxAnswering, RxPhase, api_rx_enable, activate_rx, High
    <3> QED BY <2>3, <3>1, <3>2 DEF RxEnabling
  <2>4. RxOff \/ RxEnabling
    BY <1>4 DEF IInv, InTime, RxPhase, RxIdle, RxAnswering, RxActivated, RxStopping,
       api_rx_enable
  <2> QED BY <2>2, <2>3, <2>4
<1> QED BY <1>1, <1>2, <1>3, <1>4 DEF IInv, InTime

LEMMA ApiRxDisablePreserves ==
    ASSUME IInv, api_rx_disable
    PROVE  IInv'
<1> USE DEF txVars, rxVars, lineVars, wireVars
<1>1. TypeOK'
  <2>1. Numbers'
    BY TypeParts DEF IInv, Numbers, api_rx_disable, RxStep
  <2>2. Flags'
    BY TypeParts DEF IInv, Flags, api_rx_disable, RxStep
  <2>3. Names'
    BY TypeParts DEF IInv, Names, api_rx_disable, RxStep
  <2> QED BY <2>1, <2>2, <2>3 DEF TypeOK, Numbers, Flags, Names
<1>2. windows' = windows
  BY DEF api_rx_disable, RxStep, RxThread, Interrupts
<1>3. ASSUME windows = {} PROVE TxPhase' /\ Delivered'
  BY <1>3 DEF api_rx_disable, Open
<1>4. ASSUME windows = {} PROVE RxPhase'
  BY <1>4 DEF api_rx_disable, Open
<1> QED BY <1>1, <1>2, <1>3, <1>4 DEF IInv, InTime

LEMMA InvNext == IInv /\ [Next]_vars => IInv'
<1> SUFFICES ASSUME IInv, [Next]_vars PROVE IInv'
  OBVIOUS
<1>1. CASE UNCHANGED vars
  BY <1>1 DEF vars, txVars, rxVars, lineVars, wireVars, IInv, TypeOK, InTime, TxPhase,
              Delivered, RxPhase, RxOff, RxEnabling, RxIdle, RxAnswering, RxActivated, RxStopping
<1> QED BY <1>1, ApiTxPreserves, ApiTxPinPreserves, OnReqPinChangePreserves, UartSentPreserves,
           UartTxDonePreserves, UartTxAbortedPreserves, TxTimeoutPreserves,
           ApiTxAbortPreserves, ActivateRxIsrPreserves, ActivateRxThreadPreserves, OnRdyPinChangePreserves, UartRxDisabledPreserves,
           ApiRxBufRspPreserves, ApiRxEnablePreserves, ApiRxDisablePreserves
        DEF Next, ReceiverIsr, ReceiverCall

LEMMA InvHolds == Spec => []IInv
BY InvInit, InvNext, PTL DEF Spec

-----------------------------------------------------------------------------
(* Types, and that a transfer is active only while the driver has its      *)
(* buffer and its timer is stopped, on every link: interrupts, timeouts,   *)
(* aborts and failing calls of uart_tx() included.                         *)
THEOREM TypeCorrect == Spec => []TypeOK
<1>1. IInv => TypeOK
  BY DEF IInv
<1> QED BY <1>1, InvHolds, PTL

(* On a link whose devices react in time, a packet that was reported sent  *)
(* was received as a whole, the receiver is on until the end of every      *)
(* transfer, and the assertions of the driver hold.                        *)
THEOREM LosesNothing == Spec => []OrderlyTransfer
<1>1. ASSUME IInv PROVE OrderlyTransfer
  <2> SUFFICES ASSUME windows = {} PROVE DoneIsReceived /\ ReadyUntilEnd /\ AssertsHold
    BY DEF OrderlyTransfer
  <2>1. TxPhase /\ Delivered /\ RxPhase /\ TypeOK
    BY <1>1 DEF IInv, InTime
  <2>2. DoneIsReceived
    BY <2>1 DEF Delivered, DoneIsReceived
  <2>3. ReadyUntilEnd
    BY <2>1 DEF TxPhase, TypeOK, ReadyUntilEnd
  <2>4. AssertsHold
    BY <2>1 DEF RxPhase, RxOff, RxEnabling, RxIdle, RxAnswering, RxActivated, RxStopping,
                AssertsHold, Interrupts, Open
  <2> QED BY <2>2, <2>3, <2>4
<1> QED BY <1>1, InvHolds, PTL
=============================================================================
