----------------------------- MODULE EsbProofs -----------------------------
(***************************************************************************)
(* Theorems about one Enhanced ShockBurst device, for every configuration, *)
(* FIFO length, number of pipes and identifier range.                      *)
(***************************************************************************)
EXTENDS Esb, TLAPS

(* The rings: the results of the three FIFO operations are FIFOs. *)
LEMMA NextIndexType ==
    ASSUME NEW size \in Nat \ {0}, NEW i \in 0 .. (size - 1)
    PROVE  NextIndex(i, size) \in 0 .. (size - 1)
BY DEF NextIndex

LEMMA CounterType ==
    ASSUME NEW n \in 0 .. UINT_MAX
    PROVE  Inc(n) \in 0 .. UINT_MAX /\ Dec(n) \in 0 .. UINT_MAX
BY SizeAssumption DEF Inc, Dec

LEMMA FifoTypes ==
    ASSUME NEW size \in Nat \ {0}, NEW f \in Fifo(size), NEW p \in Payload
    PROVE  /\ FifoPush(f, size, p) \in Fifo(size)
           /\ FifoPop(f, size) \in Fifo(size)
           /\ FifoReset(f) \in Fifo(size)
           /\ FifoFront(f) \in Payload
<1>1. /\ f.slot \in [0 .. (size - 1) -> Payload]
      /\ f.front \in 0 .. (size - 1) /\ f.back \in 0 .. (size - 1)
      /\ f.count \in 0 .. UINT_MAX
  BY DEF Fifo
<1>2. /\ NextIndex(f.front, size) \in 0 .. (size - 1)
      /\ NextIndex(f.back, size) \in 0 .. (size - 1)
      /\ Inc(f.count) \in 0 .. UINT_MAX /\ Dec(f.count) \in 0 .. UINT_MAX
  BY <1>1, NextIndexType, CounterType
<1>3. [f.slot EXCEPT ![f.back] = p] \in [0 .. (size - 1) -> Payload]
  BY <1>1
<1>4. FifoPush(f, size, p) \in Fifo(size)
  BY <1>1, <1>2, <1>3 DEF FifoPush, Fifo
<1>5. FifoPop(f, size) \in Fifo(size)
  BY <1>1, <1>2 DEF FifoPop, Fifo
<1>6. FifoReset(f) \in Fifo(size)
  BY <1>1, SizeAssumption DEF FifoReset, Fifo
<1>7. FifoFront(f) \in Payload
  BY <1>1 DEF FifoFront
<1> QED BY <1>4, <1>5, <1>6, <1>7

(* Payloads and the values computed from them. *)
LEMMA ModType ==
    ASSUME NEW a \in Int, NEW n \in Nat
    PROVE  a % (n + 1) \in 0 .. n
BY SMT

LEMMA PidTypes ==
    ASSUME NEW pid \in Pids
    PROVE  /\ NextPid(pid) \in Pids
           /\ (pid + PID_MAX) % (PID_MAX + 1) \in Pids
<1>1. pid \in Int /\ PID_MAX \in Nat /\ pid + 1 \in Int /\ pid + PID_MAX \in Int
  BY SizeAssumption DEF Pids
<1> QED BY <1>1, ModType DEF NextPid, Pids

LEMMA PayloadTypes ==
    ASSUME NEW p \in Payload
    PROVE  /\ p.pipe \in Pipes /\ p.pid \in Pids /\ p.noack \in BOOLEAN
           /\ p.data \in Contents
           /\ Wire(p) \in Payload
           /\ RxPid(p) \in Pids
           /\ Crc(p) \in Pids \X BOOLEAN \X Contents
           /\ \A q \in Pids : [p EXCEPT !.pid = q] \in Payload
           /\ \A i \in Pipes : [p EXCEPT !.pipe = i] \in Payload
           /\ \A d \in Contents : [p EXCEPT !.data = d] \in Payload
<1>1. p.pipe \in Pipes /\ p.pid \in Pids /\ p.noack \in BOOLEAN /\ p.data \in Contents
  BY DEF Payload
<1>2. Wire(p) \in Payload
  BY DEF Wire, Payload
<1>3. RxPid(p) \in Pids
  BY <1>1, SizeAssumption DEF RxPid, Pids
<1>4. Crc(p) \in Pids \X BOOLEAN \X Contents
  BY <1>1 DEF Crc
<1>5. \A q \in Pids : [p EXCEPT !.pid = q] \in Payload
  BY DEF Payload
<1>6. \A i \in Pipes : [p EXCEPT !.pipe = i] \in Payload
  BY DEF Payload
<1>7. \A d \in Contents : [p EXCEPT !.data = d] \in Payload
  BY DEF Payload
<1> QED BY <1>1, <1>2, <1>3, <1>4, <1>5, <1>6, <1>7

LEMMA ZeroTypes == ZeroPayload \in Payload /\ ZeroPipeInfo \in PipeInfo
BY SizeAssumption DEF ZeroPayload, Payload, Contents, ZeroPipeInfo, PipeInfo, Pipes, Pids

-----------------------------------------------------------------------------
(* Type correctness: what each step assigns has the type of its variable. *)
LEMMA StartTxType ==
    ASSUME TypeOK, NEW f \in Fifo(TX_FIFO_SIZE), NEW now \in {"off", "tx", "rx"},
           start_tx_transaction(f, now)
    PROVE  /\ esb_state' \in EsbState
           /\ tx_payload_buffer' \in Payload
           /\ retransmits_remaining' \in 0 .. UINT_MAX
           /\ last_tx_attempts' \in 0 .. UINT_MAX
           /\ tx_count' \in Nat
           /\ on_radio_disabled' \in Handlers
           /\ radio' \in {"off", "tx", "rx"}
           /\ shorts' \in {"none", "RXEN", "TXEN"}
           /\ radio_addr' \in Addr
<1> DEFINE p == FifoFront(f)
<1>1. p \in Payload /\ Wire(p) \in Payload /\ p.pipe \in Pipes
  BY SizeAssumption, FifoTypes, PayloadTypes, ZeroTypes
<1>2. StartTx(p, now)
  BY DEF start_tx_transaction
<1>3. 1 \in 0 .. UINT_MAX /\ retransmit_count \in 0 .. UINT_MAX /\ 0 \in Nat
  BY SizeAssumption DEF TypeOK
<1>4. [radio_addr EXCEPT !.channel = esb_addr.channel, !.pipes = {p.pipe}] \in Addr
  BY <1>1 DEF TypeOK, Addr
<1>5. radio' \in {"off", "tx", "rx"}
  BY <1>2 DEF StartTx, Enabled
<1> HIDE DEF p
<1> QED BY <1>1, <1>2, <1>3, <1>4, <1>5 DEF StartTx, TypeOK, EsbState, Handlers

LEMMA AfterShortType == AfterShort \in {"off", "tx", "rx"}
BY DEF AfterShort

LEMMA GoIdleType ==
    ASSUME TypeOK, GoIdle
    PROVE  /\ esb_state' \in EsbState /\ radio' \in {"off", "tx", "rx"}
           /\ shorts' \in {"none", "RXEN", "TXEN"} /\ on_radio_disabled' \in Handlers
           /\ radio_addr' \in Addr /\ tx_payload_buffer' \in Payload /\ tx_count' \in Nat
BY AfterShortType DEF GoIdle, TypeOK, EsbState

LEMMA RemoveLastType ==
    ASSUME TypeOK
    PROVE  tx_fifo_remove_last(tx_fifo) \in Fifo(TX_FIFO_SIZE)
BY SizeAssumption, FifoTypes, ZeroTypes DEF TypeOK, tx_fifo_remove_last

LEMMA TxNoackType ==
    ASSUME TypeOK, on_radio_disabled_tx_noack, PtxFrame
    PROVE  TypeOK'
<1> DEFINE f == tx_fifo_remove_last(tx_fifo)
<1>1. f \in Fifo(TX_FIFO_SIZE) /\ AfterShort \in {"off", "tx", "rx"}
  BY RemoveLastType, AfterShortType
<1>2. CASE GoIdle /\ UNCHANGED <<retransmits_remaining, last_tx_attempts>>
  BY <1>1, <1>2, GoIdleType
     DEF on_radio_disabled_tx_noack, PtxFrame, RadioFrame, TypeOK, SetFlags, Flags
<1>3. CASE start_tx_transaction(f, AfterShort)
  BY <1>1, <1>3, StartTxType
     DEF on_radio_disabled_tx_noack, PtxFrame, RadioFrame, TypeOK, SetFlags, Flags
<1> QED BY <1>2, <1>3 DEF on_radio_disabled_tx_noack

LEMMA TxType ==
    ASSUME TypeOK, on_radio_disabled_tx, PtxFrame
    PROVE  TypeOK'
BY AfterShortType
   DEF on_radio_disabled_tx, ListenForAck, PtxFrame, RadioFrame, fifoVars, irqVars, TypeOK,
       EsbState, Handlers

LEMMA AckedAttemptsType ==
    ASSUME TypeOK
    PROVE  AckedAttempts \in 0 .. UINT_MAX
<1>1. retransmit_count - retransmits_remaining + 1 \in Int /\ UINT_MAX \in Nat
  BY SizeAssumption DEF TypeOK
<1> QED BY <1>1, ModType DEF AckedAttempts

LEMMA RxPushType ==
    ASSUME TypeOK, NEW p \in Payload
    PROVE  rx_fifo_push_rfbuf(p) \in Fifo(RX_FIFO_SIZE)
<1>1. [p EXCEPT !.pid = RxPid(p)] \in Payload
  BY PayloadTypes
<1> QED BY <1>1, FifoTypes, SizeAssumption DEF TypeOK, rx_fifo_push_rfbuf

LEMMA TxAckedType ==
    ASSUME TypeOK, NEW p \in Payload, tx_acked(p), PtxFrame
    PROVE  TypeOK'
<1> DEFINE f == tx_fifo_remove_last(tx_fifo)
           q == [p EXCEPT !.pipe = tx_payload_buffer.pipe]
<1>1. f \in Fifo(TX_FIFO_SIZE) /\ AfterShort \in {"off", "tx", "rx"}
  BY RemoveLastType, AfterShortType
<1>2. rx_fifo_push_rfbuf(q) \in Fifo(RX_FIFO_SIZE)
  BY RxPushType, PayloadTypes DEF TypeOK
<1>3. rx_fifo' \in Fifo(RX_FIFO_SIZE)
  BY <1>2 DEF tx_acked, TypeOK
<1>4. tx_fifo' \in Fifo(TX_FIFO_SIZE) /\ ppi' \subseteq {"RX_TIMEOUT", "TX_START"}
  BY <1>1 DEF tx_acked
<1>5. interrupt_flags' \subseteq Flags /\ evt_pending' \in BOOLEAN /\ dropped' \in BOOLEAN
  BY DEF tx_acked, SetFlags, TypeOK, Flags
<1>6. \/ GoIdle /\ last_tx_attempts' = AckedAttempts /\ UNCHANGED retransmits_remaining
      \/ start_tx_transaction(f, AfterShort)
  BY DEF tx_acked
<1>7. CASE GoIdle /\ last_tx_attempts' = AckedAttempts /\ UNCHANGED retransmits_remaining
  BY <1>3, <1>4, <1>5, <1>7, GoIdleType, AckedAttemptsType DEF PtxFrame, RadioFrame, TypeOK
<1>8. CASE start_tx_transaction(f, AfterShort)
  BY <1>1, <1>3, <1>4, <1>5, <1>8, StartTxType DEF PtxFrame, RadioFrame, TypeOK
<1> QED BY <1>6, <1>7, <1>8

LEMMA TxGivenUpType ==
    ASSUME TypeOK, tx_given_up, PtxFrame
    PROVE  TypeOK'
<1>1. retransmit_count \in 0 .. UINT_MAX
  BY SizeAssumption DEF TypeOK
<1>2. Inc(retransmit_count) \in 0 .. UINT_MAX /\ Dec(retransmits_remaining) \in 0 .. UINT_MAX
  BY <1>1, CounterType DEF TypeOK
<1> QED BY <1>2, GoIdleType
        DEF tx_given_up, PtxFrame, RadioFrame, fifoVars, SetFlags, Flags, TypeOK

LEMMA TxRetransmitType ==
    ASSUME TypeOK, tx_retransmit, PtxFrame
    PROVE  TypeOK'
<1>1. Dec(retransmits_remaining) \in 0 .. UINT_MAX
  BY CounterType DEF TypeOK
<1> QED BY <1>1, AfterShortType
        DEF tx_retransmit, CountRetry, PtxFrame, RadioFrame, fifoVars, irqVars, TypeOK, EsbState,
            Handlers

LEMMA RxDiscardType ==
    ASSUME TypeOK, rx_discard, PrxFrame
    PROVE  TypeOK'
BY DEF rx_discard, clear_events_restart_rx, PrxFrame, RadioFrame, fifoVars, irqVars, TypeOK

LEMMA DplTxFifoType ==
    ASSUME TypeOK, NEW p, NEW retransmit
    PROVE  DplTxFifo(p, retransmit) \in Fifo(TX_FIFO_SIZE)
BY SizeAssumption, FifoTypes, ZeroTypes DEF TypeOK, DplTxFifo

LEMMA RxPacketType ==
    ASSUME TypeOK, NEW p \in Payload, rx_packet(p), PrxFrame
    PROVE  TypeOK'
<1> DEFINE dpl == (~SELECTIVE_AUTO_ACK \/ (PROTOCOL = "ESB_DPL" /\ ~p.noack))
                  /\ PROTOCOL = "ESB_DPL"
           f == IF dpl THEN DplTxFifo(p, IsRetransmit(p)) ELSE tx_fifo
           info == [crc |-> Crc(p), pid |-> RxPid(p),
                    ack_payload |-> IF dpl THEN AckWithPayload(p)
                                           ELSE rx_pipe_info[p.pipe].ack_payload]
           d == IF dpl /\ AckWithPayload(p) THEN FifoFront(f).data ELSE NoData
<1>1. f \in Fifo(TX_FIFO_SIZE)
  BY DplTxFifoType DEF TypeOK
<1>2. d \in Contents
  <2>1. FifoFront(f) \in Payload
    BY <1>1, FifoTypes, SizeAssumption
  <2> QED BY <2>1, PayloadTypes DEF Contents
<1>3. tx_payload_buffer' \in Payload
  <2>1. [p EXCEPT !.data = d] \in Payload
    BY <1>2, PayloadTypes
  <2> QED BY <2>1 DEF rx_packet, clear_events_restart_rx, TypeOK
<1>4. rx_pipe_info' \in [Pipes -> PipeInfo]
  <2>1. /\ p.pipe \in Pipes /\ RxPid(p) \in Pids
        /\ Crc(p) \in Pids \X BOOLEAN \X Contents
    BY PayloadTypes
  <2>2. rx_pipe_info[p.pipe].ack_payload \in BOOLEAN
    BY <2>1 DEF TypeOK, PipeInfo
  <2>3. AckWithPayload(p) \in BOOLEAN
    BY DEF AckWithPayload
  <2>4. info \in PipeInfo
    BY <2>1, <2>2, <2>3 DEF PipeInfo
  <2>5. rx_pipe_info' = [rx_pipe_info EXCEPT ![p.pipe] = info]
    BY <2>1 DEF rx_packet, TypeOK
  <2> QED BY <2>1, <2>4, <2>5 DEF TypeOK
<1>5. tx_fifo' \in Fifo(TX_FIFO_SIZE)
  BY <1>1 DEF rx_packet
<1>6. rx_fifo' \in Fifo(RX_FIFO_SIZE)
  BY RxPushType DEF rx_packet, TypeOK
<1>7. interrupt_flags' \subseteq Flags /\ evt_pending' \in BOOLEAN /\ dropped' \in BOOLEAN
  BY DEF rx_packet, RxReport, TypeOK, Flags
<1>8. /\ esb_state' \in EsbState /\ on_radio_disabled' \in Handlers
      /\ radio' \in {"off", "tx", "rx"} /\ shorts' \in {"none", "RXEN", "TXEN"}
  BY AfterShortType DEF rx_packet, clear_events_restart_rx, TypeOK, EsbState, Handlers
<1> QED BY <1>3, <1>4, <1>5, <1>6, <1>7, <1>8 DEF PrxFrame, RadioFrame, TypeOK

LEMMA RadioType ==
    ASSUME TypeOK, Radio
    PROVE  TypeOK'
<1>1. ASSUME AfterAny PROVE TypeOK'
  <2>1. CASE on_radio_disabled_rx_ack /\ PrxFrame
    BY <2>1, AfterShortType
       DEF on_radio_disabled_rx_ack, ListenAgain, PrxFrame, RadioFrame, fifoVars, irqVars, TypeOK,
           EsbState, Handlers
  <2>2. CASE radio_masked /\ PrxFrame /\ UNCHANGED rx_pipe_info
    BY <2>2, AfterShortType DEF radio_masked, PrxFrame, RadioFrame, fifoVars, irqVars, TypeOK
  <2> QED BY <1>1, <2>1, <2>2, TxNoackType, TxType DEF AfterAny
<1>2. ASSUME NEW p \in Payload, AfterPacket(p) PROVE TypeOK'
  BY <1>2, TxAckedType, RxPacketType, RxDiscardType DEF AfterPacket
<1>3. ASSUME AfterCorrupt PROVE TypeOK'
  BY <1>3, TxGivenUpType, TxRetransmitType, RxDiscardType DEF AfterCorrupt
<1>4. CASE TxDone
  BY <1>1, <1>4 DEF TxDone
<1>5. CASE TxDoneStale
  BY <1>2, <1>3, <1>5, DataAssumption DEF TxDoneStale
<1>6. CASE \E p \in AirPackets : RxDone(p)
  BY <1>1, <1>2, <1>6, DataAssumption DEF RxDone
<1>7. CASE RxCorrupt
  BY <1>1, <1>3, <1>7 DEF RxCorrupt
<1>8. CASE RxTimeout
  BY <1>8, TxGivenUpType, TxRetransmitType DEF RxTimeout
<1>9. CASE TxStart
  BY <1>9 DEF TxStart, fifoVars, pidVars, txVars, irqVars, cfgVars, TypeOK
<1> QED BY <1>4, <1>5, <1>6, <1>7, <1>8, <1>9 DEF Radio

LEMMA EventType ==
    ASSUME TypeOK, Event
    PROVE  TypeOK'
<1> DEFINE EvtSet == [pc : {"off", "entered", "callback"}, tx_attempts : 0 .. UINT_MAX,
                      interrupts : SUBSET Flags]
<1> USE DEF radioVars, fifoVars, pidVars, txVars, cfgVars, TypeOK
<1>1. CASE EvtEnter
  <2>1. evt' \in EvtSet
    BY <1>1 DEF EvtEnter
  <2> QED BY <1>1, <2>1 DEF EvtEnter
<1>2. CASE get_and_clear_irqs
  <2>1. evt' \in EvtSet
    BY <1>2 DEF get_and_clear_irqs
  <2> QED BY <1>2, <2>1 DEF get_and_clear_irqs
<1>3. CASE event_handler
  <2>1. evt' \in EvtSet
    BY <1>3 DEF event_handler
  <2> QED BY <1>3, <2>1 DEF event_handler, irqVars
<1>4. CASE EvtReturn
  <2>1. evt' \in EvtSet
    BY <1>4, SizeAssumption DEF EvtReturn, NoEvt
  <2> QED BY <1>4, <2>1 DEF EvtReturn, irqVars
<1> QED BY <1>1, <1>2, <1>3, <1>4 DEF Event

(* A call moves to another point of its code. *)
LEMMA GotoType ==
    ASSUME TypeOK, NEW c \in Contexts, NEW op \in CallOps, NEW p \in Payload, Goto(c, op, p)
    PROVE  call' \in [Contexts -> [op : CallOps, payload : Payload]]
BY DEF TypeOK, Goto

LEMMA WrittenType == Written \subseteq Payload
BY DataAssumption, SizeAssumption DEF Written, Payload, Contents, Pids

LEMMA QueuesType ==
    ASSUME TypeOK, NEW c \in Contexts, Queues(c)
    PROVE  TypeOK'
<1> USE ZeroTypes, SizeAssumption
        DEF radioVars, fifoVars, pidVars, txVars, irqVars, cfgVars, CallOps
<1>1. CASE \E p \in Written : esb_write_payload(c, p)
  BY <1>1, WrittenType, GotoType DEF esb_write_payload, TypeOK
<1>2. CASE write_push(c)
  <2> DEFINE p == call[c].payload
             pid == NextPid(pids[p.pipe])
  <2>1. p \in Payload /\ p.pipe \in Pipes
    BY PayloadTypes DEF TypeOK
  <2>2. pid \in Pids
    BY <2>1, PidTypes DEF TypeOK
  <2>3. [p EXCEPT !.pid = pid] \in Payload
    BY <2>1, <2>2, PayloadTypes
  <2>4. tx_fifo' \in Fifo(TX_FIFO_SIZE)
    BY <1>2, <2>3, FifoTypes DEF write_push, TypeOK
  <2>5. pids' \in [Pipes -> Pids]
    BY <1>2, <2>1, <2>2 DEF write_push, TypeOK
  <2> QED BY <1>2, <2>4, <2>5, GotoType DEF write_push, TypeOK
<1>3. CASE write_start(c)
  <2>1. call' \in [Contexts -> [op : CallOps, payload : Payload]]
    BY <1>3, GotoType DEF write_start
  <2>2. CASE start_tx_transaction(tx_fifo, radio) /\ StartFrame
    BY <2>1, <2>2, StartTxType DEF StartFrame, TypeOK
  <2> QED BY <1>3, <2>1, <2>2 DEF write_start, TypeOK
<1>4. CASE esb_read_rx_payload(c)
  BY <1>4, GotoType DEF esb_read_rx_payload, TypeOK
<1>5. CASE read_pop(c)
  BY <1>5, GotoType, FifoTypes DEF read_pop, TypeOK
<1>6. CASE esb_pop_tx(c)
  BY <1>6, GotoType DEF esb_pop_tx, TypeOK
<1>7. CASE pop_tx_locked(c)
  <2>1. tx_fifo' \in Fifo(TX_FIFO_SIZE)
    <3>1. /\ tx_fifo.slot \in [0 .. (TX_FIFO_SIZE - 1) -> Payload]
          /\ tx_fifo.front \in 0 .. (TX_FIFO_SIZE - 1) /\ tx_fifo.back \in 0 .. (TX_FIFO_SIZE - 1)
          /\ tx_fifo.count \in 0 .. UINT_MAX
      BY DEF TypeOK, Fifo
    <3>2. NextIndex(tx_fifo.back, TX_FIFO_SIZE) \in 0 .. (TX_FIFO_SIZE - 1)
          /\ Dec(tx_fifo.count) \in 0 .. UINT_MAX
      BY <3>1, NextIndexType, CounterType
    <3> QED BY <1>7, <3>1, <3>2 DEF pop_tx_locked, Fifo
  <2> QED BY <1>7, <2>1, GotoType DEF pop_tx_locked, TypeOK
<1>8. CASE esb_flush_tx(c)
  BY <1>8, FifoTypes DEF esb_flush_tx, TypeOK
<1>9. CASE esb_flush_rx(c)
  BY <1>9, FifoTypes DEF esb_flush_rx, TypeOK
<1> QED BY <1>1, <1>2, <1>3, <1>4, <1>5, <1>6, <1>7, <1>8, <1>9 DEF Queues

LEMMA ControlType ==
    ASSUME TypeOK, NEW c \in Contexts, Control(c)
    PROVE  TypeOK'
<1> USE ZeroTypes, SizeAssumption, DataAssumption
        DEF radioVars, fifoVars, pidVars, txVars, irqVars, cfgVars, CallOps, EsbState, Handlers
<1>1. CASE esb_start_tx(c)
  BY <1>1, StartTxType DEF esb_start_tx, StartFrame, TypeOK
<1>2. CASE esb_start_rx(c)
  <2>1. radio_addr' \in Addr
    BY <1>2 DEF esb_start_rx, TypeOK, Addr
  <2>2. radio' \in {"off", "tx", "rx"}
    BY <1>2 DEF esb_start_rx, TypeOK, Enabled
  <2> QED BY <1>2, <2>1, <2>2 DEF esb_start_rx, StartFrame, TypeOK
<1>3. CASE esb_stop_rx(c)
  BY <1>3, GotoType DEF esb_stop_rx, TypeOK
<1>4. CASE stop_rx_disable(c)
  BY <1>4, GotoType, AfterShortType DEF stop_rx_disable, TypeOK
<1>5. CASE esb_suspend(c)
  BY <1>5 DEF esb_suspend, TypeOK
<1>6. ASSUME reset_fifos, ForgetPipes
      PROVE  /\ tx_fifo' \in Fifo(TX_FIFO_SIZE) /\ rx_fifo' \in Fifo(RX_FIFO_SIZE)
             /\ pids' \in [Pipes -> Pids] /\ rx_pipe_info' \in [Pipes -> PipeInfo]
  <2>1. 0 \in Pids
    BY DEF Pids
  <2> QED BY <1>6, <2>1, FifoTypes DEF reset_fifos, ForgetPipes, TypeOK
<1>7. CASE esb_disable(c)
  BY <1>6, <1>7 DEF esb_disable, TypeOK
<1>8. CASE \E rc \in RetransmitCounts : esb_init(c, rc)
  <2>1. [i \in Pipes |-> DefaultAddr] \in [Pipes -> Addrs] /\ esb_addr.length \in Addrs
    BY DEF TypeOK, Addr
  <2>2. [radio_addr EXCEPT !.base0 = DefaultAddr, !.base1 = DefaultAddr,
             !.prefixes = [i \in Pipes |-> DefaultAddr], !.length = esb_addr.length] \in Addr
    BY <2>1 DEF TypeOK, Addr
  <2>3. radio_addr' \in Addr
    BY <1>8, <2>2 DEF esb_init
  <2> QED BY <1>6, <1>8, <2>3 DEF esb_init, TypeOK
<1>9. CASE \E rc \in RetransmitCounts : esb_set_retransmit_count(c, rc)
  BY <1>9 DEF esb_set_retransmit_count, SetterFrame, TypeOK
<1> QED BY <1>1, <1>2, <1>3, <1>4, <1>5, <1>7, <1>8, <1>9 DEF Control

LEMMA SettersType ==
    ASSUME TypeOK, NEW c \in Contexts, Setters(c)
    PROVE  TypeOK'
<1> USE SizeAssumption
        DEF radioVars, fifoVars, pidVars, txVars, irqVars, SetterFrame, AddrFrame
<1>1. ASSUME AddrFrame, esb_addr' \in Addr, radio_addr' \in Addr PROVE TypeOK'
  BY <1>1 DEF TypeOK
<1>2. ASSUME NEW a \in Addrs, esb_set_address_length(c, a) PROVE TypeOK'
  BY <1>1, <1>2 DEF esb_set_address_length, TypeOK, Addr
<1>3. ASSUME NEW a \in Addrs, esb_set_base_address_0(c, a) PROVE TypeOK'
  BY <1>1, <1>3 DEF esb_set_base_address_0, TypeOK, Addr
<1>4. ASSUME NEW a \in Addrs, esb_set_base_address_1(c, a) PROVE TypeOK'
  BY <1>1, <1>4 DEF esb_set_base_address_1, TypeOK, Addr
<1>5. ASSUME NEW a \in Addrs, NEW n \in 0 .. PIPE_COUNT, esb_set_prefixes(c, n, a) PROVE TypeOK'
  <2> DEFINE prefixes == [i \in Pipes |-> IF i < n THEN a ELSE esb_addr.prefixes[i]]
  <2>1. prefixes \in [Pipes -> Addrs]
    BY DEF TypeOK, Addr
  <2>2. 0 .. (n - 1) \in SUBSET Pipes
    BY DEF Pipes
  <2>3. [esb_addr EXCEPT !.prefixes = prefixes, !.pipes = 0 .. (n - 1)] \in Addr
    BY <2>1, <2>2 DEF TypeOK, Addr
  <2>4. [radio_addr EXCEPT !.prefixes = prefixes] \in Addr
    BY <2>1 DEF TypeOK, Addr
  <2> QED BY <1>1, <1>5, <2>3, <2>4 DEF esb_set_prefixes
<1>6. ASSUME NEW a \in Addrs, NEW i \in Pipes, esb_update_prefix(c, i, a) PROVE TypeOK'
  <2> DEFINE prefixes == [esb_addr.prefixes EXCEPT ![i] = a]
  <2>1. prefixes \in [Pipes -> Addrs]
    BY DEF TypeOK, Addr
  <2>2. [esb_addr EXCEPT !.prefixes = prefixes] \in Addr
        /\ [radio_addr EXCEPT !.prefixes = prefixes] \in Addr
    BY <2>1 DEF TypeOK, Addr
  <2> QED BY <1>1, <1>6, <2>2 DEF esb_update_prefix
<1>7. ASSUME NEW enabled \in SUBSET Pipes, esb_enable_pipes(c, enabled) PROVE TypeOK'
  BY <1>1, <1>7 DEF esb_enable_pipes, TypeOK, Addr
<1>8. ASSUME NEW ch \in Channels, esb_set_rf_channel(c, ch) PROVE TypeOK'
  BY <1>1, <1>8 DEF esb_set_rf_channel, TypeOK, Addr
<1>9. ASSUME NEW i \in Pipes, esb_reuse_pid(c, i) PROVE TypeOK'
  <2>1. pids' = [pids EXCEPT ![i] = (pids[i] + PID_MAX) % (PID_MAX + 1)]
    BY <1>9 DEF esb_reuse_pid, TypeOK
  <2>2. (pids[i] + PID_MAX) % (PID_MAX + 1) \in Pids
    BY PidTypes DEF TypeOK
  <2>3. pids' \in [Pipes -> Pids]
    BY <2>1, <2>2 DEF TypeOK
  <2> QED BY <1>9, <2>3 DEF esb_reuse_pid, TypeOK
<1> QED BY <1>2, <1>3, <1>4, <1>5, <1>6, <1>7, <1>8, <1>9 DEF Setters

LEMMA InitType == Init => TypeOK
<1> SUFFICES ASSUME Init PROVE TypeOK
  OBVIOUS
<1>1. 0 \in Pids /\ 0 \in 0 .. UINT_MAX
  BY SizeAssumption DEF Pids
<1>2. tx_fifo \in Fifo(TX_FIFO_SIZE) /\ rx_fifo \in Fifo(RX_FIFO_SIZE)
  BY <1>1, SizeAssumption, ZeroTypes DEF Init, Fifo
<1>3. esb_addr \in Addr /\ radio_addr \in Addr
  BY DataAssumption DEF Init, Addr
<1>4. call \in [Contexts -> [op : CallOps, payload : Payload]]
  BY ZeroTypes DEF Init, NoCall, CallOps
<1>5. pids \in [Pipes -> Pids] /\ rx_pipe_info \in [Pipes -> PipeInfo]
      /\ tx_payload_buffer \in Payload
  BY <1>1, ZeroTypes DEF Init
<1>6. evt \in [pc : {"off", "entered", "callback"}, tx_attempts : 0 .. UINT_MAX,
               interrupts : SUBSET Flags]
  BY <1>1 DEF Init, NoEvt
<1> QED BY <1>1, <1>2, <1>3, <1>4, <1>5, <1>6 DEF Init, TypeOK, EsbState, Handlers

LEMMA NextType == TypeOK /\ [Next]_vars => TypeOK'
<1> SUFFICES ASSUME TypeOK, [Next]_vars PROVE TypeOK'
  OBVIOUS
<1>1. CASE UNCHANGED vars
  BY <1>1 DEF vars, radioVars, fifoVars, pidVars, txVars, irqVars, cfgVars, TypeOK
<1> QED BY <1>1, RadioType, EventType, QueuesType, ControlType, SettersType DEF Next, App

(* Every variable of esb.c keeps its type, whatever calls the application   *)
(* makes from its contexts: in particular the indices of the two rings stay *)
(* inside their arrays.                                                     *)
THEOREM TypeCorrect == Spec => []TypeOK
BY InitType, NextType, PTL DEF Spec
-----------------------------------------------------------------------------
(* NoFlagForgotten is inductive as it stands: the RADIO interrupt makes the *)
(* event interrupt pending with every flag it sets but one, the TX_SUCCESS  *)
(* of an acknowledgment payload, which AckPayloadDone only allows together  *)
(* with a new packet: either that packet goes into the RX FIFO and pends    *)
(* the interrupt, or it is over the maximum length and SilentSuccess holds. *)
LEMMA RadioFlags ==
    ASSUME TypeOK, NoFlagForgotten, Radio
    PROVE  NoFlagForgotten'
<1> USE DEF NoFlagForgotten, SilentSuccess
<1>1. ASSUME AfterAny PROVE NoFlagForgotten'
  BY <1>1 DEF AfterAny, on_radio_disabled_tx_noack, on_radio_disabled_tx,
              on_radio_disabled_rx_ack, radio_masked, SetFlags, irqVars, PtxFrame, PrxFrame,
              RadioFrame
<1>2. ASSUME NEW p, rx_packet(p), PrxFrame PROVE NoFlagForgotten'
  <2>1. CASE IsRetransmit(p)
    <3>1. interrupt_flags' = interrupt_flags
      BY <1>2, <2>1 DEF rx_packet, RxReport, AckPayloadDone
    <3> QED BY <1>2, <2>1, <3>1 DEF rx_packet, RxReport, PrxFrame, RadioFrame
  <2>2. CASE ~IsRetransmit(p) /\ ~TooLong(p)
    BY <1>2, <2>2 DEF rx_packet, RxReport, RxAccepts
  <2>3. CASE ~IsRetransmit(p) /\ TooLong(p)
    <3>1. /\ dropped' = TRUE /\ evt' = evt /\ evt_pending' = evt_pending
          /\ interrupt_flags' \in {interrupt_flags, interrupt_flags \cup {"TX_SUCCESS"}}
      BY <1>2, <2>3 DEF rx_packet, RxReport, RxAccepts, PrxFrame, RadioFrame, TypeOK
    <3> QED BY <3>1
  <2> QED BY <2>1, <2>2, <2>3
<1>3. ASSUME NEW p, tx_acked(p), PtxFrame PROVE NoFlagForgotten'
  BY <1>3 DEF tx_acked, SetFlags
<1>4. ASSUME tx_given_up \/ tx_retransmit, PtxFrame PROVE NoFlagForgotten'
  BY <1>4 DEF tx_given_up, tx_retransmit, SetFlags, irqVars, PtxFrame, RadioFrame
<1>5. ASSUME rx_discard, PrxFrame PROVE NoFlagForgotten'
  BY <1>5 DEF rx_discard, irqVars, PrxFrame, RadioFrame
<1>6. ASSUME TxStart PROVE NoFlagForgotten'
  BY <1>6 DEF TxStart, irqVars
<1>7. ASSUME NEW p, AfterPacket(p) PROVE NoFlagForgotten'
  BY <1>2, <1>3, <1>5, <1>7 DEF AfterPacket
<1>8. ASSUME AfterCorrupt PROVE NoFlagForgotten'
  BY <1>4, <1>5, <1>8 DEF AfterCorrupt
<1> QED BY <1>1, <1>4, <1>6, <1>7, <1>8
        DEF Radio, TxDone, TxDoneStale, RxDone, RxCorrupt, RxTimeout

LEMMA EventFlags ==
    ASSUME TypeOK, NoFlagForgotten, Event
    PROVE  NoFlagForgotten'
<1> USE DEF NoFlagForgotten, SilentSuccess, TypeOK
<1>1. CASE EvtEnter
  BY <1>1 DEF EvtEnter
<1>2. CASE get_and_clear_irqs
  BY <1>2 DEF get_and_clear_irqs
<1>3. CASE event_handler
  BY <1>3 DEF event_handler, irqVars
<1>4. CASE EvtReturn
  BY <1>4 DEF EvtReturn, irqVars
<1> QED BY <1>1, <1>2, <1>3, <1>4 DEF Event

LEMMA AppFlags ==
    ASSUME NoFlagForgotten, App
    PROVE  NoFlagForgotten'
<1>1. PICK c \in Contexts : Queues(c) \/ Control(c) \/ Setters(c)
  BY DEF App
<1> USE DEF NoFlagForgotten, SilentSuccess, irqVars, StartFrame
<1>2. CASE Queues(c)
  BY <1>2 DEF Queues, esb_write_payload, write_push, write_start, esb_read_rx_payload, read_pop,
              esb_pop_tx, pop_tx_locked, esb_flush_tx, esb_flush_rx
<1>3. CASE Control(c)
  BY <1>3 DEF Control, esb_start_tx, esb_start_rx, esb_stop_rx, stop_rx_disable, esb_suspend,
              esb_disable, esb_init, esb_set_retransmit_count, SetterFrame
<1>4. CASE Setters(c)
  BY <1>4 DEF Setters, AddrFrame, SetterFrame, esb_set_address_length, esb_set_base_address_0,
              esb_set_base_address_1, esb_set_prefixes, esb_update_prefix, esb_enable_pipes,
              esb_set_rf_channel, esb_reuse_pid
<1> QED BY <1>1, <1>2, <1>3, <1>4

(* No flag of the RADIO interrupt is left without an event interrupt that   *)
(* will deliver it, in any interleaving of the interrupts and the calls and *)
(* with any packets on the air, but for the one TX_SUCCESS that comes with  *)
(* a packet over the maximum length.                                        *)
THEOREM FlagsNeverForgotten == Spec => []NoFlagForgotten
<1>1. Init => NoFlagForgotten
  BY DEF Init, NoFlagForgotten
<1>2. TypeOK /\ NoFlagForgotten /\ [Next]_vars => NoFlagForgotten'
  BY RadioFlags, EventFlags, AppFlags DEF Next, vars, irqVars, NoFlagForgotten, SilentSuccess
<1> QED BY <1>1, <1>2, TypeCorrect, PTL DEF Spec

-----------------------------------------------------------------------------
(* What the application must leave alone for the radio to follow esb_state: *)
(* esb_stop_rx(), and esb_disable() and esb_init() outside the idle state.  *)
RadioDiscipline == AppCalls \cap {"esb_stop_rx", "esb_disable", "esb_init"} = {}

(* RadioMatchesState is inductive once no call is inside esb_stop_rx().     *)
NoStop == \A c \in Contexts : call[c].op # "stop"
RadioInv == RadioMatchesState /\ NoStop

LEMMA RadioInvRadio ==
    ASSUME TypeOK, RadioInv, Radio
    PROVE  RadioInv'
<1> USE DEF RadioInv, RadioMatchesState, RadioOfState, TimersMatchState, NoStop, AfterShort,
            TypeOK, EsbState, Handlers
<1>1. ASSUME radio = "tx", AfterAny PROVE RadioInv'
  <2>1. CASE on_radio_disabled_tx_noack /\ PtxFrame
    BY <1>1, <2>1 DEF on_radio_disabled_tx_noack, GoIdle, start_tx_transaction, StartTx,
       Enabled,
                      PtxFrame, RadioFrame
  <2>2. CASE on_radio_disabled_tx /\ PtxFrame
    BY <1>1, <2>2 DEF on_radio_disabled_tx, ListenForAck, PtxFrame, RadioFrame
  <2>3. CASE on_radio_disabled_rx_ack /\ PrxFrame
    BY <1>1, <2>3 DEF on_radio_disabled_rx_ack, ListenAgain, PrxFrame, RadioFrame
  <2>4. CASE radio_masked
    BY <1>1, <2>4 DEF radio_masked
  <2> QED BY <1>1, <2>1, <2>2, <2>3, <2>4 DEF AfterAny
<1>2. ASSUME radio = "rx" PROVE ~AfterAny
  BY <1>2 DEF AfterAny, on_radio_disabled_tx_noack, on_radio_disabled_tx,
              on_radio_disabled_rx_ack, radio_masked
<1>3. ASSUME radio = "tx" PROVE ~AfterCorrupt /\ \A p : ~AfterPacket(p)
  BY <1>3 DEF AfterCorrupt, AfterPacket, tx_acked, tx_given_up, tx_retransmit, rx_packet,
              rx_discard
<1>4. ASSUME radio = "rx", NEW p, AfterPacket(p) PROVE RadioInv'
  <2>1. CASE tx_acked(p) /\ PtxFrame
    BY <1>4, <2>1 DEF tx_acked, GoIdle, start_tx_transaction, StartTx, Enabled, PtxFrame,
                      RadioFrame
  <2>2. CASE rx_packet(p) /\ PrxFrame
    BY <1>4, <2>2 DEF rx_packet, clear_events_restart_rx, PrxFrame, RadioFrame
  <2>3. CASE rx_discard /\ PrxFrame
    BY <1>4, <2>3 DEF rx_discard, clear_events_restart_rx, PrxFrame, RadioFrame
  <2> QED BY <1>4, <2>1, <2>2, <2>3 DEF AfterPacket
<1>5. ASSUME radio = "rx", tx_given_up \/ tx_retransmit, PtxFrame PROVE RadioInv'
  BY <1>5 DEF tx_given_up, tx_retransmit, GoIdle, PtxFrame, RadioFrame
<1>6. ASSUME radio = "rx", AfterCorrupt PROVE RadioInv'
  BY <1>5, <1>6 DEF AfterCorrupt, rx_discard, clear_events_restart_rx, PrxFrame, RadioFrame
<1>7. CASE TxStart
  BY <1>7 DEF TxStart
<1> QED BY <1>1, <1>2, <1>3, <1>4, <1>5, <1>6, <1>7
        DEF Radio, TxDone, TxDoneStale, RxDone, RxCorrupt, RxTimeout

LEMMA RadioInvApp ==
    ASSUME RadioDiscipline, TypeOK, RadioInv, App
    PROVE  RadioInv'
<1>1. PICK c \in Contexts : Queues(c) \/ Control(c) \/ Setters(c)
  BY DEF App
<1> USE DEF RadioInv, RadioMatchesState, RadioOfState, TimersMatchState, NoStop, TypeOK, EsbState,
            radioVars
<1>2. ASSUME NEW op \in CallOps \ {"stop"}, NEW p, Goto(c, op, p) PROVE NoStop'
  BY <1>2 DEF Goto
<1>3. CASE Queues(c)
  <2>1. CASE write_start(c) /\ AutoStart
    BY <1>2, <2>1 DEF write_start, AutoStart, start_tx_transaction, StartTx, Enabled,
       StartFrame,
                      CallOps
  <2>2. CASE ~(write_start(c) /\ AutoStart)
    <3>1. UNCHANGED <<esb_state, radioVars>>
      BY <1>3, <2>2 DEF Queues, esb_write_payload, write_push, write_start, esb_read_rx_payload,
                   read_pop, esb_pop_tx, pop_tx_locked, esb_flush_tx, esb_flush_rx
    <3>2. NoStop'
      BY <1>2, <1>3 DEF Queues, esb_write_payload, write_push, write_start, esb_read_rx_payload,
                   read_pop, esb_pop_tx, pop_tx_locked, esb_flush_tx, esb_flush_rx, CallOps
    <3> QED BY <3>1, <3>2
  <2> QED BY <2>1, <2>2
<1>4. CASE Control(c)
  <2>1. ~esb_stop_rx(c) /\ ~stop_rx_disable(c)
    BY DEF RadioDiscipline, esb_stop_rx, stop_rx_disable, Calls, At
  <2>2. CASE esb_start_tx(c)
    BY <2>2 DEF esb_start_tx, start_tx_transaction, StartTx, Enabled, StartFrame
  <2>3. CASE esb_start_rx(c)
    BY <2>3 DEF esb_start_rx, Enabled, StartFrame
  <2>4. CASE esb_suspend(c)
    BY <2>4 DEF esb_suspend
  <2>5. CASE esb_disable(c)
    BY <2>5 DEF esb_disable, Calls, RadioDiscipline
  <2>6. CASE \E rc \in RetransmitCounts : esb_init(c, rc)
    BY <2>6 DEF esb_init, Calls, RadioDiscipline
  <2>7. CASE \E rc \in RetransmitCounts : esb_set_retransmit_count(c, rc)
    BY <2>7 DEF esb_set_retransmit_count, SetterFrame
  <2> QED BY <1>4, <2>1, <2>2, <2>3, <2>4, <2>5, <2>6, <2>7 DEF Control
<1>5. CASE Setters(c)
  BY <1>5 DEF Setters, AddrFrame, SetterFrame, esb_set_address_length, esb_set_base_address_0,
              esb_set_base_address_1, esb_set_prefixes, esb_update_prefix, esb_enable_pipes,
              esb_set_rf_channel, esb_reuse_pid
<1> QED BY <1>1, <1>3, <1>4, <1>5

LEMMA RadioInvEvent ==
    ASSUME RadioInv, Event \/ UNCHANGED vars
    PROVE  RadioInv'
BY DEF Event, EvtEnter, get_and_clear_irqs, event_handler, EvtReturn, vars, radioVars, RadioInv,
       RadioMatchesState, RadioOfState, TimersMatchState, NoStop

LEMMA RadioInvHolds == ASSUME RadioDiscipline PROVE Spec => []RadioInv
<1>1. Init => RadioInv
  BY DEF Init, NoCall, RadioInv, RadioMatchesState, RadioOfState, TimersMatchState, NoStop
<1>2. TypeOK /\ RadioInv /\ [Next]_vars => RadioInv'
  BY RadioDiscipline, RadioInvRadio, RadioInvApp, RadioInvEvent DEF Next
<1> QED BY <1>1, <1>2, TypeCorrect, PTL DEF Spec

(* In every busy state the radio, its shortcut, the timers and the function *)
(* that runs next are those of the state, and an idle module leaves the     *)
(* radio alone: esb_state can always be left, unless the application stops  *)
(* the receiver or disables a busy module.                                  *)
THEOREM RadioFollowsState == RadioDiscipline => (Spec => []RadioMatchesState)
<1> SUFFICES ASSUME RadioDiscipline PROVE Spec => []RadioMatchesState
  OBVIOUS
<1>1. RadioInv => RadioMatchesState
  BY DEF RadioInv
<1> QED BY <1>1, RadioInvHolds, PTL

-----------------------------------------------------------------------------
(* What the application must leave alone for the RADIO interrupt to call    *)
(* the function of the state: esb_disable() and esb_init() outside the idle *)
(* state.  Unlike RadioMatchesState this survives esb_stop_rx().            *)
HandlerDiscipline == AppCalls \cap {"esb_disable", "esb_init"} = {}

(* In a busy state the RADIO interrupt calls the function of the state.  In *)
(* the idle state it calls one that stays idle or starts a transaction, or  *)
(* it does not come.                                                        *)
HandlerOfState ==
    /\ esb_state = "IDLE" =>
          \/ on_radio_disabled \in {"none", "tx_noack"}
          \/ on_radio_disabled = "tx_wait_for_ack" /\ radio = "off" /\ ppi = {}
    /\ esb_state = "PTX_TX" => on_radio_disabled = "tx_noack"
    /\ esb_state = "PTX_TX_ACK" => on_radio_disabled = "tx"
    /\ esb_state = "PTX_RX_ACK" => on_radio_disabled = "tx_wait_for_ack" /\ shorts = "none"
    /\ esb_state = "PRX" => on_radio_disabled = "rx"
    /\ esb_state = "PRX_SEND_ACK" => on_radio_disabled = "rx_ack"

(* The state a function finds when the interrupt calls it. *)
LEMMA StateOfHandler ==
    ASSUME TypeOK, HandlerOfState, radio # "off"
    PROVE  /\ on_radio_disabled = "tx_noack" => esb_state \in {"IDLE", "PTX_TX"}
           /\ on_radio_disabled = "tx" => esb_state = "PTX_TX_ACK"
           /\ on_radio_disabled = "tx_wait_for_ack" => esb_state = "PTX_RX_ACK" /\ shorts = "none"
           /\ on_radio_disabled = "rx" => esb_state = "PRX"
           /\ on_radio_disabled = "rx_ack" => esb_state = "PRX_SEND_ACK"
           /\ on_radio_disabled = "none" => esb_state = "IDLE"
BY DEF TypeOK, EsbState, HandlerOfState

LEMMA HandlerRadio ==
    ASSUME TypeOK, HandlerOfState, Radio
    PROVE  HandlerOfState'
<1> USE DEF AfterShort
<1>1. ASSUME NEW p, NEW now, StartTx(p, now) PROVE HandlerOfState'
  BY <1>1 DEF StartTx, HandlerOfState
<1>2. CASE on_radio_disabled_tx_noack
  BY <1>1, <1>2 DEF on_radio_disabled_tx_noack, start_tx_transaction, GoIdle, HandlerOfState
<1>3. CASE on_radio_disabled_tx \/ on_radio_disabled_rx_ack \/ tx_retransmit
  BY <1>3 DEF on_radio_disabled_tx, ListenForAck, on_radio_disabled_rx_ack, tx_retransmit,
              HandlerOfState
<1>4. CASE radio_masked /\ PrxFrame /\ radio # "off"
  BY <1>4, StateOfHandler DEF radio_masked, PrxFrame, HandlerOfState
<1>5. ASSUME (\E p : tx_acked(p)) \/ tx_given_up, radio # "off" PROVE HandlerOfState'
  BY <1>1, <1>5, StateOfHandler DEF tx_acked, tx_given_up, start_tx_transaction, GoIdle,
                                    HandlerOfState
<1>6. ASSUME (\E p : rx_packet(p)) \/ rx_discard, radio # "off" PROVE HandlerOfState'
  <2>1. esb_state = "PRX" /\ on_radio_disabled = "rx"
    BY <1>6, StateOfHandler DEF rx_packet, rx_discard
  <2>2. \/ esb_state' = "PRX_SEND_ACK" /\ on_radio_disabled' = "rx_ack"
        \/ esb_state' = "PRX" /\ on_radio_disabled' = "rx"
    BY <1>6, <2>1 DEF rx_packet, rx_discard, clear_events_restart_rx
  <2> QED BY <2>2 DEF HandlerOfState
<1>7. CASE TxStart
  BY <1>7 DEF TxStart, HandlerOfState
<1> QED BY <1>2, <1>3, <1>4, <1>5, <1>6, <1>7
        DEF Radio, TxDone, TxDoneStale, RxDone, RxCorrupt, RxTimeout, AfterAny, AfterPacket,
            AfterCorrupt

LEMMA HandlerApp ==
    ASSUME HandlerDiscipline, TypeOK, HandlerOfState, App
    PROVE  HandlerOfState'
<1>1. PICK c \in Contexts : Queues(c) \/ Control(c) \/ Setters(c)
  BY DEF App
<1>2. ASSUME UNCHANGED <<esb_state, radioVars>> PROVE HandlerOfState'
  BY <1>2 DEF HandlerOfState, radioVars
<1>3. ASSUME NEW p, NEW now, StartTx(p, now) PROVE HandlerOfState'
  BY <1>3 DEF StartTx, HandlerOfState
<1>4. CASE Queues(c)
  BY <1>2, <1>3, <1>4
     DEF Queues, esb_write_payload, write_push, write_start, start_tx_transaction,
         esb_read_rx_payload, read_pop, esb_pop_tx, pop_tx_locked, esb_flush_tx, esb_flush_rx
<1>5. CASE Control(c)
  <2>1. CASE esb_start_tx(c) \/ esb_start_rx(c)
    BY <1>3, <2>1 DEF esb_start_tx, start_tx_transaction, esb_start_rx, HandlerOfState
  <2>2. CASE esb_stop_rx(c) \/ stop_rx_disable(c)
    BY <2>2 DEF esb_stop_rx, stop_rx_disable, HandlerOfState
  <2>3. CASE esb_suspend(c) \/ esb_disable(c) \/ \E rc \in RetransmitCounts : esb_init(c, rc)
    BY <2>3 DEF esb_suspend, esb_disable, esb_init, Calls, HandlerDiscipline, HandlerOfState
  <2>4. CASE \E rc \in RetransmitCounts : esb_set_retransmit_count(c, rc)
    BY <1>2, <2>4 DEF esb_set_retransmit_count, SetterFrame
  <2> QED BY <1>5, <2>1, <2>2, <2>3, <2>4 DEF Control
<1>6. CASE Setters(c)
  BY <1>2, <1>6
     DEF Setters, AddrFrame, SetterFrame, esb_set_address_length, esb_set_base_address_0,
         esb_set_base_address_1, esb_set_prefixes, esb_update_prefix, esb_enable_pipes,
         esb_set_rf_channel, esb_reuse_pid
<1> QED BY <1>1, <1>4, <1>5, <1>6

LEMMA HandlerHolds == ASSUME HandlerDiscipline PROVE Spec => []HandlerOfState
<1>1. Init => HandlerOfState
  BY DEF Init, HandlerOfState
<1>2. ASSUME HandlerOfState, Event \/ UNCHANGED vars PROVE HandlerOfState'
  BY <1>2 DEF Event, EvtEnter, get_and_clear_irqs, event_handler, EvtReturn, vars, radioVars,
              HandlerOfState
<1>3. TypeOK /\ HandlerOfState /\ [Next]_vars => HandlerOfState'
  BY HandlerDiscipline, HandlerRadio, HandlerApp, <1>2 DEF Next
<1> QED BY <1>1, <1>3, TypeCorrect, PTL DEF Spec

-----------------------------------------------------------------------------
(* A packet goes out once and then at most retransmit_count times more.     *)
(* The count of what is left is exact, so the give-up of tx_wait_for_ack()  *)
(* comes after exactly retransmit_count + 1 transmissions.                  *)
LEMMA AttemptsStart ==
    ASSUME TypeOK, NEW f, NEW now, start_tx_transaction(f, now), UNCHANGED retransmit_count
    PROVE  AttemptsExact'
<1>1. retransmit_count \in Nat /\ UINT_MAX \in Nat
  BY SizeAssumption DEF TypeOK
<1> QED BY <1>1 DEF start_tx_transaction, StartTx, AttemptsExact, Transmitting, TypeOK

LEMMA AttemptsRadio ==
    ASSUME TypeOK, HandlerOfState, AttemptsExact, Radio
    PROVE  AttemptsExact'
<1>1. retransmit_count \in Nat /\ UINT_MAX \in Nat
  BY SizeAssumption DEF TypeOK
<1> USE <1>1
        DEF AttemptsExact, Transmitting, TypeOK, Dec, PtxFrame, PrxFrame, RadioFrame
<1>2. ASSUME GoIdle PROVE AttemptsExact'
  BY <1>2 DEF GoIdle
<1>3. CASE on_radio_disabled_tx_noack /\ PtxFrame
  BY <1>2, <1>3, AttemptsStart DEF on_radio_disabled_tx_noack
<1>4. CASE on_radio_disabled_tx /\ PtxFrame /\ radio # "off"
  BY <1>4, StateOfHandler DEF on_radio_disabled_tx
<1>5. CASE tx_retransmit /\ PtxFrame /\ radio # "off"
  BY <1>5, StateOfHandler DEF tx_retransmit, CountRetry
<1>6. CASE tx_given_up
  BY <1>2, <1>6 DEF tx_given_up
<1>7. CASE (\E p : tx_acked(p)) /\ PtxFrame
  BY <1>2, <1>7, AttemptsStart DEF tx_acked
<1>8. CASE ((\E p : rx_packet(p)) \/ rx_discard) /\ PrxFrame /\ radio # "off"
  <2>1. esb_state = "PRX"
    BY <1>8, StateOfHandler DEF rx_packet, rx_discard
  <2>2. esb_state' \in {"PRX", "PRX_SEND_ACK"}
    BY <1>8, <2>1 DEF rx_packet, rx_discard, clear_events_restart_rx
  <2> QED BY <2>2
<1>9. CASE on_radio_disabled_rx_ack
  BY <1>9 DEF on_radio_disabled_rx_ack
<1>10. CASE (radio_masked /\ PrxFrame) \/ TxStart
  BY <1>10 DEF radio_masked, TxStart, txVars, cfgVars
<1> QED BY <1>3, <1>4, <1>5, <1>6, <1>7, <1>8, <1>9, <1>10
        DEF Radio, TxDone, TxDoneStale, RxDone, RxCorrupt, RxTimeout, AfterAny, AfterPacket,
            AfterCorrupt

LEMMA AttemptsApp ==
    ASSUME TypeOK, AttemptsExact, App
    PROVE  AttemptsExact'
<1>1. PICK c \in Contexts : Queues(c) \/ Control(c) \/ Setters(c)
  BY DEF App
<1> USE DEF txVars, cfgVars, StartFrame
<1>2. ASSUME esb_state' \in {"IDLE", "PRX"} PROVE AttemptsExact'
  BY <1>2 DEF AttemptsExact, Transmitting
<1>3. ASSUME UNCHANGED <<esb_state, tx_count, retransmits_remaining, retransmit_count>>
      PROVE  AttemptsExact'
  BY <1>3 DEF AttemptsExact, Transmitting
<1>4. CASE Queues(c)
  <2>1. CASE write_start(c) /\ AutoStart
    BY <2>1, AttemptsStart DEF write_start
  <2> QED BY <1>3, <1>4, <2>1
          DEF Queues, esb_write_payload, write_push, write_start, esb_read_rx_payload, read_pop,
              esb_pop_tx, pop_tx_locked, esb_flush_tx, esb_flush_rx
<1>5. CASE Control(c)
  <2>1. CASE esb_start_tx(c)
    BY <2>1, AttemptsStart DEF esb_start_tx
  <2>2. CASE esb_start_rx(c)
    BY <1>2, <2>2 DEF esb_start_rx
  <2>3. CASE \E rc \in RetransmitCounts : esb_set_retransmit_count(c, rc)
    BY <1>2, <2>3 DEF esb_set_retransmit_count, IdleGuard, SetterFrame
  <2> QED BY <1>2, <1>3, <1>5, <2>1, <2>2, <2>3
          DEF Control, esb_stop_rx, stop_rx_disable, esb_suspend, esb_disable, esb_init
<1>6. CASE Setters(c)
  BY <1>3, <1>6
     DEF Setters, AddrFrame, SetterFrame, esb_set_address_length, esb_set_base_address_0,
         esb_set_base_address_1, esb_set_prefixes, esb_update_prefix, esb_enable_pipes,
         esb_set_rf_channel, esb_reuse_pid
<1> QED BY <1>1, <1>4, <1>5, <1>6

LEMMA AttemptsEvent ==
    ASSUME AttemptsExact, Event \/ UNCHANGED vars
    PROVE  AttemptsExact'
BY DEF Event, EvtEnter, get_and_clear_irqs, event_handler, EvtReturn, vars, txVars, cfgVars,
       AttemptsExact, Transmitting

(* Every transaction transmits its packet at most retransmit_count + 1      *)
(* times, and retransmits_remaining is always the exact complement of the   *)
(* transmissions made.                                                      *)
THEOREM AttemptsBounded == HandlerDiscipline => (Spec => []AttemptsExact)
<1> SUFFICES ASSUME HandlerDiscipline PROVE Spec => []AttemptsExact
  OBVIOUS
<1>1. Init => AttemptsExact
  BY DEF Init, AttemptsExact, Transmitting
<1>2. TypeOK /\ HandlerOfState /\ AttemptsExact /\ [Next]_vars => AttemptsExact'
  BY AttemptsRadio, AttemptsApp, AttemptsEvent DEF Next
<1> QED BY <1>1, <1>2, TypeCorrect, HandlerHolds, PTL DEF Spec

-----------------------------------------------------------------------------
(* The rings.  One context makes the calls, so that nothing but the RADIO   *)
(* interrupt gets between the check of a call and its locked part, and      *)
(* nobody calls esb_pop_tx().                                               *)
FifoDiscipline ==
    /\ \A c, d \in Contexts : c = d
    /\ "esb_pop_tx" \notin AppCalls \cup IdleCalls

(* What the check of a call found still holds when its locked part runs.    *)
CheckedStillHolds ==
    \A c \in Contexts :
        /\ call[c].op = "write" => tx_fifo.count < TX_FIFO_SIZE
        /\ call[c].op = "read" => rx_fifo.count > 0
        /\ call[c].op # "pop"
FifoInv == FifoCoherent /\ CheckedStillHolds

LEMMA ModSmall ==
    ASSUME NEW size \in Nat \ {0}, NEW x \in 0 .. (size - 1)
    PROVE  x % size = x /\ (x + size) % size = x
BY SMT

(* Pushing into a ring with room, popping from one that is not empty and    *)
(* resetting it keep the ring.                                              *)
LEMMA RingSteps ==
    ASSUME NEW size \in Nat \ {0}, size < UINT_MAX, NEW f \in Fifo(size), NEW p,
           RingOK(f, size)
    PROVE  /\ f.count < size => /\ RingOK(FifoPush(f, size, p), size)
                                /\ FifoPush(f, size, p).count = f.count + 1
           /\ f.count > 0 => /\ RingOK(FifoPop(f, size), size)
                             /\ FifoPop(f, size).count = f.count - 1
           /\ RingOK(FifoReset(f), size)
<1>1. /\ f.front \in 0 .. (size - 1) /\ f.back \in 0 .. (size - 1) /\ f.count \in 0 .. size
      /\ UINT_MAX \in Nat
  BY SizeAssumption DEF Fifo, RingOK
<1>2. f.back = IF f.front + f.count < size THEN f.front + f.count ELSE f.front + f.count - size
  <2>1. CASE f.front + f.count < size
    BY <1>1, <2>1, ModSmall DEF RingOK
  <2>2. CASE f.front + f.count >= size
    <3> DEFINE x == f.front + f.count - size
    <3>1. x \in 0 .. (size - 1) /\ x + size = f.front + f.count
      BY <1>1, <2>2
    <3>2. (x + size) % size = x
      BY <3>1, ModSmall
    <3> QED BY <1>1, <2>2, <3>1, <3>2 DEF RingOK
  <2> QED BY <1>1, <2>1, <2>2
<1>3. ASSUME NEW a \in 0 .. (size - 1), NEW n \in 0 .. size, NEW b \in 0 .. (size - 1),
             b = IF a + n < size THEN a + n ELSE a + n - size
      PROVE  b = (a + n) % size
  <2>1. CASE a + n < size
    BY <1>3, <2>1, ModSmall
  <2>2. CASE a + n >= size
    <3>1. a + n = b + size
      BY <1>3, <2>2
    <3> QED BY <3>1, ModSmall
  <2> QED BY <2>1, <2>2
<1>4. ASSUME f.count < size
      PROVE  RingOK(FifoPush(f, size, p), size) /\ FifoPush(f, size, p).count = f.count + 1
  <2> DEFINE b == NextIndex(f.back, size)
             n == f.count + 1
  <2>1. Inc(f.count) = n /\ n \in 0 .. size
    BY <1>1, <1>4 DEF Inc
  <2>2. b \in 0 .. (size - 1) /\ b = IF f.front + n < size THEN f.front + n ELSE f.front + n - size
    BY <1>1, <1>2, <1>4 DEF NextIndex
  <2>3. b = (f.front + n) % size
    BY <1>1, <1>3, <2>1, <2>2
  <2> QED BY <2>1, <2>3 DEF FifoPush, RingOK
<1>5. ASSUME f.count > 0
      PROVE  RingOK(FifoPop(f, size), size) /\ FifoPop(f, size).count = f.count - 1
  <2> DEFINE a == NextIndex(f.front, size)
             n == f.count - 1
  <2>1. Dec(f.count) = n /\ n \in 0 .. size
    BY <1>1, <1>5 DEF Dec
  <2>2. a \in 0 .. (size - 1) /\ f.back = IF a + n < size THEN a + n ELSE a + n - size
    BY <1>1, <1>2, <1>5 DEF NextIndex
  <2>3. f.back = (a + n) % size
    BY <1>1, <1>3, <2>1, <2>2
  <2> QED BY <1>1, <2>1, <2>3 DEF FifoPop, RingOK
<1>6. RingOK(FifoReset(f), size)
  BY ModSmall DEF FifoReset, RingOK
<1> QED BY <1>4, <1>5, <1>6

(* The RADIO interrupt takes from the TX FIFO and adds to the RX FIFO.      *)
LEMMA FifoInvRadio ==
    ASSUME TypeOK, FifoInv, Radio
    PROVE  FifoInv'
<1> DEFINE Tx(f) == RingOK(f, TX_FIFO_SIZE) /\ f.count <= tx_fifo.count
           Rx(f) == RingOK(f, RX_FIFO_SIZE) /\ f.count >= rx_fifo.count
<1>1. /\ tx_fifo.count \in Nat /\ rx_fifo.count \in Nat
      /\ tx_fifo \in Fifo(TX_FIFO_SIZE) /\ rx_fifo \in Fifo(RX_FIFO_SIZE)
      /\ TX_FIFO_SIZE \in Nat \ {0} /\ RX_FIFO_SIZE \in Nat \ {0}
      /\ TX_FIFO_SIZE < UINT_MAX /\ RX_FIFO_SIZE < UINT_MAX
      /\ RingOK(tx_fifo, TX_FIFO_SIZE) /\ RingOK(rx_fifo, RX_FIFO_SIZE)
  BY SizeAssumption DEF TypeOK, Fifo, FifoInv, FifoCoherent
<1>2. Tx(tx_fifo) /\ Rx(rx_fifo)
  BY <1>1
<1>3. ASSUME tx_fifo.count > 0 PROVE Tx(FifoPop(tx_fifo, TX_FIFO_SIZE))
  BY <1>1, <1>3, RingSteps
<1>4. Tx(tx_fifo_remove_last(tx_fifo))
  BY <1>1, <1>2, <1>3 DEF tx_fifo_remove_last
<1>5. \A p, r : Tx(DplTxFifo(p, r))
  BY <1>2, <1>3 DEF DplTxFifo, AckPayloadDone, AckWithPayload
<1>6. ASSUME NEW p PROVE Rx(rx_fifo_push_rfbuf(p))
  BY <1>1, <1>2, RingSteps DEF RxFull, RxAccepts, rx_fifo_push_rfbuf
<1>7. Tx(tx_fifo') /\ Rx(rx_fifo') /\ UNCHANGED call
  <2> HIDE DEF Tx, Rx
  <2> USE <1>2, <1>4, <1>5, <1>6 DEF fifoVars, PtxFrame, PrxFrame, RadioFrame
  <2>1. ASSUME AfterAny PROVE Tx(tx_fifo') /\ Rx(rx_fifo') /\ UNCHANGED call
    BY <2>1 DEF AfterAny, on_radio_disabled_tx_noack, on_radio_disabled_tx,
                on_radio_disabled_rx_ack, radio_masked
  <2>2. ASSUME NEW p, AfterPacket(p) PROVE Tx(tx_fifo') /\ Rx(rx_fifo') /\ UNCHANGED call
    <3>1. CASE tx_acked(p) /\ PtxFrame
      BY <3>1 DEF tx_acked
    <3>2. CASE rx_packet(p) /\ PrxFrame
      BY <3>2 DEF rx_packet
    <3>3. CASE rx_discard /\ PrxFrame
      BY <3>3 DEF rx_discard
    <3> QED BY <2>2, <3>1, <3>2, <3>3 DEF AfterPacket
  <2>3. ASSUME tx_given_up \/ tx_retransmit, PtxFrame
        PROVE  Tx(tx_fifo') /\ Rx(rx_fifo') /\ UNCHANGED call
    BY <2>3 DEF tx_given_up, tx_retransmit
  <2>4. ASSUME AfterCorrupt PROVE Tx(tx_fifo') /\ Rx(rx_fifo') /\ UNCHANGED call
    BY <2>3, <2>4 DEF AfterCorrupt, rx_discard
  <2>5. ASSUME TxStart PROVE Tx(tx_fifo') /\ Rx(rx_fifo') /\ UNCHANGED call
    BY <2>5 DEF TxStart
  <2> QED BY <2>1, <2>2, <2>3, <2>4, <2>5
          DEF Radio, TxDone, TxDoneStale, RxDone, RxCorrupt, RxTimeout
<1>8. TypeOK'
  BY RadioType
<1>9. tx_fifo'.count \in Nat /\ rx_fifo'.count \in Nat
  BY <1>8, SizeAssumption DEF TypeOK, Fifo
<1> QED BY <1>1, <1>7, <1>9 DEF FifoInv, FifoCoherent, CheckedStillHolds

LEMMA FifoInvApp ==
    ASSUME FifoDiscipline, TypeOK, FifoInv, App
    PROVE  FifoInv'
<1>1. PICK c \in Contexts : Queues(c) \/ Control(c) \/ Setters(c)
  BY DEF App
<1>2. Contexts = {c}
  BY <1>1 DEF FifoDiscipline
<1>3. /\ tx_fifo \in Fifo(TX_FIFO_SIZE) /\ rx_fifo \in Fifo(RX_FIFO_SIZE)
      /\ TX_FIFO_SIZE \in Nat \ {0} /\ RX_FIFO_SIZE \in Nat \ {0}
      /\ TX_FIFO_SIZE < UINT_MAX /\ RX_FIFO_SIZE < UINT_MAX
      /\ tx_fifo.count \in Nat /\ rx_fifo.count \in Nat
      /\ RingOK(tx_fifo, TX_FIFO_SIZE) /\ RingOK(rx_fifo, RX_FIFO_SIZE)
      /\ call[c] \in [op : CallOps, payload : Payload]
      /\ call \in [Contexts -> [op : CallOps, payload : Payload]]
  BY SizeAssumption DEF TypeOK, Fifo, FifoInv, FifoCoherent
<1>4. ASSUME NEW op \in {"none", "start"}, NEW p, Goto(c, op, p), FifoCoherent' PROVE FifoInv'
  BY <1>2, <1>3, <1>4 DEF Goto, FifoInv, CheckedStillHolds
<1>5. ASSUME call[c].op = "none", UNCHANGED call, FifoCoherent' PROVE FifoInv'
  BY <1>2, <1>5 DEF FifoInv, CheckedStillHolds
<1>6. ASSUME UNCHANGED fifoVars PROVE FifoCoherent'
  BY <1>6 DEF FifoInv, FifoCoherent, fifoVars
<1>7. RingOK(FifoReset(tx_fifo), TX_FIFO_SIZE) /\ RingOK(FifoReset(rx_fifo), RX_FIFO_SIZE)
  BY <1>3, RingSteps
<1>8. CASE Queues(c)
  <2>1. CASE \E p \in Written : esb_write_payload(c, p)
    BY <1>2, <1>3, <1>6, <2>1 DEF esb_write_payload, Goto, FifoInv, CheckedStillHolds, fifoVars
  <2>2. CASE write_push(c)
    <3>1. tx_fifo.count < TX_FIFO_SIZE
      BY <1>1, <2>2 DEF write_push, At, FifoInv, CheckedStillHolds
    <3>2. FifoCoherent'
      BY <1>3, <2>2, <3>1, RingSteps DEF write_push, FifoCoherent
    <3> QED BY <1>4, <2>2, <3>2 DEF write_push
  <2>3. CASE write_start(c)
    BY <1>4, <1>6, <2>3 DEF write_start, StartFrame
  <2>4. CASE esb_read_rx_payload(c)
    BY <1>2, <1>3, <1>6, <2>4 DEF esb_read_rx_payload, Goto, FifoInv, CheckedStillHolds,
       fifoVars
  <2>5. CASE read_pop(c)
    <3>1. rx_fifo.count > 0
      BY <1>1, <2>5 DEF read_pop, At, FifoInv, CheckedStillHolds
    <3>2. FifoCoherent'
      BY <1>3, <2>5, <3>1, RingSteps DEF read_pop, FifoCoherent
    <3> QED BY <1>4, <2>5, <3>2 DEF read_pop
  <2>6. ~esb_pop_tx(c) /\ ~pop_tx_locked(c)
    BY <1>1 DEF esb_pop_tx, pop_tx_locked, Calls, At, FifoDiscipline, FifoInv, CheckedStillHolds
  <2>7. CASE esb_flush_tx(c)
    BY <1>3, <1>5, <1>7, <2>7 DEF esb_flush_tx, Calls, FifoCoherent
  <2>8. CASE esb_flush_rx(c)
    BY <1>3, <1>5, <1>7, <2>8 DEF esb_flush_rx, Calls, FifoCoherent
  <2> QED BY <1>8, <2>1, <2>2, <2>3, <2>4, <2>5, <2>6, <2>7, <2>8 DEF Queues
<1>9. CASE Control(c)
  <2>1. ASSUME Goto(c, "stop", ZeroPayload), FifoCoherent' PROVE FifoInv'
    BY <1>2, <1>3, <2>1 DEF Goto, FifoInv, CheckedStillHolds
  <2>2. ASSUME reset_fifos PROVE FifoCoherent'
    BY <1>7, <2>2 DEF reset_fifos, FifoCoherent
  <2>3. CASE esb_start_tx(c) \/ esb_start_rx(c)
    BY <1>5, <1>6, <2>3 DEF esb_start_tx, esb_start_rx, Calls, StartFrame
  <2>4. CASE esb_stop_rx(c)
    BY <1>6, <2>1, <2>4 DEF esb_stop_rx
  <2>5. CASE stop_rx_disable(c)
    BY <1>4, <1>6, <2>5 DEF stop_rx_disable
  <2>6. CASE esb_suspend(c)
    BY <1>5, <1>6, <2>6 DEF esb_suspend, Calls
  <2>7. CASE esb_disable(c) \/ \E rc \in RetransmitCounts : esb_init(c, rc)
    BY <1>5, <2>2, <2>7 DEF esb_disable, esb_init, Calls
  <2>8. CASE \E rc \in RetransmitCounts : esb_set_retransmit_count(c, rc)
    BY <1>5, <1>6, <2>8 DEF esb_set_retransmit_count, IdleGuard, Calls, SetterFrame
  <2> QED BY <1>9, <2>3, <2>4, <2>5, <2>6, <2>7, <2>8 DEF Control
<1>10. CASE Setters(c)
  <2>1. UNCHANGED fifoVars /\ UNCHANGED call /\ call[c].op = "none"
    BY <1>10
       DEF Setters, AddrFrame, SetterFrame, IdleGuard, Calls, esb_set_address_length,
           esb_set_base_address_0, esb_set_base_address_1, esb_set_prefixes, esb_update_prefix,
           esb_enable_pipes, esb_set_rf_channel, esb_reuse_pid
  <2> QED BY <1>5, <1>6, <2>1
<1> QED BY <1>1, <1>8, <1>9, <1>10

LEMMA FifoInvEvent ==
    ASSUME FifoInv, Event \/ UNCHANGED vars
    PROVE  FifoInv'
BY DEF Event, EvtEnter, get_and_clear_irqs, event_handler, EvtReturn, vars, fifoVars, FifoInv,
       FifoCoherent, CheckedStillHolds

LEMMA FifoInvHolds == ASSUME FifoDiscipline PROVE Spec => []FifoInv
<1>1. Init => FifoInv
  <2>1. 0 % TX_FIFO_SIZE = 0 /\ 0 % RX_FIFO_SIZE = 0
    BY SizeAssumption, ModSmall
  <2> QED BY <2>1, SizeAssumption
          DEF Init, NoCall, FifoInv, FifoCoherent, RingOK, CheckedStillHolds
<1>2. TypeOK /\ FifoInv /\ [Next]_vars => FifoInv'
  BY FifoDiscipline, FifoInvRadio, FifoInvApp, FifoInvEvent DEF Next
<1> QED BY <1>1, <1>2, TypeCorrect, PTL DEF Spec

(* The rings of the two FIFOs stay coherent, for every FIFO length: no      *)
(* count wraps around, and no payload is overwritten before it left, when   *)
(* one context makes the calls and esb_pop_tx() is not used.                *)
THEOREM FifosCoherent == FifoDiscipline => (Spec => []FifoCoherent)
<1> SUFFICES ASSUME FifoDiscipline PROVE Spec => []FifoCoherent
  OBVIOUS
<1>1. FifoInv => FifoCoherent
  BY DEF FifoInv
<1> QED BY <1>1, FifoInvHolds, PTL

-----------------------------------------------------------------------------
(* The transmission is that of the front of the TX FIFO when both           *)
(* disciplines are kept, transmissions are started by the application and   *)
(* the TX FIFO is flushed only while the module is idle.                    *)
SendDiscipline ==
    /\ RadioDiscipline
    /\ FifoDiscipline
    /\ TXMODE # "AUTO"
    /\ "esb_flush_tx" \notin AppCalls

(* A push into a ring that is not full leaves the front of a ring that is   *)
(* not empty alone.                                                         *)
LEMMA PushKeepsFront ==
    ASSUME NEW size \in Nat \ {0}, NEW f \in Fifo(size), NEW p, RingOK(f, size),
           f.count > 0, f.count < size
    PROVE  FifoFront(FifoPush(f, size, p)) = FifoFront(f)
<1>1. /\ f.front \in 0 .. (size - 1) /\ f.count \in 1 .. (size - 1)
      /\ f.slot \in [0 .. (size - 1) -> Payload]
  BY DEF Fifo
<1>2. f.back # f.front
  <2>1. CASE f.front + f.count < size
    BY <1>1, <2>1, ModSmall DEF RingOK
  <2>2. CASE f.front + f.count >= size
    <3> DEFINE x == f.front + f.count - size
    <3>1. x \in 0 .. (size - 1) /\ x + size = f.front + f.count /\ x # f.front
      BY <1>1, <2>2
    <3>2. (x + size) % size = x
      BY <3>1, ModSmall
    <3> QED BY <3>1, <3>2 DEF RingOK
  <2> QED BY <1>1, <2>1, <2>2
<1> QED BY <1>1, <1>2 DEF FifoPush, FifoFront

LEMMA InFlightRadio ==
    ASSUME TypeOK, RadioInv, FifoInv, InFlightIsFront, Radio
    PROVE  InFlightIsFront'
<1>1. tx_fifo_remove_last(tx_fifo) \in Fifo(TX_FIFO_SIZE)
  BY RemoveLastType
<1>2. tx_fifo_remove_last(tx_fifo).count \in Nat
  BY <1>1, SizeAssumption DEF Fifo
<1> USE DEF InFlightIsFront, Transmitting, RadioInv, RadioMatchesState, RadioOfState, TypeOK,
            EsbState, PtxFrame, PrxFrame, RadioFrame, fifoVars
<1>3. ASSUME GoIdle PROVE InFlightIsFront'
  BY <1>3 DEF GoIdle
<1>4. ASSUME NEW f, f.count \in Nat, f.count # 0, tx_fifo' = f, NEW now,
             start_tx_transaction(f, now)
      PROVE  InFlightIsFront'
  BY <1>4 DEF start_tx_transaction, StartTx
<1>5. CASE on_radio_disabled_tx_noack
  BY <1>2, <1>3, <1>4, <1>5 DEF on_radio_disabled_tx_noack
<1>6. CASE (\E p : tx_acked(p))
  BY <1>2, <1>3, <1>4, <1>6 DEF tx_acked
<1>7. CASE on_radio_disabled_tx /\ radio \in {"tx", "rx"}
  BY <1>7 DEF on_radio_disabled_tx
<1>8. CASE tx_retransmit /\ radio \in {"tx", "rx"}
  BY <1>8 DEF tx_retransmit
<1>9. CASE tx_given_up
  BY <1>3, <1>9 DEF tx_given_up
<1>10. CASE ((\E p : rx_packet(p)) \/ rx_discard) /\ radio \in {"tx", "rx"}
  <2>1. esb_state = "PRX"
    BY <1>10 DEF rx_packet, rx_discard
  <2>2. esb_state' \in {"PRX", "PRX_SEND_ACK"}
    BY <1>10, <2>1 DEF rx_packet, rx_discard, clear_events_restart_rx
  <2> QED BY <2>2
<1>11. CASE on_radio_disabled_rx_ack
  BY <1>11 DEF on_radio_disabled_rx_ack
<1>12. CASE radio_masked \/ TxStart
  BY <1>12 DEF radio_masked, TxStart, txVars
<1> QED BY <1>5, <1>6, <1>7, <1>8, <1>9, <1>10, <1>11, <1>12
        DEF Radio, TxDone, TxDoneStale, RxDone, RxCorrupt, RxTimeout, AfterAny, AfterPacket,
            AfterCorrupt

LEMMA InFlightApp ==
    ASSUME SendDiscipline, TypeOK, FifoInv, InFlightIsFront, App
    PROVE  InFlightIsFront'
<1>1. PICK c \in Contexts : Queues(c) \/ Control(c) \/ Setters(c)
  BY DEF App
<1>2. tx_fifo.count \in Nat /\ tx_fifo \in Fifo(TX_FIFO_SIZE) /\ TX_FIFO_SIZE \in Nat \ {0}
      /\ TX_FIFO_SIZE < UINT_MAX
  BY SizeAssumption DEF TypeOK, Fifo
<1> USE DEF txVars, fifoVars, StartFrame
<1>3. ASSUME esb_state' \in {"IDLE", "PRX"} PROVE InFlightIsFront'
  BY <1>3 DEF InFlightIsFront, Transmitting
<1>4. ASSUME UNCHANGED <<esb_state, tx_payload_buffer, tx_fifo>> PROVE InFlightIsFront'
  BY <1>4 DEF InFlightIsFront, Transmitting
<1>5. CASE Queues(c)
  <2>1. CASE write_push(c)
    <3> DEFINE p == [call[c].payload EXCEPT !.pid = NextPid(pids[call[c].payload.pipe])]
    <3>1. RingOK(tx_fifo, TX_FIFO_SIZE) /\ tx_fifo.count < TX_FIFO_SIZE
      BY <1>1, <2>1 DEF write_push, At, FifoInv, FifoCoherent, CheckedStillHolds
    <3>2. tx_fifo' = FifoPush(tx_fifo, TX_FIFO_SIZE, p)
      BY <2>1 DEF write_push
    <3>3. tx_fifo'.count = tx_fifo.count + 1
      BY <1>2, <3>1, <3>2, RingSteps
    <3>4. tx_fifo.count > 0 => FifoFront(tx_fifo') = FifoFront(tx_fifo)
      BY <1>2, <3>1, <3>2, PushKeepsFront
    <3>5. UNCHANGED <<esb_state, tx_payload_buffer>>
      BY <2>1 DEF write_push
    <3>6. CASE Transmitting
      <4>1. tx_fifo.count > 0 /\ tx_payload_buffer = Wire(FifoFront(tx_fifo))
        BY <3>6 DEF InFlightIsFront
      <4>2. tx_fifo'.count > 0 /\ FifoFront(tx_fifo') = FifoFront(tx_fifo)
        BY <1>2, <3>3, <3>4, <4>1
      <4>3. FifoFront(tx_fifo)' = FifoFront(tx_fifo)
        BY <4>2 DEF FifoFront
      <4> QED BY <3>5, <4>1, <4>2, <4>3 DEF InFlightIsFront, Wire
    <3>7. CASE ~Transmitting
      BY <3>5, <3>7 DEF InFlightIsFront, Transmitting
    <3> QED BY <3>6, <3>7
  <2>2. CASE esb_flush_tx(c)
    BY <1>3, <2>2 DEF esb_flush_tx, Calls, SendDiscipline
  <2>3. ~esb_pop_tx(c) /\ ~pop_tx_locked(c)
    BY <1>1 DEF esb_pop_tx, pop_tx_locked, Calls, At, SendDiscipline, FifoDiscipline, FifoInv,
                CheckedStillHolds
  <2> QED BY <1>4, <1>5, <2>1, <2>2, <2>3
          DEF Queues, esb_write_payload, write_start, AutoStart, SendDiscipline,
              esb_read_rx_payload, read_pop, esb_flush_rx
<1>6. CASE Control(c)
  <2>1. CASE esb_start_tx(c)
    BY <1>2, <2>1
       DEF esb_start_tx, start_tx_transaction, StartTx, InFlightIsFront, FifoFront, Wire
  <2>2. CASE esb_start_rx(c)
    BY <1>3, <2>2 DEF esb_start_rx
  <2> QED BY <1>3, <1>4, <1>6, <2>1, <2>2
          DEF Control, esb_stop_rx, stop_rx_disable, esb_suspend, esb_disable, esb_init,
              esb_set_retransmit_count, SetterFrame
<1>7. CASE Setters(c)
  BY <1>4, <1>7
     DEF Setters, AddrFrame, SetterFrame, esb_set_address_length, esb_set_base_address_0,
         esb_set_base_address_1, esb_set_prefixes, esb_update_prefix, esb_enable_pipes,
         esb_set_rf_channel, esb_reuse_pid
<1> QED BY <1>1, <1>5, <1>6, <1>7

LEMMA InFlightEvent ==
    ASSUME InFlightIsFront, Event \/ UNCHANGED vars
    PROVE  InFlightIsFront'
BY DEF Event, EvtEnter, get_and_clear_irqs, event_handler, EvtReturn, vars, txVars, fifoVars,
       InFlightIsFront, Transmitting, FifoFront, Wire

(* While a transaction runs the radio sends the packet at the front of the  *)
(* TX FIFO, so the packet removed on the acknowledgment is the one that was *)
(* acknowledged; for every FIFO length and every number of retransmissions. *)
THEOREM InFlightFront == SendDiscipline => (Spec => []InFlightIsFront)
<1> SUFFICES ASSUME SendDiscipline PROVE Spec => []InFlightIsFront
  OBVIOUS
<1>1. RadioDiscipline /\ FifoDiscipline
  BY DEF SendDiscipline
<1>2. (Spec => []RadioInv) /\ (Spec => []FifoInv)
  BY <1>1, RadioInvHolds, FifoInvHolds
<1>3. Init => InFlightIsFront
  BY DEF Init, InFlightIsFront, Transmitting
<1>4. TypeOK /\ RadioInv /\ FifoInv /\ InFlightIsFront /\ [Next]_vars => InFlightIsFront'
  BY InFlightRadio, InFlightApp, InFlightEvent DEF Next
<1> QED BY <1>2, <1>3, <1>4, TypeCorrect, PTL DEF Spec

-----------------------------------------------------------------------------
(* What the application must leave alone for the radio to have the right    *)
(* addresses: esb_init(), which gives the registers the default addresses   *)
(* and lets esb_addr be.  esb_stop_rx() may be called.                      *)
AddrDiscipline == HandlerDiscipline /\ "esb_init" \notin IdleCalls

LEMMA AddrStart ==
    ASSUME TypeOK, RadioAddressed, NEW p, NEW now, StartTx(p, now), UNCHANGED esb_addr
    PROVE  RadioAddressed'
<1>1. Wire(p).pipe = p.pipe
  BY DEF Wire
<1>2. /\ radio_addr'.channel = esb_addr.channel /\ radio_addr'.pipes = {p.pipe}
      /\ \A f \in {"base0", "base1", "prefixes", "length"} : radio_addr'[f] = radio_addr[f]
  BY DEF StartTx, TypeOK, Addr
<1>3. tx_payload_buffer' = Wire(p) /\ esb_state' \in {"PTX_TX", "PTX_TX_ACK"}
  BY DEF StartTx
<1> QED BY <1>1, <1>2, <1>3 DEF RadioAddressed, Transmitting

LEMMA AddrRadio ==
    ASSUME TypeOK, HandlerOfState, RadioAddressed, Radio
    PROVE  RadioAddressed'
<1> USE DEF PtxFrame, PrxFrame, RadioFrame, RadioAddressed, Transmitting
<1>1. ASSUME GoIdle, PtxFrame PROVE RadioAddressed'
  BY <1>1 DEF GoIdle
<1>2. CASE on_radio_disabled_tx_noack /\ PtxFrame
  BY <1>1, <1>2, AddrStart DEF on_radio_disabled_tx_noack, start_tx_transaction
<1>3. CASE (on_radio_disabled_tx \/ tx_retransmit) /\ PtxFrame /\ radio # "off"
  BY <1>3, StateOfHandler DEF on_radio_disabled_tx, tx_retransmit
<1>4. CASE on_radio_disabled_rx_ack /\ PrxFrame /\ radio # "off"
  BY <1>4, StateOfHandler DEF on_radio_disabled_rx_ack
<1>5. CASE radio_masked /\ PrxFrame
  BY <1>5 DEF radio_masked
<1>6. ASSUME NEW p, tx_acked(p), PtxFrame PROVE RadioAddressed'
  BY <1>1, <1>6, AddrStart DEF tx_acked, start_tx_transaction
<1>7. CASE tx_given_up /\ PtxFrame
  BY <1>1, <1>7 DEF tx_given_up
<1>8. ASSUME (\E p : rx_packet(p)) \/ rx_discard, PrxFrame, radio # "off" PROVE RadioAddressed'
  <2>1. esb_state = "PRX"
    BY <1>8, StateOfHandler DEF rx_packet, rx_discard
  <2>2. esb_state' \in {"PRX", "PRX_SEND_ACK"}
    BY <1>8, <2>1 DEF rx_packet, rx_discard, clear_events_restart_rx
  <2> QED BY <1>8, <2>1, <2>2
<1>9. CASE TxStart
  BY <1>9 DEF TxStart, txVars, cfgVars
<1> QED BY <1>2, <1>3, <1>4, <1>5, <1>6, <1>7, <1>8, <1>9
        DEF Radio, TxDone, TxDoneStale, RxDone, RxCorrupt, RxTimeout, AfterAny, AfterPacket,
            AfterCorrupt

LEMMA AddrSetters ==
    ASSUME TypeOK, RadioAddressed, NEW c \in Contexts, Setters(c)
    PROVE  RadioAddressed'
<1> USE DEF AddrFrame, SetterFrame, IdleGuard
<1>1. esb_state = "IDLE" /\ UNCHANGED <<esb_state, radioVars>>
  BY DEF Setters, esb_set_address_length, esb_set_base_address_0, esb_set_base_address_1,
         esb_set_prefixes, esb_update_prefix, esb_enable_pipes, esb_set_rf_channel, esb_reuse_pid
<1>3. \A f \in {"base0", "base1", "prefixes", "length"} : radio_addr[f] = esb_addr[f]
  BY DEF RadioAddressed
<1>4. \A f \in {"base0", "base1", "prefixes", "length"} : radio_addr'[f] = esb_addr'[f]
  <2> USE DEF TypeOK, Addr
  <2>1. CASE \E a \in Addrs : esb_set_address_length(c, a)
    BY <1>3, <2>1 DEF esb_set_address_length
  <2>2. CASE \E a \in Addrs : esb_set_base_address_0(c, a)
    BY <1>3, <2>2 DEF esb_set_base_address_0
  <2>3. CASE \E a \in Addrs : esb_set_base_address_1(c, a)
    BY <1>3, <2>3 DEF esb_set_base_address_1
  <2>4. CASE \E a \in Addrs, n \in 0 .. PIPE_COUNT : esb_set_prefixes(c, n, a)
    <3>1. PICK prefixes :
              /\ \E n \in 0 .. PIPE_COUNT :
                    esb_addr' = [esb_addr EXCEPT !.prefixes = prefixes, !.pipes = 0 .. (n - 1)]
              /\ radio_addr' = [radio_addr EXCEPT !.prefixes = prefixes]
      BY <2>4, Zenon DEF esb_set_prefixes
    <3> QED BY <1>3, <3>1
  <2>5. CASE \E a \in Addrs, i \in Pipes : esb_update_prefix(c, i, a)
    BY <1>3, <2>5 DEF esb_update_prefix
  <2>6. CASE \E enabled \in SUBSET Pipes : esb_enable_pipes(c, enabled)
    BY <1>3, <2>6 DEF esb_enable_pipes
  <2>7. CASE \E ch \in Channels : esb_set_rf_channel(c, ch)
    BY <1>3, <2>7 DEF esb_set_rf_channel
  <2>8. CASE \E i \in Pipes : esb_reuse_pid(c, i)
    BY <1>3, <2>8 DEF esb_reuse_pid
  <2> QED BY <2>1, <2>2, <2>3, <2>4, <2>5, <2>6, <2>7, <2>8 DEF Setters
<1> QED BY <1>1, <1>4 DEF RadioAddressed, Transmitting

LEMMA AddrApp ==
    ASSUME AddrDiscipline, TypeOK, RadioAddressed, App
    PROVE  RadioAddressed'
<1>1. PICK c \in Contexts : Queues(c) \/ Control(c) \/ Setters(c)
  BY DEF App
<1> USE DEF txVars, cfgVars, radioVars, StartFrame
<1>2. ASSUME UNCHANGED <<esb_state, radioVars, tx_payload_buffer, esb_addr, radio_addr>>
      PROVE  RadioAddressed'
  BY <1>2 DEF RadioAddressed, Transmitting
<1>3. CASE Queues(c)
  <2>1. CASE write_start(c) /\ AutoStart
    BY <2>1, AddrStart DEF write_start, start_tx_transaction
  <2> QED BY <1>2, <1>3, <2>1
          DEF Queues, esb_write_payload, write_push, write_start, esb_read_rx_payload, read_pop,
              esb_pop_tx, pop_tx_locked, esb_flush_tx, esb_flush_rx
<1>4. CASE Control(c)
  <2>1. CASE esb_start_tx(c)
    BY <2>1, AddrStart DEF esb_start_tx, start_tx_transaction
  <2>2. CASE esb_start_rx(c)
    BY <2>2 DEF esb_start_rx, RadioAddressed, Transmitting, TypeOK, Addr
  <2>3. CASE esb_stop_rx(c)
    BY <2>3 DEF esb_stop_rx, RadioAddressed, Transmitting
  <2>4. CASE stop_rx_disable(c)
    BY <2>4 DEF stop_rx_disable, RadioAddressed, Transmitting
  <2>5. CASE esb_suspend(c) \/ esb_disable(c)
    BY <2>5 DEF esb_suspend, esb_disable, RadioAddressed, Transmitting
  <2>6. ~ \E rc \in RetransmitCounts : esb_init(c, rc)
    BY DEF esb_init, Calls, AddrDiscipline, HandlerDiscipline
  <2>7. CASE \E rc \in RetransmitCounts : esb_set_retransmit_count(c, rc)
    BY <1>2, <2>7 DEF esb_set_retransmit_count, SetterFrame
  <2> QED BY <1>4, <2>1, <2>2, <2>3, <2>4, <2>5, <2>6, <2>7 DEF Control
<1> QED BY <1>1, <1>3, <1>4, AddrSetters

(* A busy radio works with the channel and the pipes the application set    *)
(* and with the addresses of esb_addr, whichever contexts call the API and  *)
(* also when the receiver is stopped in the middle of an interrupt.         *)
THEOREM AddressesFollow == AddrDiscipline => (Spec => []RadioAddressed)
<1> SUFFICES ASSUME AddrDiscipline PROVE Spec => []RadioAddressed
  OBVIOUS
<1>1. Init => RadioAddressed
  BY DEF Init, RadioAddressed, Transmitting
<1>2. TypeOK /\ HandlerOfState /\ RadioAddressed /\ [Next]_vars => RadioAddressed'
  <2> SUFFICES ASSUME RadioAddressed, Event \/ UNCHANGED vars PROVE RadioAddressed'
    BY AddrRadio, AddrApp DEF Next
  <2> QED BY DEF Event, EvtEnter, get_and_clear_irqs, event_handler, EvtReturn, vars, txVars,
                 cfgVars, radioVars, RadioAddressed, Transmitting
<1>3. Spec => []HandlerOfState
  BY HandlerHolds DEF AddrDiscipline
<1> QED BY <1>1, <1>2, <1>3, TypeCorrect, PTL DEF Spec
=============================================================================
