SPECIFICATION Spec
CONSTANTS
    MODE = "PTX"
    PROTOCOL = "ESB_DPL"
    TXMODE = "AUTO"
    SELECTIVE_AUTO_ACK = TRUE
    TX_FIFO_SIZE = 1
    RX_FIFO_SIZE = 1
    PIPE_COUNT = 1
    PID_MAX = 1
    UINT_MAX = 2
    RetransmitCounts = {0}
    Data = {d1}
    NoData = NoData
    LongData = {dlong}
    NoAckChoices = {TRUE, FALSE}
    AirPackets <- MCPackets
    Addrs = {a0}
    DefaultAddr = a0
    Channels = {1}
    Contexts = {"thread"}
    AppCalls = {"esb_write_payload", "esb_read_rx_payload", "esb_pop_tx", "esb_flush_tx", "esb_flush_rx", "esb_start_tx", "esb_start_rx", "esb_stop_rx", "esb_suspend", "esb_disable", "esb_init", "esb_set_retransmit_count"}
    IdleCalls = {}
INVARIANTS NoFlagForgotten
CHECK_DEADLOCK TRUE
