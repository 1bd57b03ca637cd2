SPECIFICATION Spec
CONSTANTS
    MODE = "PTX"
    PROTOCOL = "ESB_DPL"
    TXMODE = "MANUAL_START"
    SELECTIVE_AUTO_ACK = TRUE
    TX_FIFO_SIZE = 2
    RX_FIFO_SIZE = 1
    PIPE_COUNT = 1
    PID_MAX = 1
    UINT_MAX = 3
    RetransmitCounts = {0, 1}
    Data = {d1}
    NoData = NoData
    LongData = {dlong}
    NoAckChoices = {TRUE, FALSE}
    AirPackets <- MCAcks
    Addrs = {a0}
    DefaultAddr = a0
    Channels = {1}
    Contexts = {"thread"}
    AppCalls = {"esb_write_payload", "esb_read_rx_payload", "esb_flush_rx", "esb_start_tx", "esb_set_retransmit_count", "esb_suspend"}
    IdleCalls = {"esb_flush_tx", "esb_disable", "esb_init"}
INVARIANTS TypeOK FifoCoherent RadioMatchesState InFlightIsFront AttemptsExact
CHECK_DEADLOCK TRUE
