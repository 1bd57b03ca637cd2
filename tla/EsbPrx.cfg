SPECIFICATION FairSpec
CONSTANTS
    MODE = "PRX"
    PROTOCOL = "ESB_DPL"
    TXMODE = "AUTO"
    SELECTIVE_AUTO_ACK = TRUE
    TX_FIFO_SIZE = 1
    RX_FIFO_SIZE = 1
    PIPE_COUNT = 2
    PID_MAX = 1
    UINT_MAX = 2
    RetransmitCounts = {1}
    Data = {d1}
    NoData = NoData
    LongData = {dlong}
    NoAckChoices = {FALSE, TRUE}
    AirPackets <- MCPackets
    Addrs = {a0}
    DefaultAddr = a0
    Channels = {1}
    Contexts = {"thread"}
    AppCalls = {"esb_write_payload", "esb_read_rx_payload", "esb_start_rx", "esb_flush_rx"}
    IdleCalls = {}
INVARIANTS FifoCoherent RadioMatchesState
PROPERTIES FlagsReported
CHECK_DEADLOCK TRUE
