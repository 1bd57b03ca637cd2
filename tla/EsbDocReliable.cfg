SPECIFICATION LinkSpec
CONSTANTS
    MODE = "PTX"
    PROTOCOL = "ESB_DPL"
    TXMODE = "AUTO"
    SELECTIVE_AUTO_ACK = FALSE
    TX_FIFO_SIZE = 2
    RX_FIFO_SIZE = 2
    PIPE_COUNT = 1
    PID_MAX = 3
    UINT_MAX = 3
    RetransmitCounts = {1}
    Data = {d1}
    NoData = NoData
    LongData = {}
    NoAckChoices = {FALSE}
    AirPackets <- MCNoPackets
    Addrs = {a0}
    DefaultAddr = a0
    Channels = {1}
    Contexts = {"thread"}
    AppCalls = {"esb_write_payload"}
    PrxAppCalls = {"esb_read_rx_payload"}
    PrxIdleCalls = {"esb_start_rx"}
    MaxWrites = 3
    IdleCalls = {}
PROPERTIES ReliableChannel
CHECK_DEADLOCK FALSE
