SPECIFICATION FairSpec
CONSTANTS
    MODE = "PTX"
    PROTOCOL = "ESB_DPL"
    TXMODE = "AUTO"
    SELECTIVE_AUTO_ACK = TRUE
    TX_FIFO_SIZE = 1
    RX_FIFO_SIZE = 1
    PIPE_COUNT = 1
    PID_MAX = 0
    UINT_MAX = 2
    RetransmitCounts = {0, 1}
    Data = {d1}
    NoData = NoData
    LongData = {dlong}
    NoAckChoices = {TRUE, FALSE}
    AirPackets <- MCAcks
    Addrs = {a0}
    DefaultAddr = a0
    Channels = {1}
    Contexts = {"handler", "thread"}
    AppCalls = {"esb_write_payload", "esb_start_tx", "esb_flush_tx"}
    IdleCalls = {}
INVARIANTS RadioMatchesState
PROPERTIES TransactionReported
CHECK_DEADLOCK TRUE
