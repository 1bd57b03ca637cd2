SPECIFICATION Spec
CONSTANTS
    MODE = "PTX"
    PROTOCOL = "ESB"
    TXMODE = "MANUAL"
    SELECTIVE_AUTO_ACK = TRUE
    TX_FIFO_SIZE = 1
    RX_FIFO_SIZE = 1
    PIPE_COUNT = 1
    PID_MAX = 0
    UINT_MAX = 3
    RetransmitCounts = {0, 1}
    Data = {d1}
    NoData = NoData
    LongData = {}
    NoAckChoices = {FALSE}
    AirPackets <- MCAcks
    Addrs = {a0, a1}
    DefaultAddr = a0
    Channels = {1, 2}
    Contexts = {"thread"}
    AppCalls = {"esb_write_payload", "esb_start_tx", "esb_set_address_length", "esb_set_base_address_0", "esb_set_base_address_1", "esb_set_prefixes", "esb_update_prefix", "esb_enable_pipes", "esb_set_rf_channel", "esb_set_retransmit_count", "esb_reuse_pid", "esb_start_rx", "esb_stop_rx"}
    IdleCalls = {}
INVARIANTS RadioAddressed
CHECK_DEADLOCK TRUE
