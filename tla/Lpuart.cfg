SPECIFICATION FairSpec
CONSTANTS
    PACKETS = 3
    Links = {{}, {"latency"}, {"latency", "stale", "preempt", "rx_disable"}}
INVARIANTS TypeOK OrderlyTransfer
PROPERTIES SendReported
CHECK_DEADLOCK TRUE
