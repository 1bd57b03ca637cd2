SPECIFICATION FairSpec
CONSTANTS
    Jobs = {1, 2}
    NoJob = 0
    Environments = {
        {"download", "reboot", "preempt"},
        {"early", "download", "preempt", "disconnect", "cancel"},
        {"early", "download", "disconnect"},
        {"early", "reorder"},
        {"reboot", "disconnect", "preempt"},
        {"reboot", "download", "disconnect"},
        {"download", "disconnect", "cancel", "session", "publish"},
        {"download", "reboot", "preempt", "payload", "location", "publish", "subscribe", "start"},
        {"early", "download", "reboot", "preempt", "payload", "location", "duplicate",
         "publish", "subscribe", "start"},
        {"early", "disconnect", "reboot", "preempt", "payload", "location", "duplicate",
         "publish", "subscribe", "start"}}
    MAX_VERSION = 3
    MAX_QUEUE = 3
INVARIANTS TypeOK OneUpdateAtATime ImageBehindSuccess DoneIsReported
PROPERTIES UsesFota JobsEnd
CHECK_DEADLOCK FALSE
