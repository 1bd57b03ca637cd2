SPECIFICATION FairSpec
CONSTANTS
    File = {"app", "app2", "patch", "other"}
    Type <- MCType
    Size <- MCSize
    SLOT_SIZE = 3
    SCRATCH_SIZE = 3
    IMG_BLOCK = 2
    DIRTY_IMAGE = 9
    Faults = {"flash", "settings", "boot_request", "modem", "refused", "erase", "flash_open", "stale", "connect", "send", "recv", "server_close", "bad_answer", "drop", "reboot"}
    PROTO = "TLS"
    BUF_SIZE = 4
    FRAG_SIZE = 2
    FragOverrides = {0, 1}
    MAX_REQS = 2
    FOTA_SOCKET_RETRIES = 1
    Devices = {{"app", "app2"}, {"patch"}, {"other"}}
    StartInCallback = FALSE
INVARIANTS TypeOK 
PROPERTIES  UpdateReported
CHECK_DEADLOCK TRUE
