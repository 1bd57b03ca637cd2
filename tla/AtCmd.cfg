SPECIFICATION FairSpec
CONSTANTS
    Callers = {1, 2}
    Socket = 0
    None = 9
    QUEUE_LEN = 1
    MAX_CALLS = 3
    Environments = {{"notify", "write"}, {"chain", "notify"}, {"stray"}, {"alike"}, {"read"},
                    {"down", "noopen"}, {"dead"}, {"short"}}
INVARIANTS TypeOK OwnResponse OneAtATime
PROPERTIES CallsReturn
CHECK_DEADLOCK FALSE
