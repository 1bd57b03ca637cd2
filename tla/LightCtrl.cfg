SPECIFICATION FairSpec
CONSTANTS
    Configs <- MCConfigs
    DefaultConfig <- MCDefault
    Times = {1}
    Delays = {0, 1}
    STORE_TIMEOUT = 1
    TIME_MANUAL = 0
    REG_INT = 1
    OCCUPANCY_MODE = FALSE
    OnPowerUp = {"OFF", "ON", "RESTORE"}
    UINT32_MAX = 2
INVARIANTS TypeOK WaitsForTimer  LitIsPublished
PROPERTIES SensorsObeyMode ImplementsMachine EndsInStandby
