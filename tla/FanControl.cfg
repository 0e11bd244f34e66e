SPECIFICATION FairSpec
CONSTANTS
    Samples = {0, 2, 5}
    MAX_SCALE_VAL = 5
    AVERAGE_SAMPLING_S = 2
    MAX_HUM_RATE_COUNT = 2
    ACCEL_THRESHOLD = 2
    RISE_THRESHOLD = 1
    FAN_MIN_RUNTIME_S = 2
    FAN_MAX_RUNTIME_S = 7
INVARIANTS
    RunIsBounded
PROPERTIES
    WindowVerdict
    RunEnds
