SPECIFICATION Spec
CONSTANTS
    BYTE = 8
    INT_MAX = 2047
    NESTING_LIMIT = 4
    BUFFER_SIZE = 16
    JSON_FIELD_NUM = 25
    JSON_HANDLERS_NUM = 15
    JSON_MAX_SIZE = 512
    NullFields = {"info"}
    Bodies <- MCBodies
    AppValues = {5}
    Humidities = {55}
    BadRegistrations = {16}
    Documents <- MCDocuments
    Cuts = {6}
    MAX_FAIL = 8
    MAX_REQUESTS = 3
    MAX_CALLS = 2
    MAX_SENSE = 1
INVARIANT GetTellsLastPost
INVARIANT PostFootprint
INVARIANT NoLeak
INVARIANT RoundTrip
INVARIANT PrintersAgree
CHECK_DEADLOCK FALSE
