SPECIFICATION ServiceSpec
CONSTANTS
    Apps = {a1, a2}
    Services = {"dns", "bgcp", "client"}
    Slots = {1, 2}
    Queries <- MCQueries
    Fill = {0, 99}
    Hostname <- MCHostname
    QUERY_SIZE = 6
    MAX_CALLS = 3
INVARIANT ConfOwned
INVARIANT BitBacked
INVARIANT DnsAnswersHost
PROPERTY StopEnds
CHECK_DEADLOCK FALSE
