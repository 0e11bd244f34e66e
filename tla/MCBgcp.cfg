CONSTANTS
    Base <- MCBase
    QUEUE_BUF_SIZE = 16
    Table <- MCTable
    Start <- MCStart
    Requests <- MCRequests
    Noise <- MCNoise
    MaxEntries = 3
    MaxRounds = 1
SPECIFICATION FairSpec
INVARIANTS InRange Understood Mirrored
PROPERTY ExchangeEnds
