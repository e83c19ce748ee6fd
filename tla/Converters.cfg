SPECIFICATION FairSpec
CONSTANTS
    Streams <- MCStreams
    StreamIds = {1}
    MaxStreams = 2
    MaxKills = 1
    MaxKept = 2
INVARIANT TypeOK
INVARIANT NothingFromEarlierStreams
PROPERTY BadBytesCostTheirSide
PROPERTY EveryStreamAnswered
CHECK_DEADLOCK FALSE
