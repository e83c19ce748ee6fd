SPECIFICATION Spec
CONSTANTS
    Streams <- MCStreams
    StreamIds = {1}
    MaxStreams = 1
    MaxKills = 0
    MaxKept = 2
PROPERTY WholeMessagesPass
CHECK_DEADLOCK FALSE
