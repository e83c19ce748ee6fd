SPECIFICATION Spec
CONSTANTS
    Connections = {t}
    Headers <- MCHeaders
    Lengths = {0, 1, 3}
    Limit = 4
    Word = 16
    Resolution = 2
    MaxTime = 3
    MaxPackets = 3
INVARIANT UdpUnderLimit
CHECK_DEADLOCK FALSE
