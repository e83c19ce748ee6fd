SPECIFICATION Spec
CONSTANTS
    Captures = {c1}
    DumpFiles = {d1}
    DumpWatched = TRUE
    Unfiltered = {}
    Fragments = {2}
    Malformed = {}
    MaxPackets = 2
    MaxDeaths = 0
    MaxFaults = 0
    MaxInt = 7
    NoFile = NoFile
INVARIANT DumpsAreNotRead
CHECK_DEADLOCK FALSE
