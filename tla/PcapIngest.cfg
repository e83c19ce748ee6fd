SPECIFICATION FairSpec
CONSTANTS
    c1 = c1
    c2 = c2
    Captures = {c1, c2}
    DumpFiles = {d1}
    DumpWatched = FALSE
    Unfiltered = {}
    Fragments = {2}
    Malformed <- MCMalformed
    MaxPackets = 2
    MaxDeaths = 1
    MaxFaults = 1
    MaxInt = 7
    NoFile = NoFile
INVARIANT TypeOK
INVARIANT PositionTruthful
INVARIANT ExactlyOnceWithoutFaults
PROPERTY PositionNeverFallsBack
PROPERTY StoredIsSkipped
PROPERTY ReportedFileIsRead
CHECK_DEADLOCK FALSE
