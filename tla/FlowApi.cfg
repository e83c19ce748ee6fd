SPECIFICATION Spec
CONSTANTS
    Flows = {"f1", "f2"}
    Time <- MCTime
    ItemTimes <- MCItemTimes
    Tags = {"flag-in"}
    Counted = {"flag-in"}
    Clients = {"c1", "c2"}
    Requests <- MCRequests
    Limit = 2
    PoolSize = 1
    TickLength = 2
    Earliest = 0
    Latest = 10
    Nows = {0, 1}
    MaxRequests = 2
INVARIANT TypeOK
INVARIANT FailuresAreKnown
INVARIANT DetailsAgree
INVARIANT AnswersAreWhole
PROPERTY StarsAndMarks
CHECK_DEADLOCK FALSE
