SPECIFICATION FairSpec
CONSTANTS
    Flows <- MCFlows
    Eve <- MCEve
    Tags <- MCTags
    Rules = {"r"}
    ListedTags <- MCListedTags
    FlowTag = "tcp"
    MaxCrashes = 1
    MaxErrors = 1
INVARIANT TypeOK
INVARIANT NothingForgotten
INVARIANT MarksEarnedOnce
PROPERTY ImplementsFlowMarks
PROPERTY GrowthIsNoticed
PROPERTY TagsGetListed
CHECK_DEADLOCK FALSE
