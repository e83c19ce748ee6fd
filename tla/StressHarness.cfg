SPECIFICATION FairSpec
CONSTANTS
    TicksPerSecond = 2
    Rps = 1
    RotateSeconds = 1
    Durations = {0, 2}
    SeqSpace = 64
    Draws <- MCDraws
    MaxTime = 5
    MaxSegments = 2
    MaxInterrupts = 2
    MaxFaults = 2
INVARIANT TypeOK
INVARIANT FilesTileTheRun
INVARIANT ConversationIsSound
INVARIANT CleansUp
PROPERTY EndsWhenAsked
CHECK_DEADLOCK FALSE
