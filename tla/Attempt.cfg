\* Two attempts, with either executor; a channel that fills up.
CONSTANTS
    Buffer = 2
    MaxExecutions = 2
    MaxNoise = 2
    MaxStarts = 2
SPECIFICATION FairAttemptSpec
INVARIANTS CauseIsFirst
PROPERTIES InterruptionStands  AttemptEnds
CHECK_DEADLOCK FALSE
