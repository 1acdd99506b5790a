SPECIFICATION FairSpec
CONSTANTS
    Batch <- MCBatch
    NumPolls = 2
    MaxRuns = 2
    Repeated <- MCRepeated
    Faults = {"fails"}
INVARIANTS
    TypeOK
    ResultIsReal
PROPERTIES
    QueueIsWorkedOff
    StopEnds
CHECK_DEADLOCK FALSE
