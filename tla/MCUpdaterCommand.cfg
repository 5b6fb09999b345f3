\* Every file, option and failure, one reset by hand and one restart of the agent.
CONSTANTS
    WholeEntries = 2
    Files <- MCFiles
    MaxBlock = 1
    Strategies = {"sequential", "parallel"}
    Old = Old
    Absent = Absent
    Unknown = Unknown
    FsMayFail = TRUE
    MaxResets = 1
    MaxRestarts = 1
SPECIFICATION Spec
INVARIANTS
    TypeOK
    SequentialWaitEndsInstalled
    SuccessMeansExtracted
    
    LockedAtTheEnd
PROPERTY
    CommandEnds
CHECK_DEADLOCK FALSE
