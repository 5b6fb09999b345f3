\* Nothing fails, nobody resets the state, and the agent does not die.
CONSTANTS
    WholeEntries = 2
    Files <- MCFiles
    MaxBlock = 1
    Strategies = {"sequential", "parallel"}
    Old = Old
    Absent = Absent
    Unknown = Unknown
    FsMayFail = FALSE
    MaxResets = 0
    MaxRestarts = 0
SPECIFICATION Spec
INVARIANT
    WaitEndsInstalled
CHECK_DEADLOCK FALSE
