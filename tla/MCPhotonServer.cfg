\* Two callers, four processes, forks that may fail.
CONSTANTS
    Callers = {c1, c2}
    Pids = {p1, p2, p3, p4}
    Nil = Nil
    ForkMayFail = TRUE
SPECIFICATION Spec
INVARIANTS
    TypeOK
    LiveChildIsOwned
    
PROPERTIES
    StopLeavesNoChild
    StuckUntilRestart
    StopReturns
CHECK_DEADLOCK FALSE
