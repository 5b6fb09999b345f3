\* Two updates, one after the other or at once, with every failure, one forced and
\* one end of the agent; photon gives an import date or none.
CONSTANTS
    Strategy = "sequential"
    Requests = {r1, r2}
    Pids = {p0, p1, p2}
    Nil = Nil
    Blank = Blank
    Broken = Broken
    Absent = Absent
    Times = {t1}
    NoTime = NoTime
    FsMayFail = TRUE
    InputMayFail = TRUE
    MaxInFlight = 2
    MaxResets = 1
    MaxRestarts = 1
SPECIFICATION Spec
INVARIANTS
    TypeOK
    ServesWhatIsOnDisk
    LoneInstallIsWhole
    
PROPERTIES
    LoneSwapWhenStopped
    
    
    RequestsEnd
CHECK_DEADLOCK FALSE
