\* Two updates, one after the other or at once, with every failure, none forced,
\* one end of the agent; photon gives no import date.
CONSTANTS
    Strategy = "parallel"
    Requests = {r1, r2}
    Pids = {p0, p1, p2}
    Nil = Nil
    Blank = Blank
    Broken = Broken
    Absent = Absent
    Times = {}
    NoTime = NoTime
    FsMayFail = TRUE
    InputMayFail = TRUE
    MaxInFlight = 2
    MaxResets = 0
    MaxRestarts = 1
SPECIFICATION Spec
INVARIANTS
    ServesWhatIsOnDisk
    LoneInstallIsWhole
    StatusShowsOutage
PROPERTIES
    LoneSwapWhenStopped
    
    
    RequestsEnd
CHECK_DEADLOCK FALSE
