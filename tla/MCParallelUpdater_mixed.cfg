\* Two updates at once, none forced, nothing fails.
CONSTANTS
    Strategy = "parallel"
    Requests = {r1, r2}
    Pids = {p0, p1, p2}
    Nil = Nil
    Blank = Blank
    Broken = Broken
    Absent = Absent
    Times = {t1}
    NoTime = NoTime
    FsMayFail = FALSE
    InputMayFail = FALSE
    MaxInFlight = 2
    MaxResets = 0
    MaxRestarts = 0
SPECIFICATION Spec
INVARIANTS
    InstalledIsWhole
CHECK_DEADLOCK FALSE
