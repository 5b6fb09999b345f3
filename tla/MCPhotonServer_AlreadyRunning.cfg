\* What the code says of the no-op branch of Start, on one caller and two processes.
CONSTANTS
    Callers = {c1}
    Pids = {p1, p2}
    Nil = Nil
    ForkMayFail = FALSE
SPECIFICATION Spec
INVARIANT NoOpMeansRunning
CHECK_DEADLOCK FALSE
