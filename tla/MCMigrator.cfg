\* Callers of the migrator of an agent of either strategy, with failures, resets and
\* restarts, which may change the strategy.
CONSTANTS
    Callers = {c1, c2, c3}
    Strategies = {"parallel", "sequential"}
    Archives = {a1, a2}
    Blank = Blank
    Broken = Broken
    Absent = Absent
    Times = {t1}
    NoTime = NoTime
    Nil = Nil
    FsMayFail = TRUE
    MaxResets = 2
SPECIFICATION Spec
SYMMETRY Symmetry
INVARIANTS
    TypeOK
    OverlapNeedsReset
    ReportedIndexIsInPlace
PROPERTIES
    ImplementsGate
    IndexSurvives
