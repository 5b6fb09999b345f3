\* Two callers that may overlap, two publications, one crash.
CONSTANTS
    Callers = {c1, c2}
    Damaged = Damaged
    Absent = Absent
    Nil = Nil
    MaxVersion = 2
    MaxCrashes = 1
SPECIFICATION Spec
SYMMETRY Symmetry
INVARIANTS
    TypeOK
    DestIsPublished
    SuccessIsInPlace
    
