SPECIFICATION Spec
CONSTANTS
    Sessions = {s1, s2}
    Requests = {r1, r2}
    Calls = {c1, c2}
    None = None
    MaxHead = 3
    MaxEpoch = 1
    MaxBatch = 2
SYMMETRY Symmetry
INVARIANTS
    IndInv
    AnswersAreTrue
    TimelineIsComplete
PROPERTIES
    ImplementsSessionLog
