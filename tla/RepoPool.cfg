SPECIFICATION Spec
CONSTANTS
    Runs = {r1, r2}
    Supervised = {r1}
    MaxGenerations = 2
    MaxSequence = 3
INVARIANTS
    TypeOK
    ReadersKeepTree
    ExposedInvalid
PROPERTY InvalidKept
CHECK_DEADLOCK FALSE
