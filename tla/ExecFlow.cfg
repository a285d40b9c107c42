SPECIFICATION FairSpec
CONSTANTS
    Trees = {t1, t2}
    NoTree = NoTree
    Auditors = {a1, a2, a3}
    BatchSize = 2
    MaxResumes = 1
INVARIANTS
    TypeOK
    BatchesKept
    CleanIsRecent
PROPERTIES
    ExecutionEnds
    AuditorNeverPromoted
    PendingKept
    ImplementsConvergence
CHECK_DEADLOCK FALSE
