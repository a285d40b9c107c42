SPECIFICATION FairSpec
CONSTANTS
    Specs = {s1, s2, s3}
    Maximum = 6
    PauseStreak = 2
INVARIANTS
    TypeOK
    BudgetKept
    CleanIsRecent
PROPERTIES
    ResumesWhatPaused
    ImplementsConvergence
    ExecutionEnds
CHECK_DEADLOCK FALSE
