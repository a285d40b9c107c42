SPECIFICATION FairSpec
CONSTANTS
    Specs = {s1, s2}
    NoSpec = NoSpec
    Auditors = {a1, a2, a3}
    Maximum = 3
    PauseStreak = 2
    MaxResumes = 1
INVARIANTS
    TypeOK
    CountedOnce
    BudgetKept
    CleanIsRecent
    ConvergedSound
    OneAgent
PROPERTIES
    PendingKept
    ImplementsConvergence
    ExecutionEnds
CHECK_DEADLOCK FALSE
