SPECIFICATION FairSpec
CONSTANTS
    t1 = t1
    t2 = t2
    t3 = t3
    Tasks = {t1, t2}
    MaxAttempts = 2
    MaxReruns = 0
    MaxPending = 1
    Results = {"CONVERGED", "NON_CONVERGED"}
    Order <- OrderTwo
    BatchOf <- BatchTwo
    Depends <- DependsTwo
    Limits <- LimitsTwo
    MaxAuto = 1
    Ops = {}
    MaxFaults = 1
    NoTask = NoTask
    NoCall = NoCall
PROPERTIES
    Settles
    NoStarvation
    InvalidSpreads
INVARIANTS
    TypeOK
