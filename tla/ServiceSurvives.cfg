SPECIFICATION Spec
CONSTANTS
    t1 = t1
    t2 = t2
    t3 = t3
    Tasks = {t1}
    MaxAttempts = 3
    MaxReruns = 1
    MaxPending = 2
    Results = {"PAUSED", "CONVERGED"}
    Order <- OrderOne
    BatchOf <- BatchOne
    Depends <- DependsOne
    Limits <- LimitsOne
    MaxAuto = 1
    Ops = {o1}
    MaxFaults = 0
    NoTask = NoTask
    NoCall = NoCall
PROPERTY ServiceSurvives
