SPECIFICATION Spec
CONSTANTS
    t1 = t1
    t2 = t2
    t3 = t3
    Tasks = {t1, t2, t3}
    MaxAttempts = 1
    MaxReruns = 0
    MaxPending = 1
    Results = {"CONVERGED", "NON_CONVERGED"}
    Order <- OrderThree
    BatchOf <- BatchThree
    Depends <- DependsThree
    Limits <- LimitsThree
    MaxAuto = 0
    Ops = {}
    MaxFaults = 1
    NoTask = NoTask
    NoCall = NoCall
INVARIANT WithinLimits
