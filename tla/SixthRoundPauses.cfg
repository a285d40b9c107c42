SPECIFICATION Spec
CONSTANTS
    Specs = {s1, s2}
    NoSpec = NoSpec
    Auditors = {a1, a2, a3}
    Maximum = 3
    PauseStreak = 2
    MaxResumes = 2
SYMMETRY Symmetry
INVARIANTS
    SixthRoundPauses
