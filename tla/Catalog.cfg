CONSTANTS
    None = None
    Names = {n1, n2}
    Requests = {q1, q2}
    MaxCases = 2
    Batches = {b1}
    Packages <- MCPackages
SPECIFICATION Spec
INVARIANTS
    TypeOK
    VersionsSound
    NumbersPermanent
    BatchesFrozen
SYMMETRY Symmetry
