SPECIFICATION Spec
CONSTANTS
    Process = {p1, p2}
    Config = {a, b, x}
    Valid = {a, b}
    NoConfig = NoConfig
    Dir = {d1, d2}
    EditsRace = TRUE
    MaxEdits = 1
    MaxFaults = 1
    MaxPowerLosses = 1
    a = a
    b = b
    x = x
SYMMETRY Symmetry
INVARIANT LifecycleInv
INVARIANT ActiveAccounted
INVARIANT RevisionsWhole
