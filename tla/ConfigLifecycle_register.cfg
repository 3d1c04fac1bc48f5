SPECIFICATION Spec
CONSTANTS
    Process = {p1}
    Config = {a, b, x}
    Valid = {a, b}
    NoConfig = NoConfig
    Dir = {d1, d2, d3}
    EditsRace = FALSE
    MaxEdits = 1
    MaxFaults = 2
    MaxPowerLosses = 0
    a = a
    b = b
    x = x
INVARIANT TypeOK
INVARIANT SoloInv
PROPERTY ImplementsRegister
PROPERTY RevisionsImmutable
