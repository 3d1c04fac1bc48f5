SPECIFICATION Spec
CONSTANTS
    Process = {p1, p2}
    Config = {a, b, x}
    Valid = {a, b}
    NoConfig = NoConfig
    Dir = {d1, d2}
    EditsRace = FALSE
    MaxEdits = 0
    MaxFaults = 0
    MaxPowerLosses = 0
    a = a
    b = b
    x = x
PROPERTY NoNewerStateOverwritten
