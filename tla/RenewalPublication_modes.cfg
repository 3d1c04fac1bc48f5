SPECIFICATION ModesSpec
CONSTANTS
    Process = {p1, p2}
    Serial = {s0, s1, s2, s3}
    Initial = s0
    NoSerial = NoSerial
    MaxErrors = 2
    MaxDeaths = 1
    FewStaged = 2
    s0 = s0
SYMMETRY Symmetry
INVARIANT RenewalInv
INVARIANT KeyRetained
INVARIANT RollbackKept
PROPERTY PublishedOrRestored
PROPERTY FailedActivationReverts
PROPERTY ActivationServesCandidate
