SPECIFICATION ModesSpec
CONSTANTS
    Operator = {op1, op2}
    Key = {k1, k2, k3}
    NoKey = NoKey
    Nonce = {1, 2, 3}
    MaxFaults = 3
    FewFaults = 1
SYMMETRY Symmetry
INVARIANT TypeOK
INVARIANT RolledKeyHeld
INVARIANT RolloverInv
INVARIANT AloneWithinReach
INVARIANT AloneStagedBeforeCall
PROPERTY ActiveFollowsCA
PROPERTY ActiveStaysWhole
CHECK_DEADLOCK FALSE
