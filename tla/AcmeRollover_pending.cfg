SPECIFICATION Spec
CONSTANTS
    Operator = {op1}
    Key = {k1, k2, k3}
    NoKey = NoKey
    Nonce = {1, 2, 3}
    MaxFaults = 0
SYMMETRY Symmetry
INVARIANT NoCallWhilePending
CHECK_DEADLOCK FALSE
