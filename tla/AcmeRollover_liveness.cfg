SPECIFICATION FairSpec
CONSTANTS
    Operator = {op1}
    Key = {k1, k2}
    NoKey = NoKey
    Nonce = {1, 2, 3}
    MaxFaults = 3
PROPERTY Converges
CHECK_DEADLOCK FALSE
