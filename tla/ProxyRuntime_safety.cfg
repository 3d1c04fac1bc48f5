SPECIFICATION Spec
CONSTANTS
    c1 = c1
    c2 = c2
    b1 = b1
    b2 = b2
    a1 = a1
    a2 = a2
    get = get
    post = post
    NoAddr = NoAddr
    Request = {get, post}
    Retryable = {get}
    Config = {c1, c2}
    Initial = c1
    Backend = {b1, b2}
    Addr = {a1, a2}
    Pool <- MovedPool
    MaxSlots = 1
    MaxAttempts = 2
    MaxReloads = 1
    MaxFlips = 1
INVARIANT SlotsMatch
INVARIANT NoReplay
INVARIANT ProxyInv
PROPERTY RefusedOnlyByVerdict
