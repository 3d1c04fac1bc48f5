SPECIFICATION Spec
CONSTANTS
    NoMatch = NoMatch
    NoClient = NoClient
    Malformed = Malformed
    Candidate <- MCCandidate
    Deployed <- MCDeployed
    Broken = Broken
    NoConfig = NoConfig
    Profile <- MCProfile
    Request <- MCRequest
    Address = {"proxy", "c1", "c2"}
    MaxChain = 2
INVARIANT ProcessInv
INVARIANT ReloadWhole
INVARIANT DrainedOrDeadline
INVARIANT VerifiedRoutesAlike
INVARIANT ClientAddressStable
PROPERTY SignalsServed
CHECK_DEADLOCK FALSE
