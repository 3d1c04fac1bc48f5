SPECIFICATION Spec
CONSTANTS
    NoMatch = NoMatch
    NoClient = NoClient
    Malformed = Malformed
    Candidate <- MCCandidate
    Deployed <- MCDeployed
    Broken = Broken
    NoConfig = NoConfig
    Profile <- MCProfile
    Request <- MCRequest
    Address = {"proxy", "c1", "c2"}
    MaxChain = 2
CHECK_DEADLOCK FALSE
INVARIANT VerifiedBehavesAlike
