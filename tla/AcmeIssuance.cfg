SPECIFICATION IssuanceSpec
CONSTANTS
    Command = {"o1", "o2", "o3"}
    Directory <- MCDirectory
    NoTerms = "none"
    Contact = {"c"}
    Lifetime = 0
    MaxTime = 1
    Run = {"r1", "r2"}
    Name <- MCName
    RecordName <- MCRecordName
    ProviderZone = {"x", "*.x"}
    Request <- MCRequest
    Token <- MCToken
    NameOf <- MCNameOf
    NoToken = "none"
    Planner = "o1"
    Made <- MCMade
    Served <- First
INVARIANT IssuanceInv
INVARIANT ConsentNamesTerms
INVARIANT ReceiptsTrue
INVARIANT CertAfterCleanup
INVARIANT NothingLeft
INVARIANT RecordStands
PROPERTY CancelledReturns
CHECK_DEADLOCK FALSE
