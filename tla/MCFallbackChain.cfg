SPECIFICATION FFairSpec
CONSTANTS
    p1 = p1
    p2 = p2
    Providers = {p1, p2}
    Chain <- MCChain
    Callers = {c1, c2}
    FailureThreshold = 2
    SuccessThreshold = 2
    OpenTimeout = 1
    WindowSize = 1
    ErrorDivisor = 10
INVARIANTS
    CircuitTellsEvidence
PROPERTIES
    LeavesOpenOnEvidence
    UnhealthyIsGivenUp
    QuietProviderIsProbed
