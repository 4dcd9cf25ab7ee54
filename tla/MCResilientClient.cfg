SPECIFICATION HFairSpec
CONSTANTS
    p1 = p1
    p2 = p2
    Chain <- MCChain
    Requests = {r1, r2}
    MaxAttempts = 2
    TTL = 0
    SWR = 0
    FailureThreshold = 2
    SuccessThreshold = 1
    OpenTimeout = 1
INVARIANTS
    OutcomeAccountsForChain
    OpenLimitsCalls
PROPERTIES
    EveryRequestEnds
    RecoveredProviderReturns
