SPECIFICATION HHangingSpec
CONSTANTS
    p1 = p1
    p2 = p2
    Chain <- MCChain
    Requests = {r1}
    MaxAttempts = 1
    TTL = 0
    SWR = 0
    FailureThreshold = 1
    SuccessThreshold = 1
    OpenTimeout = 1
PROPERTIES
    TimeoutEnforced
