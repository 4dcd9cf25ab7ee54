SPECIFICATION AgentsSpec
CONSTANTS
    \* checkpointed runs
    Workers = {w1, w2}
    Users = {alice, bob}
    Steps = {s1, s2}
    Nobody = Nobody
    \* the bus
    Agents = {"a"}
    Publishers = {t1, t2}
    MaxMessages = 2
    MaxSubs = 2
    Types <- MCTypes
    Filters <- MCFilters
    \* the team
    Names = {"w1", "w2"}
    TeamLimit = 5
    AgentLimit = 2
    Prices = {0, 1, 3}
    TopPrice = 3
    MaxRounds = 2
    MaxRuns = 3
    \* the guards
    Threads = {t1, t2}
    FailureThreshold = 2
    MaxRetries = 2
    FallbackAgents = 2
    MaxFailures = 3
    \* fan-outs
    Tasks = 3
    MaxWorkers = 2
    \* chains
    SectionSteps = 2
    MaxTries = 2
    ExtraGates = 1
    Nests <- MCNests
    MaxDepth = 1
INVARIANTS
    DecidedBySomebodyElse
    CompletedOnceDone
    QueuedAfterHandlers
    OverspendBounded
    DeadAfterAllAttempts
    SightIsOrdered
    StatusTellsFailure
PROPERTY
    DoneRunCompletes
CHECK_DEADLOCK FALSE
