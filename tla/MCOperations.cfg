SPECIFICATION OperationsSpec
CONSTANTS
  None = None
  \* the limiters
  Unit = 20
  Capacity = 40
  RefillRate = 10
  WindowSize = 2
  MaxRequests = 2
  MaxRate = 40
  MinRate = 10
  HealthThreshold = 6
  HealthScores = {0, 2, 5, 10}
  Horizon = 4
  MaxGifts = 1
  \* the quotas
  Pairs = {p1}
  Callers = {c1, c2}
  Configs <- MCConfigs
  MaxCharge = 2
  MaxCost = 2
  MaxSpent = 7
  Day = 1
  Month = 2
  \* the prompt scores
  Evaluators = {e1, e2}
  PromptScores = {2, 5, 9}
  DefaultThreshold = 3
  MaxScores = 3
  \* the baselines
  Values = {0, 1, 3}
  MaxSamples = 5
  ThresholdNum = 3
  ThresholdDen = 2
  Providers = {p1}
  Costs = {0, 5, 16}
  DefaultDailyBudget = 10
  CostThreshold = 15
  NoBaseline = NoBaseline
  \* the SLA checks
  Window = 1
  Latencies = {1, 6}
  MaxLatency = 5
  MaxErrorPercent = 50
  MinUptimePercent = 50
  MaxRecords = 4
  \* the experiments
  Scenarios = {"s1", "s2"}
  Duration = 1
  MaxInjections = 2
  MaxFaults = 2
  MaxCounted = 4
  MaxTime = 2
  \* the Redis memory
  Clients = {n1, n2}
  Fallbacks = {n2}
  MaxRows = 1
  Ttls = {0, 1}
  MaxStores = 2
  LastTick = 2
INVARIANTS RowsWithinBudget NoStretchExceedsLimit OverrunBounded DeepFallsAreFlagged OwnDriftNeedsSamples BreachesFollowRecords
PROPERTIES PoisonStays ExhaustedUntilReset PassedMissedWhatItSaw
CHECK_DEADLOCK FALSE
