SPECIFICATION StoresSpec
CONSTANTS
    \* virtual keys
    a1 = a1
    a2 = a2
    r1 = r1
    r2 = r2
    r3 = r3
    Callers <- MCPair
    RunIds <- MCRunIds
    Keys = {k1, k2}
    Models = {m1, m2}
    Budgets = {0, 2}
    MaxEstimate = 2
    \* the SQLite memory
    Compactors <- MCPair
    RowBudget = 2
    Topics = {1, 2}
    MaxIds = 4
    \* the cost log
    Days = 2
    Amounts = {1, 3}
    Jobs <- MCPair
    MaxRecords = 2
    MaxKept = 2
SYMMETRY MCSymmetry
INVARIANTS
    OvershootBounded
    OriginalsWithinBudget
    RollupNeverOverstates
    ExportsListWhatTheyCount
PROPERTIES
    ChargesMatchLedger
    CompactionKeepsContents
    ReturnsOnlyFromPlans
CHECK_DEADLOCK FALSE
