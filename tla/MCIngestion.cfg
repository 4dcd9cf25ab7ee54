SPECIFICATION BothSpec
CONSTANTS
    \* trace ingestion
    Clients = {c1, c2}
    IdemKeys = {k1, k2}
    TraceIds = {t1, t2, t3, t4}
    None = None
    \* verdicts
    Readers = {reader}
    Evaluators = {e1, e2}
    Floors <- MCFloors
    Ceilings <- MCCeilings
    Values = {0, 1, 2}
    Threshold <- MCThreshold
INVARIANTS
    MarksAreExplained
    PassedWasEarned
PROPERTIES
    KeyIsPromise
    StoredKeyAnswers
    GateSettles
