SPECIFICATION IngestSpec
CONSTANTS
    Clients = {c1, c2}
    IdemKeys = {k1}
    TraceIds = {t1, t2}
    None = None
INVARIANT OneTracePerKey
CHECK_DEADLOCK FALSE
