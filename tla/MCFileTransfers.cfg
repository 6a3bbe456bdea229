CONSTANTS
    u = u
    r = r
    a = a
    Uploads = {u}
    Reads = {r}
    Jobs = {a, c, d, e}
    Payloads = {c}
    Prefetched = {}
    Parents = {p, q}
    MaxTracked = 1
    Overlapping = FALSE
    Transfer <- MCTransfer
    Limit <- MCLimit
SPECIFICATION FairSpec
INVARIANTS FinishedOwnsNothing 
PROPERTIES FailedStartsNothing PoolSpec CloseCompletes
