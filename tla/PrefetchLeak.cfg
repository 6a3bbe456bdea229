CONSTANTS
    u = u
    r = r
    a = a
    Uploads = {u}
    Reads = {r}
    Jobs = {a, c, d}
    Payloads = {}
    Prefetched = {d}
    Parents = {p}
    MaxTracked = 1
    Overlapping = FALSE
    Transfer <- MCTransfer
    Limit <- MCLimit
SPECIFICATION FairSpec
PROPERTIES CancelledFinishes
CHECK_DEADLOCK FALSE
