CONSTANTS
    u = u
    r = r
    a = a
    Uploads = {u}
    Reads = {}
    Jobs = {a}
    Payloads = {}
    Prefetched = {}
    Parents = {p, q}
    MaxTracked = 1
    Overlapping = TRUE
    Transfer <- MCTransfer
    Limit <- MCLimit
SPECIFICATION Spec
INVARIANT ClosedStoreRefusesTransfers
