CONSTANTS
    p1 = p1
    p2 = p2
    t1 = t1
    t2 = t2
    t3 = t3
    Deleted = Deleted
    None = None
    Peers = {p1, p2}
    Clients <- MCClients
    PeerOf <- MCPeerOf
    SeedDirectories <- MCDirectories
    SeedFiles <- MCFiles
    Original = t1
    Empty = t1
    Contents = {t1, t2, t3}
    Opens <- Existing
    Requests <- WriteOnly
    MaxCalls = 3
SPECIFICATION MountSpec
INVARIANTS NothingOverwrittenSilently
CHECK_DEADLOCK FALSE
