CONSTANTS
    p1 = p1
    p2 = p2
    t1 = t1
    t2 = t2
    Deleted = Deleted
    None = None
    Peers = {p1, p2}
    Clients <- MCClients
    PeerOf <- MCPeerOf
    SeedDirectories <- MCDirectories
    SeedFiles <- MCFiles
    Original = t1
    Empty = t1
    Contents = {t1, t2}
    Opens <- MCOpens
    Requests <- MCRequests
    MaxCalls = 3
SPECIFICATION MCSpec
INVARIANTS WriterHoldsItsContent GoneWasRemoved RemoteEditsBecomeConflicts  TreeStays
PROPERTY Converges
CHECK_DEADLOCK FALSE
