CONSTANTS
    p1 = p1
    p2 = p2
    t1 = t1
    t2 = t2
    t3 = t3
    Deleted = Deleted
    None = None
    Peers = {p1}
    Clients <- MCClients
    PeerOf <- SamePeer
    SeedDirectories <- MCDirectories
    SeedFiles <- MCFiles
    Original = t1
    Empty = t1
    Contents = {t1, t2}
    Opens <- Existing
    Requests <- RenameOnly
    MaxCalls = 5
SPECIFICATION MountSpec
INVARIANTS SavesStayWithFile
CHECK_DEADLOCK FALSE
