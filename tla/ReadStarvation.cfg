CONSTANTS
    Owners <- MCOwners
    Requests <- ReadRequests
    Owner <- ReadOwner
    Count <- ReadCount
    Bytes <- ReadBytes
    Lane <- ReadLane
    Lanes = {"remote"}
    CountLimit = 4
    ByteLimit = 4
    LaneLimit <- ReadLimits
    NoOwner = NoOwner
    NoRequest = NoRequest
SPECIFICATION FairSpec
PROPERTIES NoStarvation
