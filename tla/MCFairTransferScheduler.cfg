CONSTANTS
    Owners <- MCOwners
    Requests <- MCRequests
    Owner <- MCOwner
    Count <- MCCount
    Bytes <- MCBytes
    Lane <- MCLane
    Lanes <- MCLanes
    CountLimit = 2
    ByteLimit = 3
    LaneLimit <- MCLaneLimit
    NoOwner = NoOwner
    NoRequest = NoRequest
SPECIFICATION FairSpec
INVARIANTS Conservation RotationExact WorkConserving
PROPERTIES PoolSpec NoStarvation
