CONSTANTS
    MaxGeneration = 2
    MaxControls = 2
    MaxRequests = 1
    MaxFailures = 1
    Tracks = {"t"}
    Viewers = {"v", "w"}
    Monitors = {}
    Defaults = {"d"}
    KeepOpen = {"w"}
    MaxOpens = 2
    MaxFaults = 1
    Owners = {"first", "second"}
    Resources = {1, 2, 3}
    OwnerOf <- MCOwnerOf
    MaxAutomaticRetries = 2
    MaxCalls = 2
    MaxBarriers = 2
    Batches = {b1, b2, b3}
    MaxIndex = 2
    MaxEpoch = 2
    Chunks = {1, 2}
    Strangers = {0, 1}
    MaxRemovals = 2
    MaxThrows = 1
    MaxRestarts = 1
    BlindChecks = FALSE
SPECIFICATION MCSpec
INVARIANTS
    NothingStrays 
    LeasesAreCounted HeldTracksAreServed FailedReleasesAreOwed
    ClosesOnce RetryIsScheduled
    ProbeOwned ProbeBeyondEvidence
     RollbackIsComplete 
PROPERTIES CleanupKeepsHandles BreakerSpec  RemovedStaysRemoved
CHECK_DEADLOCK FALSE
