CONSTANTS
    Roots = {"r1"}
    MaxChanges = 2
    MaxInterruptions = 1
    Ids = {"i1", "i2"}
    MaxCandidates = 2
    Concurrency = 1
    MaxEpoch = 1
    MaxForgotten = 1
    MaxRuns = 2
    Programs = {"p1", "p2"}
    Names = {"f"}
    MaxEntries = 2
    Tasks = {"t1", "t2", "t3"}
    ReplicatingRoles = {"small", "large"}
    RoleOperations = {"o1", "o2", "o3"}
    MaxRevision = 2
    MaxRoleFailures = 1
    Tabs = {"a", "b"}
    Downloads = {"d"}
    CrashRecovery = 2
SPECIFICATION MCSpec
INVARIANTS NoGhost HiddenWasDeleted WantedIsPending TasksAreExact RoleSettles LiveEntriesStay LeftoversAreWatched 
PROPERTIES ConfirmationsAreInquiries 
CHECK_DEADLOCK FALSE
