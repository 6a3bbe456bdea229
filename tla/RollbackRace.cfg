CONSTANTS
    MaxGeneration = 1
    MaxControls = 2
    MaxRequests = 2
    MaxFailures = 1
SPECIFICATION ViewerSpec
INVARIANTS RollbackIsCoherent
CHECK_DEADLOCK FALSE
