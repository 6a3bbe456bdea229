CONSTANTS
    Tracks = {"t"}
    Viewers = {}
    Monitors = {"m"}
    Defaults = {}
    KeepOpen = {}
    MaxOpens = 2
    MaxFaults = 1
SPECIFICATION LeaseSpec
INVARIANTS NothingIsLeftOpen
CHECK_DEADLOCK FALSE
