SPECIFICATION FairSpec
CONSTANTS
    alice = alice
    bob = bob
    carol = carol
    Nobody = Nobody
    Processes <- MCProcesses
    StaleAfter = 1
    MaxAttempts = 2
    MaxCrashes = 1
    SlowOperations = TRUE
INVARIANTS
    ExclusiveWhileFresh
    NoLostUpdate
PROPERTIES
    EveryCallEnds
CHECK_DEADLOCK FALSE
