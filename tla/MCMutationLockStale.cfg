SPECIFICATION Spec
CONSTANTS
    alice = alice
    bob = bob
    carol = carol
    Nobody = Nobody
    Processes <- MCProcesses
    StaleAfter = 1
    MaxAttempts = 2
    MaxCrashes = 1
    SlowOperations = FALSE
INVARIANT
    Exclusive
CHECK_DEADLOCK FALSE
