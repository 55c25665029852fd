SPECIFICATION FairSpec
CONSTANTS
    alice = alice
    bob = bob
    carol = carol
    run = run
    rival = rival
    draft = draft
    check = check
    gate = gate
    None = None
    Runners <- Pair
    Recoverers <- Alice
    Runs <- Rivals
    Nodes <- Draft
    Gates <- Nothing
    Before <- Alone
    Retrying <- Nothing
    Attempts = 2
    Fallbacks = 1
    MaxDispatches = 2
    Parallelism = 1
    Answers <- CompletedOrNotStarted
    Revocable = TRUE
INVARIANTS
    OneDispatcher
    OneRunPerClaim
PROPERTIES
    FinishedIsOver
    CallsEnd
CHECK_DEADLOCK FALSE
