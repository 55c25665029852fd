SPECIFICATION Spec
CONSTANTS
    alice = alice
    bob = bob
    carol = carol
    run = run
    rival = rival
    draft = draft
    check = check
    gate = gate
    None = None
    Runners <- Trio
    Recoverers <- Trio
    Runs <- Single
    Nodes <- Draft
    Gates <- Nothing
    Before <- Alone
    Retrying <- Nothing
    Attempts = 1
    Fallbacks = 0
    MaxDispatches = 1
    Parallelism = 1
    Answers <- CompletedOrInterrupted
    Revocable = FALSE
INVARIANTS
    OneDispatcher
CHECK_DEADLOCK FALSE
