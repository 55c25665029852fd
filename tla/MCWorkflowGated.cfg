SPECIFICATION Spec
CONSTANTS
    alice = alice
    bob = bob
    carol = carol
    run = run
    rival = rival
    draft = draft
    check = check
    gate = gate
    None = None
    Runners <- Pair
    Recoverers <- Pair
    Runs <- Single
    Nodes <- DraftCheck
    Gates <- Gate
    Before <- Gated
    Retrying <- Draft
    Attempts = 2
    Fallbacks = 0
    MaxDispatches = 3
    Parallelism = 2
    Answers <- AnyAnswer
    Revocable = FALSE
INVARIANTS
    NothingOnUncertainty
    CompletedIsComplete
    DispatchedOnce
PROPERTIES
    AnswersStand
CHECK_DEADLOCK FALSE
