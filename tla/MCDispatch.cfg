\* One item through its life, two that overlap, one that is put aside; two workers, a task, one worker in disorder at a time.
SPECIFICATION Spec
CONSTANTS
    a = a
    b = b
    c = c
    d = d
    e = e
    None = None
    Items <- MCItems
    Order <- MCOrder
    Starts <- MCStarts
    Named <- MCNamed
    Deps <- MCDeps
    Ancestors <- MCAncestors
    Overlapping <- MCOverlapping
    Units <- MCUnits
    Capacity = 1
    Stages <- MCStages
    Successors <- MCSuccessors
    Escapes <- MCEscapes
    Acks <- MCAcks
    Scopes <- MCScopes
    Kinds <- MCKinds
    Reports = {"completed", "cancelled"}
    TaskReports = {"active", "completed"}
    LooseTasks = FALSE
    Tasked = {a}
    Fragile = {a}
    MaxItems = 1
    MaxClaims <- MCMaxClaims
    MaxPlans = 2
    MaxWorkers = 2
    MaxTasks = 1
    MaxTorn = 1
INVARIANTS TypeOK OneLiveWorker LiveWorkersHoldResources NothingHeldInVain WorkersKnowTheirTask
PROPERTIES SparesLaterClaims DispatchedInOrder
CHECK_DEADLOCK FALSE
