SPECIFICATION Spec
CONSTANTS
    task = task
    builder = builder
    peer = peer
    reviewer = reviewer
    owner = owner
    crew = crew
    product = product
    None = None
    Tasks <- MCTasks
    Roots <- MCRoots
    Agents <- MCAgents
    Principals <- MCPrincipals
    Policies <- MCPolicies
    Contracts <- MCContracts
    Perishable <- MCPerishable
    MayExpire <- MCMayExpire
    RecordsTracked = FALSE
    MaxRevision = 1
    Derived = {}
    MaxVersion = 9
INVARIANTS
    IndependentAcceptance
    AcceptedLineage
    RejectedStaysRejected
    OperationsApplyOnce
PROPERTIES
    ImplementsAcceptance
CHECK_DEADLOCK FALSE
