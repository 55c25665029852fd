SPECIFICATION Spec
CONSTANTS
    first = first
    second = second
    builder = builder
    reviewer = reviewer
    owner = owner
    crew = crew
    product = product
    None = None
    Tasks <- MCTasks
    Roots <- MCRoots
    Agents <- MCAgents
    Principals <- MCPrincipals
    Policies <- MCPolicies
    Contracts <- MCContracts
    Perishable <- MCPerishable
    MayExpire <- MCMayExpire
    RecordsTracked = TRUE
    MaxRevision = 1
    Derived = {}
    MaxVersion = 5
INVARIANTS
    AcceptedContainsDependencies
    AcceptedInScope
    PinnedDependenciesStand
CHECK_DEADLOCK FALSE
