SPECIFICATION ContinuationSpec
CONSTANTS
    job = job
    rival = rival
    builder = builder
    owner = owner
    page = page
    original = original
    successor = successor
    p = p
    q = q
    None = None
    Tasks = {job, rival}
    Job = job
    Roots = {page}
    Agents = {builder}
    Principals = {owner}
    Policies <- MCPolicies
    Contracts <- MCContracts
    Perishable = {}
    MayExpire = {}
    RecordsTracked = FALSE
    MaxRevision = 0
    Derived <- MCDerived
    MaxVersion = 5
    Runs = {original, successor}
    Procs = {p, q}
    Recoverers = {q}
    MaxDispatches = 2
    MaxByHand <- MCMaxByHand
INVARIANTS BuildersDisjoint ContinuedFromRest
PROPERTIES SourceStandsStill
SYMMETRY MCSymmetry
CHECK_DEADLOCK FALSE
