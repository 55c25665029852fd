\* The build and the test of one item are finished, the build of another is delivered.
SPECIFICATION FairSpec
CONSTANTS
    a = a
    b = b
    k = k
    l = l
    build = build
    test = test
    second = second
    None = None
    Items = {a, b}
    Claims = {k, l}
    Ops = {build, test, second}
    ItemOf <- MCItemOf
    StageOf <- MCStageOf
    ClaimOf <- MCClaimOf
    FirstClaim <- MCFirstClaim
    Finishing = {build, test}
    Amendable = {build}
    Expiring = {build}
    Policies = {0, 1}
    MaxEvents = 2
    MaxTroubles = 2
INVARIANTS ReceiptLast
PROPERTIES CompletesAtomically SettledInPlace JournalsAreApplied FinishesSettle
CHECK_DEADLOCK FALSE
