SPECIFICATION MCSpec
CONSTANTS
    Requests = {r1, r2}
    MaxRetries = 2
    MaxFaults = 2
    Actions = {a1, a2}
    Replayers = {page, worker}
    MaxLosses = 2
INVARIANTS
    RoutesTypeOK
    SuccessIsOnChain
    MilestoneClaims
    SecondAwardExplained
    QueuedActionsReachTheServer
PROPERTY
    RequestsSettle
CHECK_DEADLOCK FALSE
