SPECIFICATION MCSpec
CONSTANTS
    x1 = x1
    x2 = x2
    Tabs = {c1, c2}
    LastHalf = 4
    MaxCrashes = 1
    AuthCalls = {c1, c2}
    MaxMessages = 2
    MaxFailed = 2
    Profiles = {x1, x2}
    Wallets = {w1, w2}
    Google = google
    MaxDeleted = 1
    Nobody = nobody
    LinkCalls = {c1, c2}
    Admins = {a1, a2, a3}
    EnvAdmins = {a3}
    AdminCalls = {c1, c2}
    MaxTries = 3
    Users = {u1, u2}
    Asker = u1
    Thread = thread
    Replies = {x1, x2}
    ForumCalls = {c1, c2}
INVARIANTS
    AccountsTypeOK
    
    StreakIsEarned
    NonceSpentOnce
    CounterHasDeadline
    AlwaysAWayIn
    AddressFollowsLink
    LastAdminStays
    ForumCountsRows
    OneAcceptedAnswer
CHECK_DEADLOCK FALSE
SYMMETRY CallSymmetry
