SPECIFICATION FairSpec
CONSTANTS
    Requests = {r1}
    Stoppers = {s1, s2}
    Accounts <- OneAccount
    Actions <- OneAction
    Limiters = {l1, l2}
    DefaultLimit <- Slow
    ActionLimit <- GetClosed
    GCInterval = 1
    StaleAfter = 2
    MaxStall = 1
    PromptGC = TRUE
    MaxTime = 5
    MaxDebt = 1
    KeyError = KeyError
    Absent = Absent
    NoLimiter = NoLimiter
INVARIANTS
    IdleEntriesCollected
    StopMeansExited
PROPERTIES
    RefusedOnlyWhenSpent
    StopReturns
