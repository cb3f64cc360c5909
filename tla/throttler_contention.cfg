SPECIFICATION Spec
SYMMETRY Symmetry
CONSTANTS
    Requests = {r1, r2}
    Stoppers = {}
    Accounts <- OneAccount
    Actions <- NoAction
    Limiters = {l1, l2, l3}
    DefaultLimit <- Slow
    ActionLimit <- NoOverride
    GCInterval = 2
    StaleAfter = 3
    MaxStall = 1
    PromptGC = FALSE
    MaxTime = 7
    MaxDebt = 2
    KeyError = KeyError
    Absent = Absent
    NoLimiter = NoLimiter
INVARIANTS
    TypeOK
    HeldIsCurrent
    AdmissionBound
PROPERTIES
    EvictsOnlyIdle
