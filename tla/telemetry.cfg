SPECIFICATION Spec
CONSTANTS
    Inits = {i1, i2}
    Setters = {s1}
    Loggers = {l1}
    Tracing <- MCTracing
    Levels = {0, 1, 2}
    HostLogs = TRUE
    None = None
    i1 = i1
    i2 = i2
INVARIANTS TypeOK NothingLeaks OrderIndependent SinksAgree
