SPECIFICATION Spec
CONSTANTS
    Inits = {i1}
    Setters = {s1}
    Loggers = {}
    Tracing <- MCTracing
    Levels = {0, 1}
    HostLogs = FALSE
    None = None
    i1 = i1
    i2 = i2
INVARIANT BridgeAttached
