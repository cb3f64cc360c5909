SPECIFICATION Spec
CONSTANTS
    Requests = {"long", "short"}
    Kinds <- MCKinds
    Codes = {103, 204, 404, 500}
    Sizes = {0, 2}
    ActionNames = {"", "GetObject"}
    ErrorCodes = {"", "NoSuchKey"}
    MaxCalls <- MCMaxCalls
INVARIANTS
    StatusIsSent
    SpanIsTold
    RequestsCounted
    BytesCounted
