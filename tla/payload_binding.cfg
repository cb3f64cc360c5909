SPECIFICATION FairSpec
CONSTANTS
    Bytes = {"a", "b"}
    MaxPayloadLen = 2
    Requests <- MCRequests
INVARIANTS
    TypeOK
    CompleteMeansSigned
    NoFalseBlame
    UnauthenticatedReadBounded
PROPERTY HonestServed
