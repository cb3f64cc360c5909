SPECIFICATION Spec
CONSTANTS
    Values <- MCValues
    Unparsed <- MCUnparsed
    Calls <- MCCalls
    NoCall = NoCall
INVARIANTS
    TypeOK
    FailClosedNarrows
PROPERTY ImplementsDecision
