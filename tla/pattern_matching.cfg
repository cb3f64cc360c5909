SPECIFICATION Spec
CONSTANTS
    Calls <- MCCalls
    NoCall = NoCall
    NoAnswer = NoAnswer
    Substitutable <- MCSubstitutable
    ArnComponents = 3
INVARIANTS
    TypeOK
    WritePathAgrees
PROPERTIES
    ImplementsDecision
    ScanAdvances
