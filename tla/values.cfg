SPECIFICATION Spec
CONSTANTS
    MaxInt32 = 1
    NoExponent = NoExponent
    Second = 2
    MaxEpochSeconds = 2
    Nil = Nil
    JSONError = JSONError
    Bad = "bad"
    Replacement = "replacement"
    NoName = NoName
INVARIANTS
    NumericExact
    OneClock
    RoundTrips
    RecordCleaned
    ResolvesWhatWasIssued
CHECK_DEADLOCK FALSE
