SPECIFICATION Spec
CONSTANTS
    Services = {"own", "shared"}
    Keys = {"k1", "k2"}
    Plaintexts = {"p", "q"}
    KeySize = 2
    FunctionOf <- MCFunctionOf
    MaxChanges = 3
    MaxSealed = 2
    NotBase64 = NotBase64
    None = None
INVARIANTS
    KeyIsWhole
    OpensWhatWasSealed
PROPERTIES
    LoadIsChecked
CHECK_DEADLOCK FALSE
