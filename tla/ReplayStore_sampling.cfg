SPECIFICATION Spec
CONSTANTS
    None = None
    Sessions = {s1, s2}
    Contracts <- MCContracts
    Games <- MCGames
    Examples <- MCExamples
    Windows = {2}
    Retain = 1
    MaxGames = 3
    MaxOpens = 2
    MaxServed = 1
SYMMETRY SessionSymmetry
INVARIANTS
    StoreConsistent
    SampleSound
    StoredConforms
CHECK_DEADLOCK FALSE
