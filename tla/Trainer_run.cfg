SPECIFICATION Spec
CONSTANTS
    Configs <- MCConfigs
    Starts = {0, 2}
    Workers = 2
    GameRows = {2}
    ReconnectLimit = 1
    MaxErrors = 1
INVARIANTS
    BatchesInOrder
    PaceBounded
    PublishedExact
PROPERTIES
    RunEnds
