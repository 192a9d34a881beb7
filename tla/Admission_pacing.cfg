CONSTANTS
    Lanes = {0, 1}
    Staggers = {0, 2}
    Workers = 2
    Roots = 2
    Barren = FALSE
    MaxClosings = 1
    MaxFaults = 1
SPECIFICATION FairSpec
INVARIANTS
    ScheduleConsistent
PROPERTIES
    EveryLaneFinishes
