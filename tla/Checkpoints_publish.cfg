SPECIFICATION Spec
CONSTANTS
    TotalSteps = 2
    PublishInterval = 1
    PinInterval = 2
    Retains = {0, 1}
    Aliases = {best, arena}
    MaxCommands = 3
INVARIANTS
    PointersResolve
    MilestonesPinned
    DiskBounded
PROPERTIES
    NewestLoaded
CHECK_DEADLOCK FALSE
