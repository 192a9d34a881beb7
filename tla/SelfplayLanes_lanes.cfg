SPECIFICATION FairSpec
CONSTANTS
    laneA = laneA  laneB = laneB
    Lanes = {laneA, laneB}
    Workers = 1
    EvalsPerWorker = 2
    Roots <- MCRoots
    MaxWaves <- MCWaves
    MaxBatch = 2
    Depth = 2
    RemoteMeasure = TRUE
    MaxFaults = 1
INVARIANTS
    TrafficExact
    SuccessIsComplete
PROPERTY
    RunEnds
