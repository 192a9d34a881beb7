SPECIFICATION FairSpec
CONSTANTS
  Episodes = {e1, e2}
  MaxEvals = 1
  MaxBatch = 2
  Depth = 2
  MaxResident = 2
  MaxVersion = 4
INVARIANT ModelsPinned
PROPERTIES LatestServed SupersededReleased
