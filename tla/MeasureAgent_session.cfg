SPECIFICATION MCSpec
CONSTANTS
  Jobs = {j1, j2}
  Slots = 1
  EventCapacity = 2
  MaxLease = 2
  MaxSession = 3
  Calls = {"c1", "c2", "c3"}
  JobOf <- MCJobOf
  PipelineSlots = 2
  Capacity = 1
  Samples = 2
  None = None
INVARIANTS RuntimeSound BackendSound
PROPERTIES ReportKept NothingHangs
