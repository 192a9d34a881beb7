SPECIFICATION Spec
CONSTANTS
  Jobs = {j1, j2, j3}
  Reports = {r1, r2}
  Full = 3
  MaxRecords = 4
  MaxIoErrors = 2
INVARIANT Durable
PROPERTY NeverOverwritten
