SPECIFICATION Spec
CONSTANTS
  JobA = JobA  JobB = JobB  JobC = JobC
  GraphX = GraphX  GraphY = GraphY  GraphZ = GraphZ
  Devices = {1}
  Jobs = {JobA, JobB}
  Digests <- MCDigests
  Compatible <- MCCompatible
  Slots <- MCTwoSlots
  Needs <- MCNeeds
  Size <- MCSize
  Outcomes = {succeeded}
  QueueCapacity = 2
  ItemCapacity = 2
  ByteCapacity = 3
  ReceiptCapacity = 2
  CommandCapacity = 1
  AcceptTicks = 1
  LeaseTicks = 1
  Durable = FALSE
  MaxSession = 2
  MaxLease = 2
INVARIANTS RecoveryConsistent ResourcesAccounted
VIEW View
