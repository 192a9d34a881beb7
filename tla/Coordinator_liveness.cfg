SPECIFICATION FairSpec
CONSTANTS
  JobA = JobA  JobB = JobB  JobC = JobC
  GraphX = GraphX  GraphY = GraphY  GraphZ = GraphZ
  Devices = {1}
  Jobs = {JobB}
  Digests <- MCDigests
  Compatible <- MCCompatible
  Slots <- MCTwoSlots
  Needs <- MCNeeds
  Size <- MCSize
  Outcomes = {succeeded}
  QueueCapacity = 1
  ItemCapacity = 2
  ByteCapacity = 3
  ReceiptCapacity = 1
  CommandCapacity = 1
  AcceptTicks = 1
  LeaseTicks = 1
  Durable = TRUE
  MaxSession = 2
  MaxLease = 2
PROPERTY NoJobLeftBehind
