SPECIFICATION FairSpec
CONSTANTS
  Sizes <- MCSizes
  QueueSize = 2
  MaxPackets = 2
  MaxRunning = 2
INVARIANTS
  TypeOK
  ToolsAlone
  ReceivedBytesOnly
PROPERTY
  AloneIsServed
