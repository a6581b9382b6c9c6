SPECIFICATION Spec
CONSTANTS
  Sizes <- MCSizes
  QueueSize = 2
  MaxPackets = 2
  MaxRunning = 2
INVARIANT ListeningIsBound
