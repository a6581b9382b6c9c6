SPECIFICATION FairSpec
CONSTANTS
  Datagrams <- MCDatagrams
  BufferSize = 3
  SleepTicks = 2
  AngleOffset <- MCAngleOffset
  Inverted = TRUE
INVARIANTS
  TypeOK
  AgeBounded
  OrderKept
PROPERTIES
  StreamsScans
  KeepsScanning
