SPECIFICATION Spec
CONSTANT Datagrams <- MCDatagrams
INVARIANTS
  TypeOK
  EveryEchoOnce
  SweepInOrder
  PointsMatchMetadata
  LastPacketHalfEmpty
