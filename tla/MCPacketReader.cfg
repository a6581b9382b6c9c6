SPECIFICATION Spec
CONSTANTS
  Datagrams <- MCDatagrams
  CountMax = 7
INVARIANTS
  TypeOK
  ReportOfOnePacket
  ReliableIsKept
  ReportAddsUp
PROPERTY
  UsesParser
