SPECIFICATION Spec
CONSTANTS
  Datagrams <- MCDatagrams
  MaxPackets = 2
INVARIANT
  EmptyScanReported
