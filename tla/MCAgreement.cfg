SPECIFICATION Spec
CONSTANTS
  Datagrams <- MCDatagrams
  Reach <- MCReach
INVARIANTS
  TypeOK
  EchoesAgree
  AnglesAgree
  LagBounded
  ScanAgrees
  LastPacketsAgree
  LakibeamAgrees
  PlotterAgrees
