SPECIFICATION FairSpec
CONSTANTS
  Datagrams <- MCDatagrams
  MaxPackets = 3
INVARIANTS
  TypeOK
  Filed
  OneRowPerBin
  SavedIsWritten
  RowsArePrefix
  BinsAccounted
  OldScanKept
PROPERTIES
  KeepsPromise
  Terminates
