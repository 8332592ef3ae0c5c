SPECIFICATION ServerSpec
CONSTANTS
  kPacketMagic <- MCMagic
  kMaxBatchSize = 16
  Crc <- MCCrc
  Datagrams <- MCTraffic
  MaxDatagrams = 3
  Options <- MCModes
  SoRcvTimeoWorks = TRUE
  Uint32Values = 4
INVARIANTS ServerTypeOK SummaryBalances CountKept
PROPERTIES SessionEnds ImplementsLedger
CHECK_DEADLOCK FALSE
