SPECIFICATION ServerSpec
CONSTANTS
  kPacketMagic <- MCMagic
  kMaxBatchSize = 16
  Crc <- MCCrc
  Datagrams <- MCTraffic
  MaxDatagrams = 3
  Options <- MCCountModes
  SoRcvTimeoWorks = FALSE
  Uint32Values = 4
PROPERTY SessionEnds
CHECK_DEADLOCK FALSE
