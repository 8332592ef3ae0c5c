SPECIFICATION ServerSpec
CONSTANTS
  kPacketMagic <- MCMagic
  kMaxBatchSize = 16
  Crc <- MCCrc
  Datagrams <- MCTwoBatches
  MaxDatagrams = 3
  Options <- MCUroCountModes
  SoRcvTimeoWorks = TRUE
  Uint32Values = 4
INVARIANT CountNotExceeded
CHECK_DEADLOCK FALSE
