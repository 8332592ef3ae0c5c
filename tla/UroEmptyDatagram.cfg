SPECIFICATION ServerSpec
CONSTANTS
  kPacketMagic <- MCMagic
  kMaxBatchSize = 16
  Crc <- MCCrc
  Datagrams <- MCEmpty
  MaxDatagrams = 3
  Options <- MCUroIdle
  SoRcvTimeoWorks = TRUE
  Uint32Values = 4
PROPERTY EndsOnlyWhenIdle
CHECK_DEADLOCK FALSE
